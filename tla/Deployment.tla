----------------------------- MODULE Deployment -----------------------------
(***************************************************************************)
(* ContainerRunner and Volumes together: createContainer with the volume   *)
(* work it calls done command by command, and the binds it hands to        *)
(* ContainerCreate, which docker resolves every time the container is      *)
(* started.  What ContainerRunner says of volumes (whose declaration's are *)
(* mounted) here follows from the mount table.                             *)
(***************************************************************************)
EXTENDS ContainerRunner, Sequences

CONSTANTS
    Names, Disks, Devices, Requests, ForeignPoints, InitialTables,
    InitialModes, MaxLayers, TransientFaults, NoRequest, NoTarget, Failed,
    VolumesOf,        \* the volumes of every declaration
    NoBinds           \* where there is no container

ASSUME VolumesOfAssumption == VolumesOf \in [Declarations -> Requests]

VARIABLES
    table, fs, attached, unreadable,            \* the host (Volumes)
    step, request, todo, left, index, result, paths,
    binds             \* the paths given to docker for every container

V == INSTANCE Volumes WITH pc <- step

ASSUME MountsAssumption == V!VolumesAssumption

storage == <<table, fs, attached, unreadable>>
preparation == <<step, request, todo, left, index, result, paths>>
deploymentVars == <<vars, storage, preparation, binds>>

DeploymentInit ==
    /\ Init
    /\ V!Init
    /\ binds = [i \in Ids |-> NoBinds]

----------------------------------------------------------------------------
(* createContainer hands over the paths PrepareVolumesAndGetBindings found. *)
BindsFollow ==
    binds' = [i \in Ids |->
                CASE containers'[i] = NoContainer -> NoBinds
                  [] containers[i] = NoContainer -> paths
                  [] OTHER -> binds[i]]

(* The work of the calls ends with the run that made them. *)
PreparationEnds == IF step = "idle" THEN UNCHANGED preparation ELSE V!NextRun

ManagedMounts == {m \in table : m.point.dir = "managed"}

(* UnmountExistingVolumes *)
UnmountBegins ==
    /\ pc = "unmount"
    /\ V!Begin /\ request' = VolumesOf[spec]
    /\ UNCHANGED <<vars, binds>>

VolumesWhile == IF table' = table \/ volumes = NoVolumes THEN volumes ELSE PartialVolumes

UnmountStep ==
    /\ pc = "unmount"
    /\ V!ListMounts \/ V!ListFails \/ \E m \in todo : V!Umount(m) \/ V!UmountFails(m)
    /\ IF step' = "refs"
       THEN UnmountVolumes
            /\ volumes' = IF ManagedMounts' = {} THEN NoVolumes ELSE VolumesWhile
       ELSE volumes' = VolumesWhile
            /\ UNCHANGED <<declared, containers, local, suffix, welcome, pc, agent>>
    /\ UNCHANGED binds

(* PrepareVolumesAndGetBindings *)
PrepareStep ==
    /\ pc = "prepare"
    /\ V!Agent
    /\ volumes' = IF table' = table THEN volumes ELSE PartialVolumes
    /\ UNCHANGED <<declared, containers, local, suffix, welcome, pc, agent, binds>>

Prepared ==
    /\ step = "bound" /\ PrepareVolumes
    /\ UNCHANGED <<storage, preparation, binds>>

NotPrepared ==
    /\ step = "failed" /\ PrepareFails
    /\ UNCHANGED <<storage, preparation, binds>>

(* The calls of the agent that have nothing to do with volumes. *)
OtherCall ==
    /\ \/ LoadDeclaration
       \/ \E delivered \in BOOLEAN : PullImage(delivered)
       \/ ListContainers
       \/ \E i \in Ids : RemoveContainer(i) \/ RemoveReplyLost(i)
       \/ \E i \in Ids, replied \in BOOLEAN : CreateContainer(i, replied)
       \/ \E replied \in BOOLEAN : StartContainer(replied)
       \/ pc # "prepare" /\ CallFails
    /\ BindsFollow
    /\ UNCHANGED <<storage, preparation>>

RunEnds == Exit /\ PreparationEnds /\ UNCHANGED <<storage, binds>>

DeploymentAgent ==
    \/ UnmountBegins
    \/ UnmountStep
    \/ PrepareStep
    \/ Prepared
    \/ NotPrepared
    \/ OtherCall
    \/ RunEnds

----------------------------------------------------------------------------
(* What happens around the agent. *)
AgentKilled ==
    /\ Crash
    /\ \/ PreparationEnds /\ UNCHANGED storage
       \/ V!FormatKilled
    /\ UNCHANGED binds

VMReboots ==
    /\ Reboot
    /\ V!Reboot
    /\ UNCHANGED binds

Around ==
    /\ \/ ServiceStarts
       \/ ScriptGivesUp
       \/ OperatorStarts
       \/ EditDeclaration
       \/ \E i \in Ids : UserRemoves(i)
       \/ ContainerEvent
    /\ BindsFollow
    /\ UNCHANGED <<storage, preparation>>

DiskFault ==
    /\ \E dev \in Devices : V!Fault(dev)
    /\ UNCHANGED <<vars, binds>>

DeploymentNext ==
    \/ DeploymentAgent
    \/ AgentKilled
    \/ VMReboots
    \/ Around
    \/ DiskFault

DeploymentSpec == DeploymentInit /\ [][DeploymentNext]_deploymentVars

(* systemd starts the unit and every call and command returns. *)
UnitStarts == Around /\ ServiceStarts
DeploymentFairSpec ==
    /\ DeploymentSpec
    /\ WF_deploymentVars(UnitStarts)
    /\ WF_deploymentVars(DeploymentAgent)

----------------------------------------------------------------------------
(* Properties.                                                             *)

(* Commands run only inside the two calls, for the declaration that the    *)
(* run has read.                                                           *)
InStep ==
    /\ pc = "unmount" => step \in {"idle", "list", "umount"}
    /\ pc = "prepare" => step \notin {"idle", "list", "umount"}
    /\ pc \in {"create", "start", "succeeded"} => step = "bound"
    /\ pc = "failed" => step \in {"idle", "failed", "bound"}
    /\ pc \notin {"unmount", "prepare", "create", "start", "succeeded", "failed"} =>
           step = "idle"
    /\ pc \in {"unmount", "prepare", "create", "start"} /\ step # "idle" =>
           request = VolumesOf[spec]

(* Every variable has its type, and the calls of the agent and the         *)
(* commands on volumes are never out of step.                              *)
DeploymentTypeOK ==
    /\ TypeOK
    /\ V!TypeOK
    /\ binds \in [Ids -> [Names -> V!Target \union {NoTarget}] \union {NoBinds}]
    /\ InStep

(* No disk is unmounted, mounted, formatted or repaired while a container  *)
(* that konlet created exists, running or not: such a container holds the  *)
(* disk in a mount namespace of its own, where /proc/mounts of the host    *)
(* does not show it.  Only a reboot is stronger.                           *)
DisksLeftAlone ==
    [][table' # table \/ fs' # fs => Konlets = {} \/ Reboot]_deploymentVars

(* As long as a container that konlet created in this boot exists, every   *)
(* one of its binds leads to the volume that its declaration means,        *)
(* however often the daemon restarts it and whatever later runs, for other *)
(* declarations, began and did not finish.                                 *)
BindsLast ==
    \A i \in Konlets :
        LET r == VolumesOf[containers[i].decl]
        IN  containers[i].fresh /\ V!DistinctTargets(r) =>
                \A k \in DOMAIN r.volumes :
                    V!Reaches(r, r.volumes[k], binds[i][r.volumes[k].name])

(* How far the agent is from the end of its run: the call it is at, and,   *)
(* within the calls that take many steps, what is left of the old          *)
(* containers or of the commands.                                          *)
Stage ==
    CASE pc = "exec" -> 9
      [] pc = "pull" -> 8
      [] pc = "list" -> 7
      [] pc = "remove" -> 6
      [] pc = "unmount" -> IF step = "idle" THEN 5 ELSE 4
      [] pc = "prepare" -> 3
      [] pc = "create" -> 2
      [] pc = "start" -> 1
      [] OTHER -> 0

Work ==
    CASE pc = "remove" -> Cardinality(doomed)
      [] pc \in {"unmount", "prepare"} -> V!StepsLeft
      [] pc \in {"succeeded", "failed"} -> 1
      [] OTHER -> 0

Nearer ==
    \/ Stage' < Stage
    \/ Stage' = Stage /\ Work' \in Nat /\ Work' < Work

(* Every call that returns and every command brings the run nearer to its  *)
(* end, and nothing around the agent, edits, users, the daemon or failing  *)
(* disks, takes it further away: no run lasts for ever unless a call does. *)
RunsAdvance ==
    [][/\ DeploymentAgent => Nearer
       /\ pc \in Running /\ (Around \/ DiskFault) =>
              UNCHANGED <<Stage, Work>>]_deploymentVars

(* A call or a command fails although it could do its work. *)
BadLuck ==
    \/ pc = "exec" /\ CallFails /\ declared # NoDeclaration
    \/ pc \in {"pull", "list"} /\ CallFails
    \/ pc = "pull" /\ spec.image \notin local'
    \/ pc = "remove" /\ CallFails /\ \A i \in doomed : containers[i] # NoContainer
    \/ \E i \in Ids : RemoveReplyLost(i)
    \/ pc = "create" /\ CallFails /\ NameFree(NewName(spec)) /\ spec.image \in local
    \/ pc = "start" /\ CallFails /\ containers[cid] # NoContainer
    \/ \E i \in Ids : CreateContainer(i, FALSE)
    \/ StartContainer(FALSE)
    \/ V!Unlucky

(* The agent can do what the declaration says: the policy is one it knows, *)
(* and the volumes can be prepared.                                        *)
Deployable(d) ==
    RestartPolicyName(d.policy) # "error" /\ V!Preparable(VolumesOf[d])

(* The run in progress has met with no failure.                            *)
RunOnTrack ==
    /\ pc # "failed"
    /\ pc # "exec" => spec = declared
    /\ pc \in {"list", "remove", "unmount", "prepare", "create"} => spec.image \in local
    /\ pc = "remove" => \A i \in doomed : containers[i] # NoContainer
    /\ pc = "start" => containers[cid] # NoContainer
    /\ step # "idle" => V!OnTrack

(* A run that cannot fail is followed by none; one that may fail, by one   *)
(* that cannot, unless it finds a disk to repair.                          *)
Attempts ==
    CASE pc \in Running -> IF RunOnTrack THEN 1 ELSE 3
      [] pc \in {"boot", "waiting"} -> 2
      [] OTHER -> 0

Repairs == Cardinality(V!DirtyDisks(VolumesOf[declared]))

(* Systemd, the agent and the containers go on, and nothing else.          *)
UsualStep == DeploymentAgent \/ UnitStarts \/ (Around /\ ContainerEvent)

FewerToGo ==
    \/ Repairs' < Repairs
    \/ Repairs' = Repairs /\ Attempts' < Attempts
    \/ Repairs' = Repairs /\ Attempts' = Attempts /\ Nearer

(* As long as the declaration can be deployed, nobody interferes and       *)
(* nothing fails that could work, every step of systemd and of the agent   *)
(* is one of finitely many that are left until the container runs, over    *)
(* all runs that may take, and from any state: in the order of importance, *)
(* repairs to be made, runs to be started, calls and commands of the run.  *)
RetriesConverge ==
    [][declared # NoDeclaration /\ Deployable(declared) /\ UsualStep /\ ~BadLuck =>
          /\ declared' = declared /\ Deployable(declared)'
          /\ IF Around /\ ContainerEvent
             THEN UNCHANGED <<Repairs, Attempts, Stage, Work>>
             ELSE FewerToGo]_deploymentVars

Quiet == <>[][UsualStep /\ ~BadLuck]_deploymentVars

(* Once nothing else interferes and nothing fails that could work, the     *)
(* retries of systemd deploy a declaration that can be deployed, from      *)
(* whatever mounts, disks and containers the runs before left: a dirty     *)
(* disk costs one run, a disk that is still mounted none.                  *)
EventuallyDeployed ==
    Quiet /\ (\E d \in Declarations : <>[](declared = d /\ Deployable(d))) =>
        \/ <>[](pc = "done")
        \/ <>[](pc = "inactive")
=============================================================================

-------------------------- MODULE ContainerRunner --------------------------
(***************************************************************************)
(* One VM: the startup agent run by systemd, the Docker daemon it talks to *)
(* and the state that outlives a run of the agent.  A run is               *)
(* ExecStartup -> RunContainer: load the declaration, pull the image,      *)
(* delete the containers of previous runs, unmount and prepare volumes,    *)
(* create the container, start it.  Every arrow is a call that can fail,   *)
(* whose reply can be lost after it took effect, or that the agent does    *)
(* not survive; systemd then starts a new run (Restart=on-failure).        *)
(*                                                                         *)
(* Abstracted: what a volume is (module Volumes), what the container runs  *)
(* (command, environment, tty), registry credentials, iptables.            *)
(***************************************************************************)
EXTENDS Naturals, FiniteSets

CONSTANTS
    Ids,              \* container IDs of the Docker daemon
    RawNames,         \* container names a declaration can ask for
    Images,
    Suffixes,         \* the four random letters of a generated name
    Declarations,     \* declarations that name exactly one container
    InitialHosts,     \* what the Docker daemon may hold before the first run
    NoDeclaration, NoContainer, NoId, NoSuffix, NoVolumes, PartialVolumes

(* "" stands for a restartPolicy that the declaration leaves out. *)
Policies == {"", "Always", "OnFailure", "Never", "EachSunday"}

Declaration == [name : RawNames, image : Images, policy : Policies]

(* A name is "klt-<raw>-<sfx>" when klt, and plain "<raw>" otherwise. *)
Name == [klt : BOOLEAN, raw : RawNames, sfx : Suffixes \union {NoSuffix}]

(* decl is the declaration konlet created the container from (history, for *)
(* the properties), NoDeclaration for a container of somebody else; fresh  *)
(* tells that this happened since the last boot.                           *)
Container == [name : Name, decl : Declarations \union {NoDeclaration},
              status : {"created", "running", "exited"}, fresh : BOOLEAN]

Hosts == [Ids -> Container \union {NoContainer}]

GeneratedName(c) == c # NoContainer /\ c.name.klt

ASSUME ConstantsAssumption ==
    /\ Declarations \subseteq Declaration
    /\ NoDeclaration \notin Declarations
    /\ NoVolumes \notin Declarations /\ PartialVolumes \notin Declarations
    /\ NoVolumes # PartialVolumes
    /\ NoContainer \notin Container
    /\ NoContainer \notin [decl : Declarations, fresh : BOOLEAN]
    /\ NoId \notin Ids

(* Nothing on the first boot is fresh; at most one container carries a     *)
(* generated name, and konlet created it.                                  *)
ASSUME HostsAssumption ==
    \A h \in InitialHosts :
        /\ h \in Hosts
        /\ \A i \in Ids : h[i] # NoContainer => ~h[i].fresh
        /\ \A i \in Ids : GeneratedName(h[i]) => h[i].decl # NoDeclaration
        /\ \A i, j \in Ids : GeneratedName(h[i]) /\ GeneratedName(h[j]) => i = j

VARIABLES
    declared,     \* the declaration in the instance metadata
    containers,   \* the containers of the Docker daemon
    local,        \* images the Docker daemon has
    volumes,      \* the declaration whose volumes are mounted
    suffix,       \* what this boot's seed makes of the random suffix
    welcome,      \* the welcome script in /etc/profile.d; "none": no whole one
    pc,           \* where systemd and the agent are
    spec,         \* the agent's copy of the declaration
    doomed,       \* IDs listed for removal and not removed yet
    cid           \* ID of the container this run created

host == <<declared, containers, local, volumes, suffix, welcome>>
agent == <<spec, doomed, cid>>
vars == <<host, pc, agent>>

(* "boot" and "waiting": systemd is about to start the unit, for the first *)
(* time or again after RestartSec.  "inactive" and "done": the unit exited *)
(* with success, without and after running the agent.  The rest is a       *)
(* running agent.                                                          *)
Running == {"exec", "pull", "list", "remove", "unmount", "prepare",
            "create", "start", "succeeded", "failed"}
Locations == Running \union {"boot", "waiting", "inactive", "done"}

Init ==
    /\ declared \in Declarations \union {NoDeclaration}
    /\ containers \in InitialHosts
    /\ local = {}
    /\ volumes = NoVolumes
    /\ suffix \in Suffixes
    /\ welcome = "none"
    /\ pc = "boot"
    /\ spec = NoDeclaration /\ doomed = {} /\ cid = NoId

----------------------------------------------------------------------------
(* Pieces of the agent's calls.                                            *)

(* The listing asks for running containers only. *)
StartedByKonlet_RunningOnly(c, rawName) ==
    c # NoContainer /\ c.status = "running" /\ (c.name.klt \/ c.name.raw = rawName)

(* The legacy name is forgotten. *)
StartedByKonlet_PrefixOnly(c, rawName) == c # NoContainer /\ c.name.klt

(* The legacy name is compared by prefix, and every name has it. *)
StartedByKonlet_AnyName(c, rawName) == c # NoContainer

(* containersStartedByKonlet: the prefix, or exactly the legacy name. *)
StartedByKonlet(c, rawName) ==
    /\ c # NoContainer
    /\ \/ c.name.klt
       \/ c.name.raw = rawName

AfterList(ids) == IF ids = {} THEN "unmount" ELSE "remove"

(* The loop returns after the first container. *)
AfterRemove_First(rest) == "unmount"
AfterRemove(rest) == IF rest = {} THEN "unmount" ELSE "remove"

NameFree(name) ==
    \A i \in Ids : containers[i] # NoContainer => containers[i].name # name

(* Another name is made up when the first one is taken. *)
NewName_Redrawn(d) ==
    LET name == [klt |-> TRUE, raw |-> d.name, sfx |-> suffix]
    IN  IF NameFree(name) THEN name ELSE [name EXCEPT !.sfx = NoSuffix]
NewName(d) == [klt |-> TRUE, raw |-> d.name, sfx |-> suffix]

NewContainer(d) ==
    [name |-> NewName(d), decl |-> d, status |-> "created", fresh |-> TRUE]

(* Docker's name for the declared policy; an unknown one is an error. *)
RestartPolicyName(policy) ==
    CASE policy \in {"", "Always"} -> "always"
      [] policy = "OnFailure" -> "on-failure"
      [] policy = "Never" -> "no"
      [] OTHER -> "error"

AfterRun(result) == IF result = "succeeded" THEN "done" ELSE "waiting"

(* The file is truncated before it is written, and an error is dropped. *)
WriteWelcomeScript(result) == {result, welcome, "none"}

Forget == spec' = NoDeclaration /\ doomed' = {} /\ cid' = NoId
Panic == pc' = "failed" /\ Forget

----------------------------------------------------------------------------
(* One run of the agent.                                                   *)

ServiceStarts ==
    /\ pc \in {"boot", "waiting"}
    /\ pc' = "exec"
    /\ UNCHANGED <<host, agent>>

(* The script finds no declaration, or its query fails for good: it exits  *)
(* with 0, so that systemd does not start it again (module Startup).       *)
ScriptGivesUp ==
    /\ pc \in {"boot", "waiting"}
    /\ pc' = "inactive"
    /\ UNCHANGED <<host, agent>>

(* An empty declaration is not rejected. *)
LoadDeclaration_Unchecked ==
    /\ pc = "exec" /\ spec' = declared /\ pc' = "pull"
    /\ UNCHANGED <<host, doomed, cid>>

LoadDeclaration ==
    /\ pc = "exec" /\ declared # NoDeclaration
    /\ spec' = declared
    /\ pc' = "pull"
    /\ UNCHANGED <<host, doomed, cid>>

(* The body of the reply is read and logged, never parsed: a failure that  *)
(* the daemon reports inside it (image not delivered) looks like success.  *)
PullImage(delivered) ==
    /\ pc = "pull"
    /\ local' = IF delivered THEN local \union {spec.image} ELSE local
    /\ pc' = "list"
    /\ UNCHANGED <<declared, containers, volumes, suffix, welcome, agent>>

ListContainers ==
    /\ pc = "list"
    /\ doomed' = {i \in Ids : StartedByKonlet(containers[i], spec.name)}
    /\ pc' = AfterList(doomed')
    /\ UNCHANGED <<host, spec, cid>>

(* The map of doomed containers is ranged over in any order.  A container  *)
(* that is gone by now makes Docker answer 404, which is CallFails.        *)
RemoveContainer(i) ==
    /\ pc = "remove" /\ i \in doomed /\ containers[i] # NoContainer
    /\ containers' = [containers EXCEPT ![i] = NoContainer]
    /\ doomed' = doomed \ {i}
    /\ pc' = AfterRemove(doomed')
    /\ UNCHANGED <<declared, local, volumes, suffix, welcome, spec, cid>>

RemoveReplyLost(i) ==
    /\ pc = "remove" /\ i \in doomed /\ containers[i] # NoContainer
    /\ containers' = [containers EXCEPT ![i] = NoContainer]
    /\ Panic
    /\ UNCHANGED <<declared, local, volumes, suffix, welcome>>

(* Whatever part of it fails is logged and the run goes on. *)
UnmountVolumes ==
    /\ pc = "unmount"
    /\ volumes' \in IF volumes = NoVolumes THEN {NoVolumes}
                    ELSE {NoVolumes, PartialVolumes, volumes}
    /\ pc' = "prepare"
    /\ UNCHANGED <<declared, containers, local, suffix, welcome, agent>>

(* Both are many commands (module Volumes), and the agent may not get to   *)
(* their end: it is killed, or the VM is.                                  *)
WorkOnVolumes ==
    /\ volumes # PartialVolumes
    /\ \/ pc = "prepare"
       \/ pc = "unmount" /\ volumes # NoVolumes
    /\ volumes' = PartialVolumes
    /\ UNCHANGED <<declared, containers, local, suffix, welcome, pc, agent>>

(* The restart policy is looked at only now, with the volumes mounted and  *)
(* the old container gone.                                                 *)
PrepareVolumes ==
    /\ pc = "prepare"
    /\ volumes' = spec
    /\ IF RestartPolicyName(spec.policy) # "error"
       THEN pc' = "create" /\ UNCHANGED agent
       ELSE Panic
    /\ UNCHANGED <<declared, containers, local, suffix, welcome>>

PrepareFails ==
    /\ pc = "prepare"
    /\ volumes' = PartialVolumes
    /\ Panic
    /\ UNCHANGED <<declared, containers, local, suffix, welcome>>

(* A container that has the name already is taken for the new one. *)
CreateContainer_Adopts(i, replied) ==
    /\ pc = "create" /\ replied /\ spec.image \in local
    /\ IF NameFree(NewName(spec))
       THEN /\ containers[i] = NoContainer
            /\ containers' = [containers EXCEPT ![i] = NewContainer(spec)]
       ELSE /\ containers[i] # NoContainer /\ containers[i].name = NewName(spec)
            /\ UNCHANGED containers
    /\ cid' = i /\ pc' = "start"
    /\ UNCHANGED <<declared, local, volumes, suffix, welcome, spec, doomed>>

(* Docker refuses a name that is taken and an image it does not have. *)
CreateContainer(i, replied) ==
    /\ pc = "create"
    /\ containers[i] = NoContainer
    /\ NameFree(NewName(spec)) /\ spec.image \in local
    /\ containers' = [containers EXCEPT ![i] = NewContainer(spec)]
    /\ IF replied THEN cid' = i /\ pc' = "start" /\ UNCHANGED <<spec, doomed>>
                  ELSE Panic
    /\ UNCHANGED <<declared, local, volumes, suffix, welcome>>

StartContainer(replied) ==
    /\ pc = "start" /\ containers[cid] # NoContainer
    /\ containers' = [containers EXCEPT ![cid].status = "running"]
    /\ IF replied THEN pc' = "succeeded" /\ UNCHANGED agent ELSE Panic
    /\ UNCHANGED <<declared, local, volumes, suffix, welcome>>

(* Any step may return an error without having done anything: the metadata *)
(* server, a declaration with no or two containers, the token, iptables,   *)
(* a Docker call, a volume check.                                          *)
CallFails ==
    /\ pc \in {"exec", "pull", "list", "remove", "prepare", "create", "start"}
    /\ Panic
    /\ UNCHANGED host

(* exitHandler *)
Exit ==
    /\ pc \in {"succeeded", "failed"}
    /\ welcome' \in WriteWelcomeScript(pc)
    /\ pc' = AfterRun(pc)
    /\ IF pc = "succeeded" THEN UNCHANGED agent ELSE Forget
    /\ UNCHANGED <<declared, containers, local, volumes, suffix>>

Agent ==
    \/ LoadDeclaration
    \/ \E delivered \in BOOLEAN : PullImage(delivered)
    \/ ListContainers
    \/ \E i \in Ids : RemoveContainer(i) \/ RemoveReplyLost(i)
    \/ UnmountVolumes
    \/ WorkOnVolumes
    \/ PrepareVolumes
    \/ PrepareFails
    \/ \E i \in Ids, replied \in BOOLEAN : CreateContainer(i, replied)
    \/ \E replied \in BOOLEAN : StartContainer(replied)
    \/ CallFails
    \/ Exit

----------------------------------------------------------------------------
(* What happens around it.                                                 *)

(* The agent is killed; docker run ends with an error and systemd waits    *)
(* RestartSec before the next run.                                         *)
Crash ==
    /\ pc \in Running
    /\ pc' = "waiting"
    /\ Forget
    /\ UNCHANGED host

(* Mounts do not survive.  The daemon may bring a running container back,  *)
(* unless its policy is "no", before systemd starts the agent.             *)
AfterReboot(c) ==
    IF c = NoContainer THEN {NoContainer}
    ELSE {[c EXCEPT !.fresh = FALSE, !.status = s] :
             s \in CASE c.status # "running" -> {c.status}
                     [] c.decl # NoDeclaration
                        /\ RestartPolicyName(c.decl.policy) = "no" -> {"exited"}
                     [] OTHER -> {"running", "exited"}}

Reboot ==
    /\ containers' \in
           {h \in [Ids -> UNION {AfterReboot(containers[i]) : i \in Ids}] :
                \A i \in Ids : h[i] \in AfterReboot(containers[i])}
    /\ volumes' = NoVolumes
    /\ suffix' \in Suffixes
    /\ welcome' \in {welcome, "none"}
    /\ pc' = "boot"
    /\ Forget
    /\ UNCHANGED <<declared, local>>

(* An operator starts the unit that has exited with success. *)
OperatorStarts ==
    /\ pc \in {"inactive", "done"}
    /\ pc' = "boot"
    /\ Forget
    /\ UNCHANGED host

EditDeclaration ==
    /\ declared' \in (Declarations \union {NoDeclaration}) \ {declared}
    /\ UNCHANGED <<containers, local, volumes, suffix, welcome, pc, agent>>

UserRemoves(i) ==
    /\ containers[i] # NoContainer
    /\ containers' = [containers EXCEPT ![i] = NoContainer]
    /\ UNCHANGED <<declared, local, volumes, suffix, welcome, pc, agent>>

ContainerExits(i) ==
    /\ containers[i] # NoContainer /\ containers[i].status = "running"
    /\ containers' = [containers EXCEPT ![i].status = "exited"]
    /\ UNCHANGED <<declared, local, volumes, suffix, welcome, pc, agent>>

(* By its restart policy or by "docker start". *)
ContainerRestarts(i) ==
    /\ containers[i] # NoContainer /\ containers[i].status = "exited"
    /\ containers' = [containers EXCEPT ![i].status = "running"]
    /\ UNCHANGED <<declared, local, volumes, suffix, welcome, pc, agent>>

ContainerEvent == \E i \in Ids : ContainerExits(i) \/ ContainerRestarts(i)

Disturbance ==
    \/ ScriptGivesUp
    \/ Crash
    \/ Reboot
    \/ OperatorStarts
    \/ EditDeclaration
    \/ \E i \in Ids : UserRemoves(i)

Next ==
    \/ ServiceStarts
    \/ Agent
    \/ Disturbance
    \/ ContainerEvent

Spec == Init /\ [][Next]_vars

(* systemd starts the unit (30 s apart, starts never reach its limit of 5  *)
(* in 10 s) and every call of the agent returns; a call that is tried      *)
(* again and again is one day answered with success.                       *)
Fairness ==
    /\ WF_vars(ServiceStarts)
    /\ WF_vars(Agent)
    /\ SF_vars(LoadDeclaration)
    /\ SF_vars(PullImage(TRUE))
    /\ SF_vars(ListContainers)
    /\ SF_vars(\E i \in Ids : RemoveContainer(i))
    /\ SF_vars(PrepareVolumes)
    /\ SF_vars(\E i \in Ids : CreateContainer(i, TRUE))
    /\ SF_vars(StartContainer(TRUE))

FairSpec == Spec /\ Fairness
----------------------------------------------------------------------------
(* Properties.                                                             *)

(* Every variable has its type; doomed and cid are IDs, and the agent      *)
(* holds a declaration whenever it is past loading it.                     *)
TypeOK ==
    /\ declared \in Declarations \union {NoDeclaration}
    /\ containers \in Hosts
    /\ local \subseteq Images
    /\ volumes \in Declarations \union {NoVolumes, PartialVolumes}
    /\ suffix \in Suffixes
    /\ welcome \in {"none", "succeeded", "failed"}
    /\ pc \in Locations
    /\ spec \in Declarations \union {NoDeclaration}
    /\ pc \in {"pull", "list", "remove", "unmount", "prepare", "create",
               "start", "succeeded", "done"} => spec \in Declarations
    /\ doomed \subseteq Ids
    /\ cid \in Ids \union {NoId}

Konlets == {i \in Ids : GeneratedName(containers[i])}

(* However often runs fail, lose replies, are killed or are repeated with  *)
(* another declaration, the machine never holds two containers with a      *)
(* generated name (deleteOldContainers before ContainerCreate).            *)
AtMostOneKonlet == \A i, j \in Konlets : i = j

(* From the moment the volumes are unmounted until the new container is    *)
(* created no container of an earlier run exists: not one that uses the    *)
(* volumes, and not one that holds the name, which is the same in every    *)
(* run of one boot, so that ContainerCreate could never succeed.           *)
SafeToReplace ==
    pc \in {"unmount", "prepare", "create"} =>
        /\ \A i \in Ids : containers[i] # NoContainer =>
               ~containers[i].name.klt /\ containers[i].name.raw # spec.name
        /\ NameFree(NewName(spec))

(* A container that konlet created in this boot has the volumes of its own *)
(* declaration mounted as long as it exists, whatever later runs do.       *)
VolumesOfFreshContainers ==
    \A i \in Konlets : containers[i].fresh => volumes = containers[i].decl

(* After a successful run nothing of an earlier boot is left that the      *)
(* daemon may have brought back without volumes, nor a legacy container    *)
(* under the declared name; what is left was made from the declaration     *)
(* that this run read.                                                     *)
NothingStaleOnceDone ==
    pc \in {"start", "succeeded", "done"} =>
        /\ \A i \in Konlets : containers[i].fresh /\ containers[i].decl = spec
        /\ \A i \in Ids : containers[i] # NoContainer =>
               containers[i].name.raw # spec.name \/ i \in Konlets

(* A container whose name is neither generated nor the declared one only   *)
(* disappears when a user removes it, also when the IDs the agent removes  *)
(* were listed before the user or the daemon changed something.            *)
ForeignContainersSurvive ==
    [][\A i \in Ids :
         containers[i] # NoContainer /\ containers'[i] = NoContainer =>
             \/ UserRemoves(i)
             \/ containers[i].name.klt
             \/ spec # NoDeclaration /\ containers[i].name.raw = spec.name]_vars

Undisturbed == <>[][ServiceStarts \/ Agent \/ ContainerEvent]_vars

DeployableForGood ==
    \E d \in Declarations :
        RestartPolicyName(d.policy) # "error" /\ <>[](declared = d)

(* Once crashes, reboots, edits and users leave the machine alone and the  *)
(* declaration is one the agent accepts, the runs systemd retries end in a *)
(* successful one, from whatever the disturbances left behind; the only    *)
(* other end is that the script had given up when it was last started.     *)
EventuallyDone ==
    Undisturbed /\ DeployableForGood =>
        \/ <>[](pc = "done" /\ cid # NoId)
        \/ <>[](pc = "inactive")

(* runtime.go:168 says that all containers started by konlet are deleted.  *)
AllOldContainersDeleted ==
    pc \in {"unmount", "prepare", "create"} =>
        \A i \in Ids : containers[i] # NoContainer =>
            containers[i].decl = NoDeclaration

(* welcome-message.go:33: after a failed run, "Your container was not      *)
(* started".                                                               *)
FailureMeansNotStarted ==
    pc = "waiting" /\ welcome = "failed" =>
        \A i \in Konlets : containers[i].fresh /\ containers[i].decl = declared =>
            containers[i].status # "running"

(* The container of Recreate is the one with a generated name.             *)
Managed ==
    IF Konlets = {} THEN NoContainer
    ELSE LET c == containers[CHOOSE i \in Konlets : TRUE]
         IN  [decl |-> c.decl, fresh |-> c.fresh]

Promise == INSTANCE Recreate WITH container <- Managed, Nothing <- NoContainer

(* Every behaviour of agent, daemon, systemd and users is one of Recreate: *)
(* delete, change the volumes, create, in this order, and never a step     *)
(* that swaps one container for another or moves volumes under one.        *)
ImplementsRecreate == Promise!Spec
=============================================================================

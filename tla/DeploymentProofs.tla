-------------------------- MODULE DeploymentProofs --------------------------
(***************************************************************************)
(* Proofs about Deployment: each of its steps is one of ContainerRunner    *)
(* and one of Volumes, or leaves it alone, so that what is proved of the   *)
(* two holds of them together.                                             *)
(***************************************************************************)
EXTENDS Deployment, ContainerRunnerProofs, FiniteSetTheorems

Mounts == INSTANCE DiskUseProofs WITH pc <- step

----------------------------------------------------------------------------
(* The side of ContainerRunner. *)
LEMMA RunnerStep == [DeploymentNext]_deploymentVars => [Next]_vars
<1> SUFFICES ASSUME [DeploymentNext]_deploymentVars PROVE [Next]_vars
    OBVIOUS
<1>1. CASE UnmountBegins
      BY <1>1 DEF UnmountBegins
<1>2. CASE UnmountStep
  <2>1. CASE step' = "refs"
        BY <1>2, <2>1 DEF UnmountStep, Next, Agent
  <2>2. CASE step' # "refs"
    <3>1. /\ pc = "unmount" /\ volumes' \in {volumes, PartialVolumes}
          /\ volumes = NoVolumes => volumes' = volumes
          /\ UNCHANGED <<declared, containers, local, suffix, welcome, pc, agent>>
          BY <1>2, <2>2 DEF UnmountStep, VolumesWhile
    <3>2. CASE volumes' = volumes
          BY <3>1, <3>2 DEF vars, host
    <3>3. CASE volumes' # volumes
          BY <3>1, <3>3 DEF WorkOnVolumes, Next, Agent
    <3>4. QED BY <3>2, <3>3
  <2>3. QED BY <2>1, <2>2
<1>3. CASE PrepareStep
  <2>1. /\ pc = "prepare" /\ volumes' \in {volumes, PartialVolumes}
        /\ UNCHANGED <<declared, containers, local, suffix, welcome, pc, agent>>
        BY <1>3 DEF PrepareStep
  <2>2. CASE volumes' = volumes
        BY <2>1, <2>2 DEF vars, host
  <2>3. CASE volumes' # volumes
        BY <2>1, <2>3 DEF WorkOnVolumes, Next, Agent
  <2>4. QED BY <2>2, <2>3
<1>4. CASE Prepared \/ NotPrepared
      BY <1>4 DEF Prepared, NotPrepared, Next, Agent
<1>5. CASE OtherCall
      BY <1>5 DEF OtherCall, Next, Agent
<1>6. CASE RunEnds
      BY <1>6 DEF RunEnds, Next, Agent
<1>7. CASE AgentKilled \/ VMReboots
      BY <1>7 DEF AgentKilled, VMReboots, Next, Disturbance
<1>8. CASE Around
      BY <1>8 DEF Around, Next, Disturbance
<1>9. CASE DiskFault
      BY <1>9 DEF DiskFault
<1>10. CASE UNCHANGED deploymentVars
      BY <1>10 DEF deploymentVars
<1>11. QED BY <1>1, <1>2, <1>3, <1>4, <1>5, <1>6, <1>7, <1>8, <1>9, <1>10
           DEF DeploymentNext, DeploymentAgent

(* Deployment implements ContainerRunner: what that module says the two    *)
(* volume calls may do to the mounted volumes is what their commands do.   *)
THEOREM DeploymentRuns == DeploymentSpec => Spec
<1>1. DeploymentInit => Init
      BY DEF DeploymentInit
<1>2. QED BY <1>1, RunnerStep, PTL DEF DeploymentSpec, Spec

----------------------------------------------------------------------------
(* The side of Volumes. *)
LEMMA MountsStep ==
    ASSUME [DeploymentNext]_deploymentVars PROVE [V!Next]_(V!vars)
<1>1. UNCHANGED <<storage, preparation>> => UNCHANGED V!vars
      BY DEF storage, preparation, V!vars, V!machine, V!run
<1>2. UNCHANGED storage /\ PreparationEnds => [V!Next]_(V!vars)
      BY <1>1 DEF PreparationEnds, V!Next
<1>3. CASE UnmountBegins
      BY <1>3 DEF UnmountBegins, V!Next, V!Agent
<1>4. CASE UnmountStep
      BY <1>4 DEF UnmountStep, V!Next, V!Agent
<1>5. CASE PrepareStep
      BY <1>5 DEF PrepareStep, V!Next
<1>6. CASE Prepared \/ NotPrepared \/ OtherCall \/ Around
      BY <1>1, <1>6 DEF Prepared, NotPrepared, OtherCall, Around
<1>7. CASE RunEnds
      BY <1>2, <1>7 DEF RunEnds
<1>8. CASE AgentKilled
      BY <1>2, <1>8 DEF AgentKilled, V!Next
<1>9. CASE VMReboots
      BY <1>9 DEF VMReboots, V!Next
<1>10. CASE DiskFault
      BY <1>10 DEF DiskFault, V!Next
<1>11. CASE UNCHANGED deploymentVars
      BY <1>1, <1>11 DEF deploymentVars
<1>12. QED BY <1>3, <1>4, <1>5, <1>6, <1>7, <1>8, <1>9, <1>10, <1>11
           DEF DeploymentNext, DeploymentAgent

(* Deployment implements Volumes: the commands run as they do alone, for   *)
(* the requests of the declarations.                                       *)
THEOREM DeploymentMounts == DeploymentSpec => V!Spec
<1>1. DeploymentInit => V!Init
      BY DEF DeploymentInit
<1>2. [DeploymentNext]_deploymentVars => [V!Next]_(V!vars)
  <2>1. ASSUME [DeploymentNext]_deploymentVars PROVE [V!Next]_(V!vars)
        BY <2>1, MountsStep
  <2>2. QED BY <2>1
<1>3. QED BY <1>1, <1>2, PTL DEF DeploymentSpec, V!Spec

(* The two instances of Volumes are one. *)
LEMMA MountsSame ==
    /\ Mounts!VolumesAssumption
    /\ V!TypeOK <=> Mounts!TypeOK
    /\ V!Init => Mounts!Init
<1>1. Mounts!VolumesAssumption
      BY MountsAssumption
      DEF V!VolumesAssumption, Mounts!VolumesAssumption,
           V!IsFiniteSet, Mounts!IsFiniteSet, V!Device, Mounts!Device,
           V!Tmpfs, Mounts!Tmpfs, V!TmpfsPoint, Mounts!TmpfsPoint,
           V!DiskPoint, Mounts!DiskPoint, V!ManagedPoints,
           Mounts!ManagedPoints, V!Points, Mounts!Points, V!Mount,
           Mounts!Mount, V!Volume, Mounts!Volume, V!VolumeMount,
           Mounts!VolumeMount, V!Request, Mounts!Request, V!HostDirectory,
           Mounts!HostDirectory, V!Target, Mounts!Target, V!FileSystem,
           Mounts!FileSystem, V!Mode, Mounts!Mode
<1>2. V!TypeOK <=> Mounts!TypeOK
      BY DEF V!TypeOK, Mounts!TypeOK,
           V!Device, Mounts!Device, V!Tmpfs, Mounts!Tmpfs, V!TmpfsPoint,
           Mounts!TmpfsPoint, V!DiskPoint, Mounts!DiskPoint, V!ManagedPoints,
           Mounts!ManagedPoints, V!Points, Mounts!Points, V!Mount,
           Mounts!Mount, V!Volume, Mounts!Volume, V!VolumeMount,
           Mounts!VolumeMount, V!Request, Mounts!Request, V!HostDirectory,
           Mounts!HostDirectory, V!Target, Mounts!Target, V!FileSystem,
           Mounts!FileSystem, V!Mode, Mounts!Mode, V!Commands,
           Mounts!Commands, V!Locations, Mounts!Locations
<1>3. V!Init => Mounts!Init
      BY DEF V!Init, Mounts!Init, V!FileSystem, Mounts!FileSystem
<1>4. QED BY <1>1, <1>2, <1>3

(* The two instances of Volumes have the same commands, since all their    *)
(* definitions are equal.                                                  *)
LEMMA MountsAgent == V!Agent => Mounts!Agent
BY DEF V!Cardinality, Mounts!Cardinality, V!Device, Mounts!Device, V!Tmpfs,
       Mounts!Tmpfs, V!TmpfsPoint, Mounts!TmpfsPoint, V!DiskPoint,
       Mounts!DiskPoint, V!ManagedPoints, Mounts!ManagedPoints, V!Points,
       Mounts!Points, V!Mount, Mounts!Mount, V!Volume, Mounts!Volume,
       V!VolumeMount, Mounts!VolumeMount, V!Request, Mounts!Request,
       V!HostDirectory, Mounts!HostDirectory, V!Target, Mounts!Target,
       V!FileSystem, Mounts!FileSystem, V!Mode, Mounts!Mode, V!machine,
       Mounts!machine, V!run, Mounts!run, V!Commands, Mounts!Commands,
       V!Locations, Mounts!Locations, V!At, Mounts!At, V!MountedDevices,
       Mounts!MountedDevices, V!Top, Mounts!Top, V!Mounted, Mounts!Mounted,
       V!RoomAt, Mounts!RoomAt, V!HasManagedPrefix, Mounts!HasManagedPrefix,
       V!VolumeNames, Mounts!VolumeNames, V!WantsReadWrite,
       Mounts!WantsReadWrite, V!ReferencesValid, Mounts!ReferencesValid,
       V!volume, Mounts!volume, V!disk, Mounts!disk, V!wantsRW,
       Mounts!wantsRW, V!AttachedAsNeeded, Mounts!AttachedAsNeeded,
       V!NotMounted, Mounts!NotMounted, V!DiskUsable, Mounts!DiskUsable,
       V!AfterChecks, Mounts!AfterChecks, V!MountReadOnly,
       Mounts!MountReadOnly, V!Probed, Mounts!Probed, V!AfterProbe,
       Mounts!AfterProbe, V!Processed, Mounts!Processed, V!Refused,
       Mounts!Refused, V!Forget, Mounts!Forget, V!Begin, Mounts!Begin,
       V!AfterUmount, Mounts!AfterUmount, V!ListMounts, Mounts!ListMounts,
       V!ListFails, Mounts!ListFails, V!Umount, Mounts!Umount, V!UmountFails,
       Mounts!UmountFails, V!CheckReferences, Mounts!CheckReferences,
       V!ReadMetadata, Mounts!ReadMetadata, V!HostPathVolume,
       Mounts!HostPathVolume, V!EmptyDirVolume, Mounts!EmptyDirVolume,
       V!EmptyDirFails, Mounts!EmptyDirFails, V!DiskVolume,
       Mounts!DiskVolume, V!Probe, Mounts!Probe, V!Format, Mounts!Format,
       V!Fsck, Mounts!Fsck, V!MountDisk, Mounts!MountDisk, V!DiskFails,
       Mounts!DiskFails, V!FinishVolume, Mounts!FinishVolume, V!VolumesDone,
       Mounts!VolumesDone, V!Bind, Mounts!Bind, V!MetadataFails,
       Mounts!MetadataFails, V!Agent, Mounts!Agent

(* The two instances of Volumes have the same steps.                       *)
LEMMA MountsNext ==
    ASSUME [V!Next]_(V!vars) PROVE [Mounts!Next]_(Mounts!vars)
BY MountsAgent DEF V!Next, Mounts!Next, V!vars, Mounts!vars, V!run,
       Mounts!run, V!machine, Mounts!machine, V!NextRun, Mounts!NextRun,
       V!FormatKilled, Mounts!FormatKilled, V!Forget, Mounts!Forget,
       V!Reboot, Mounts!Reboot, V!Fault, Mounts!Fault, V!volume,
       Mounts!volume

(* What is proved of Volumes, said of Deployment. *)
LEMMA MountsImplemented == DeploymentSpec => Mounts!Spec
<1>1. V!Init => Mounts!Init
      BY MountsSame
<1>2. [V!Next]_(V!vars) => [Mounts!Next]_(Mounts!vars)
  <2>1. ASSUME [V!Next]_(V!vars) PROVE [Mounts!Next]_(Mounts!vars)
        BY <2>1, MountsNext
  <2>2. QED BY <2>1
<1>3. V!Spec => Mounts!Spec
      BY <1>1, <1>2, PTL DEF V!Spec, Mounts!Spec
<1>4. QED BY <1>3, DeploymentMounts

(* The types of Volumes hold in the composition.                           *)
LEMMA MountsTyped == DeploymentSpec => []V!TypeOK
<1>1. Mounts!Spec => []Mounts!TypeOK
      BY Mounts!VolumesTypeCorrect, MountsSame
<1>2. V!TypeOK <=> Mounts!TypeOK
      BY MountsSame
<1>3. QED BY <1>1, <1>2, MountsImplemented, PTL

(* What is proved of ContainerRunner, said of Deployment. *)
LEMMA RunnerTyped == DeploymentSpec => []TypeOK /\ []SafeToReplace
BY DeploymentRuns, TypeCorrect, ReplacesSafely, PTL

----------------------------------------------------------------------------
(* The two components together. *)
Preparing == V!Commands \union
                 {"refs", "metadata", "volume", "finish", "bind", "failed", "bound"}

(* Where a command of the first call leaves the run, and that it touches   *)
(* no file system.                                                         *)
LEMMA UnmountCommand ==
    ASSUME UnmountStep
    PROVE  /\ pc = "unmount" /\ step \in {"list", "umount"}
           /\ step' \in {"umount", "refs"} /\ request' = request /\ spec' = spec
           /\ pc' = IF step' = "refs" THEN "prepare" ELSE "unmount"
           /\ fs' = fs
<1>1. /\ step \in {"list", "umount"} /\ step' \in {"umount", "refs"}
      /\ request' = request /\ fs' = fs
      BY DEF UnmountStep, V!ListMounts, V!ListFails, V!Umount, V!UmountFails,
             V!AfterUmount, V!machine
<1>2. /\ pc = "unmount" /\ spec' = spec
      /\ pc' = IF step' = "refs" THEN "prepare" ELSE "unmount"
      BY DEF UnmountStep, UnmountVolumes, agent
<1>3. QED BY <1>1, <1>2

(* A command of the second call stays within that call.                    *)
LEMMA PrepareCommand ==
    ASSUME PrepareStep, step \notin {"idle", "list", "umount"}
    PROVE  step' \in Preparing /\ request' = request /\ spec' = spec /\ pc' = pc
<1>1. step' \in Preparing /\ request' = request
      BY DEF PrepareStep, Preparing, V!Commands, V!Agent, V!Begin, V!ListMounts,
             V!ListFails, V!Umount, V!UmountFails, V!CheckReferences,
             V!ReadMetadata, V!MetadataFails, V!HostPathVolume,
             V!EmptyDirVolume, V!EmptyDirFails, V!DiskVolume, V!AfterChecks,
             V!Probe, V!AfterProbe, V!Format, V!Fsck, V!MountDisk, V!DiskFails,
             V!FinishVolume, V!VolumesDone, V!Bind, V!run
<1>2. spec' = spec /\ pc' = pc
      BY DEF PrepareStep, agent
<1>3. QED BY <1>1, <1>2

(* The agent and its commands stay in step.                                *)
LEMMA InStepStep ==
    ASSUME InStep, TypeOK, [DeploymentNext]_deploymentVars PROVE InStep'
<1> USE DEF InStep
<1>1. CASE UnmountBegins
      BY <1>1 DEF UnmountBegins, V!Begin, vars, host, agent
<1>2. CASE UnmountStep
      BY <1>2, UnmountCommand
<1>3. CASE PrepareStep
  <2>1. pc = "prepare" /\ step \notin {"idle", "list", "umount"}
        BY <1>3 DEF PrepareStep
  <2>2. QED BY <1>3, <2>1, PrepareCommand DEF Preparing, V!Commands
<1>4. CASE Prepared
      BY <1>4 DEF Prepared, PrepareVolumes, Panic, preparation, agent
<1>5. CASE NotPrepared
      BY <1>5 DEF NotPrepared, PrepareFails, Panic, preparation
<1>6. CASE OtherCall
  <2>1. UNCHANGED <<step, request>>
        BY <1>6 DEF OtherCall, preparation
  <2>2. CASE LoadDeclaration \/ \E delivered \in BOOLEAN : PullImage(delivered)
        BY <2>1, <2>2 DEF LoadDeclaration, PullImage
  <2>3. CASE ListContainers
        BY <2>1, <2>3 DEF ListContainers, AfterList
  <2>4. CASE \E i \in Ids : RemoveContainer(i) \/ RemoveReplyLost(i)
        BY <2>1, <2>4 DEF RemoveContainer, AfterRemove, RemoveReplyLost, Panic
  <2>5. CASE \E i \in Ids, replied \in BOOLEAN : CreateContainer(i, replied)
        BY <2>1, <2>5 DEF CreateContainer, Panic
  <2>6. CASE \E replied \in BOOLEAN : StartContainer(replied)
        BY <2>1, <2>6 DEF StartContainer, Panic
  <2>7. CASE pc # "prepare" /\ CallFails
        BY <2>1, <2>7 DEF CallFails, Panic
  <2>8. QED BY <1>6, <2>2, <2>3, <2>4, <2>5, <2>6, <2>7 DEF OtherCall
<1>7. CASE RunEnds
      BY <1>7 DEF RunEnds, Exit, AfterRun, PreparationEnds, preparation, V!NextRun
<1>8. CASE AgentKilled
      BY <1>8 DEF AgentKilled, Crash, PreparationEnds, preparation, V!NextRun,
                  V!FormatKilled
<1>9. CASE VMReboots
      BY <1>9 DEF VMReboots, Reboot, V!Reboot
<1>10. CASE Around
  <2>1. UNCHANGED <<step, request>>
        BY <1>10 DEF Around, preparation
  <2>2. CASE ServiceStarts \/ ScriptGivesUp \/ OperatorStarts
        BY <2>1, <2>2 DEF ServiceStarts, ScriptGivesUp, OperatorStarts
  <2>3. CASE EditDeclaration \/ \E i \in Ids : UserRemoves(i)
        BY <2>1, <2>3 DEF EditDeclaration, UserRemoves, agent
  <2>4. CASE ContainerEvent
        BY <2>1, <2>4 DEF ContainerEvent, ContainerExits, ContainerRestarts, agent
  <2>5. QED BY <1>10, <2>2, <2>3, <2>4 DEF Around
<1>11. CASE DiskFault
      BY <1>11 DEF DiskFault, V!Fault, V!run, vars, host, agent
<1>12. CASE UNCHANGED deploymentVars
      BY <1>12 DEF deploymentVars, vars, agent, preparation
<1>13. QED BY <1>1, <1>2, <1>3, <1>4, <1>5, <1>6, <1>7, <1>8, <1>9, <1>10,
              <1>11, <1>12 DEF DeploymentNext, DeploymentAgent

(* The binds: paths of the run while it creates the container.             *)
BindsTyped == binds \in [Ids -> [Names -> V!Target \union {NoTarget}] \union {NoBinds}]

(* Only the creation of a container, which takes the paths of the run,     *)
(* writes binds.                                                           *)
LEMMA BindsStep ==
    ASSUME BindsTyped, V!TypeOK, [DeploymentNext]_deploymentVars PROVE BindsTyped'
<1>1. paths \in [Names -> V!Target \union {NoTarget}]
      BY DEF V!TypeOK
<1>2. ASSUME BindsFollow PROVE BindsTyped'
      BY <1>1, <1>2 DEF BindsTyped, BindsFollow
<1>3. CASE UNCHANGED binds
      BY <1>3 DEF BindsTyped
<1>4. BindsFollow \/ UNCHANGED binds
      BY DEF DeploymentNext, DeploymentAgent, UnmountBegins, UnmountStep,
             PrepareStep, Prepared, NotPrepared, OtherCall, RunEnds,
             AgentKilled, VMReboots, Around, DiskFault, deploymentVars
<1>5. QED BY <1>2, <1>3, <1>4

(* The calls and the commands have their types and are never out of step.  *)
THEOREM DeploymentTypeCorrect == DeploymentSpec => []DeploymentTypeOK
<1>1. DeploymentInit => InStep /\ BindsTyped
      BY DEF DeploymentInit, Init, V!Init, InStep, BindsTyped
<1>2. TypeOK /\ InStep /\ [DeploymentNext]_deploymentVars => InStep'
      BY InStepStep
<1>3. V!TypeOK /\ BindsTyped /\ [DeploymentNext]_deploymentVars => BindsTyped'
      BY BindsStep
<1>4. TypeOK /\ V!TypeOK /\ InStep /\ BindsTyped => DeploymentTypeOK
      BY DEF DeploymentTypeOK, BindsTyped
<1>5. QED BY <1>1, <1>2, <1>3, <1>4, RunnerTyped, MountsTyped, PTL DEF DeploymentSpec

(* Disks are worked on inside the two volume calls only.                   *)
LEMMA DiskWork ==
    ASSUME DeploymentTypeOK, [DeploymentNext]_deploymentVars,
           table' # table \/ fs' # fs, ~Reboot
    PROVE  pc \in {"unmount", "prepare"}
<1>1. ~UNCHANGED storage
      BY DEF storage
<1>2. CASE UnmountBegins
      BY <1>2 DEF UnmountBegins, V!Begin, V!machine
<1>3. CASE UnmountStep \/ PrepareStep
      BY <1>3 DEF UnmountStep, PrepareStep
<1>4. CASE AgentKilled
  <2>1. V!FormatKilled
        BY <1>1, <1>4 DEF AgentKilled
  <2>2. step = "format"
        BY <2>1 DEF V!FormatKilled
  <2>3. QED BY <2>2 DEF DeploymentTypeOK, InStep
<1>5. CASE DiskFault
      BY <1>5 DEF DiskFault, V!Fault
<1>6. QED BY <1>1, <1>2, <1>3, <1>4, <1>5
          DEF DeploymentNext, DeploymentAgent, Prepared, NotPrepared,
              OtherCall, RunEnds, VMReboots, Around, deploymentVars

(* No disk is touched under a container of konlet: the mount table and the *)
(* file systems change only inside the two calls, and by then all of its   *)
(* containers have been deleted.                                           *)
THEOREM DisksStayAlone == DeploymentSpec => DisksLeftAlone
<1>1. ASSUME SafeToReplace, DeploymentTypeOK, [DeploymentNext]_deploymentVars,
             table' # table \/ fs' # fs, ~Reboot
      PROVE  Konlets = {}
      BY <1>1, DiskWork DEF SafeToReplace, Konlets, GeneratedName
<1>2. SafeToReplace /\ DeploymentTypeOK /\ [DeploymentNext]_deploymentVars =>
          [table' # table \/ fs' # fs => Konlets = {} \/ Reboot]_deploymentVars
      BY <1>1
<1>3. QED BY <1>2, RunnerTyped, DeploymentTypeCorrect, PTL
          DEF DeploymentSpec, DisksLeftAlone

----------------------------------------------------------------------------
(* Binds and mounts.                                                       *)
LEMMA BindsReachSame ==
    V!BindsReachTheirVolumes <=> Mounts!BindsReachTheirVolumes
BY DEF V!BindsReachTheirVolumes, Mounts!BindsReachTheirVolumes, V!Reaches,
       Mounts!Reaches, V!DistinctTargets, Mounts!DistinctTargets, V!At,
       Mounts!At, V!Top, Mounts!Top, V!Tmpfs, Mounts!Tmpfs, V!HostDirectory,
       Mounts!HostDirectory, V!WantsReadWrite, Mounts!WantsReadWrite

(* The binds of Volumes lead to their volumes in the composition too.      *)
LEMMA MountsReached == DeploymentSpec => []V!BindsReachTheirVolumes
<1>1. Mounts!Spec => []Mounts!BindsReachTheirVolumes
      BY Mounts!BindsReach, MountsSame
<1>2. V!BindsReachTheirVolumes <=> Mounts!BindsReachTheirVolumes
      BY BindsReachSame
<1>3. QED BY <1>1, <1>2, MountsImplemented, PTL

(* Where a container comes from, and its binds.                            *)
LEMMA OriginOfContainers ==
    ASSUME TypeOK, [DeploymentNext]_deploymentVars, ~Reboot,
           NEW i \in Ids, containers'[i] # NoContainer
    PROVE  \/ /\ containers[i] # NoContainer
              /\ containers'[i].name = containers[i].name
              /\ containers'[i].decl = containers[i].decl
              /\ containers'[i].fresh = containers[i].fresh
              /\ binds'[i] = binds[i]
           \/ /\ pc = "create" /\ spec \in Declarations
              /\ containers'[i] = NewContainer(spec)
              /\ binds'[i] = paths
<1>1. containers \in Hosts
      BY DEF TypeOK
<1>2. CASE UNCHANGED <<containers, binds>>
      BY <1>2
<1>3. ASSUME BindsFollow
      PROVE  binds'[i] = IF containers[i] = NoContainer THEN paths ELSE binds[i]
      BY <1>3 DEF BindsFollow
<1>4. CASE OtherCall
  <2>1. CASE UNCHANGED containers
        BY <1>3, <1>4, <2>1 DEF OtherCall
  <2>2. CASE \E j \in Ids : RemoveContainer(j) \/ RemoveReplyLost(j)
    <3>1. containers[i] # NoContainer /\ containers'[i] = containers[i]
          BY <1>1, <2>2 DEF RemoveContainer, RemoveReplyLost, Hosts
    <3>2. QED BY <1>3, <1>4, <3>1 DEF OtherCall
  <2>3. CASE \E j \in Ids, replied \in BOOLEAN : CreateContainer(j, replied)
    <3>1. PICK j \in Ids : /\ containers[j] = NoContainer
                           /\ containers' = [containers EXCEPT ![j] = NewContainer(spec)]
          BY <2>3 DEF CreateContainer
    <3>2. pc = "create" /\ spec \in Declarations
          BY <2>3 DEF CreateContainer, TypeOK
    <3>3. CASE i = j
          BY <1>1, <1>3, <1>4, <3>1, <3>2, <3>3 DEF OtherCall, Hosts
    <3>4. CASE i # j
      <4>1. containers'[i] = containers[i]
            BY <1>1, <3>1, <3>4 DEF Hosts
      <4>2. QED BY <1>3, <1>4, <4>1 DEF OtherCall
    <3>5. QED BY <3>3, <3>4
  <2>4. CASE \E replied \in BOOLEAN : StartContainer(replied)
    <3>1. /\ containers[cid] # NoContainer
          /\ containers' = [containers EXCEPT ![cid].status = "running"]
          BY <2>4 DEF StartContainer
    <3>2. QED BY <1>1, <1>3, <1>4, <3>1 DEF OtherCall, Hosts, Container
  <2>5. QED BY <1>4, <2>1, <2>2, <2>3, <2>4
        DEF OtherCall, LoadDeclaration, PullImage, ListContainers, CallFails, host
<1>5. CASE Around
  <2>1. CASE UNCHANGED containers
        BY <1>3, <1>5, <2>1 DEF Around
  <2>2. CASE \E j \in Ids : UserRemoves(j)
    <3>1. containers[i] # NoContainer /\ containers'[i] = containers[i]
          BY <1>1, <2>2 DEF UserRemoves, Hosts
    <3>2. QED BY <1>3, <1>5, <3>1 DEF Around
  <2>3. CASE ContainerEvent
    <3>1. PICK j \in Ids, s \in {"running", "exited"} :
              /\ containers[j] # NoContainer
              /\ containers' = [containers EXCEPT ![j].status = s]
          BY <2>3 DEF ContainerEvent, ContainerExits, ContainerRestarts
    <3>2. QED BY <1>1, <1>3, <1>5, <3>1 DEF Around, Hosts, Container
  <2>4. QED BY <1>5, <2>1, <2>2, <2>3
        DEF Around, ServiceStarts, ScriptGivesUp, OperatorStarts, EditDeclaration, host
<1>6. QED
  BY <1>2, <1>4, <1>5
     DEF DeploymentNext, DeploymentAgent, UnmountBegins, UnmountStep,
         UnmountVolumes, PrepareStep, Prepared, PrepareVolumes, NotPrepared,
         PrepareFails, RunEnds, Exit, AgentKilled, Crash, VMReboots, DiskFault,
         vars, host, deploymentVars

(* BindsLast as a predicate on values, to speak of two states.             *)
ReachesIn(t, r, v, target) ==
    LET at == {m \in t : m.point = target.point}
        top == CHOOSE m \in at : \A n \in at : n.layer <= m.layer
    IN  IF v.defs = {"hostPath"} THEN target.point = V!HostDirectory
        ELSE /\ at # {}
             /\ IF v.defs = {"emptyDir"} THEN top.dev = V!Tmpfs
                ELSE /\ top.dev = v.dev
                     /\ V!WantsReadWrite(r, v.name) => ~top.ro

BindsLead(t, c, bind) ==
    LET r == VolumesOf[c.decl]
    IN  c.fresh /\ V!DistinctTargets(r) =>
            \A k \in DOMAIN r.volumes :
                ReachesIn(t, r, r.volumes[k], bind[r.volumes[k].name])

(* BindsLast as a relation of the mount table, a container and its binds,  *)
(* now and after a step.                                                   *)
LEMMA BindsLastValues ==
    /\ BindsLast <=> \A i \in Konlets : BindsLead(table, containers[i], binds[i])
    /\ BindsLast' <=> \A i \in Konlets' : BindsLead(table', containers'[i], binds'[i])
    /\ \A r, v, t : V!Reaches(r, v, t) <=> ReachesIn(table, r, v, t)
<1>1. \A r, v, t : V!Reaches(r, v, t) <=> ReachesIn(table, r, v, t)
      BY DEF V!Reaches, ReachesIn, V!At, V!Top
<1>2. BindsLast <=> \A i \in Konlets : BindsLead(table, containers[i], binds[i])
      BY DEF BindsLast, BindsLead, V!Reaches, ReachesIn, V!At, V!Top
<1>3. BindsLast' <=> \A i \in Konlets' : BindsLead(table', containers'[i], binds'[i])
      BY DEF BindsLast, BindsLead, V!Reaches, ReachesIn, V!At, V!Top
<1>4. QED BY <1>1, <1>2, <1>3

(* A container is created with binds that lead to its volumes, and none    *)
(* loses them while it exists.                                             *)
LEMMA BindsLastStep ==
    ASSUME DeploymentTypeOK, SafeToReplace, V!BindsReachTheirVolumes, BindsLast,
           [DeploymentNext]_deploymentVars
    PROVE  BindsLast'
<1> SUFFICES ASSUME NEW i \in Konlets'
             PROVE  BindsLead(table', containers'[i], binds'[i])
    BY BindsLastValues
<1>1. TypeOK /\ InStep
      BY DEF DeploymentTypeOK
<1>2. i \in Ids /\ containers'[i] # NoContainer /\ containers'[i].name.klt
      BY DEF Konlets, GeneratedName
<1>3. CASE Reboot
  <2>1. ~containers'[i].fresh
        BY <1>1, <1>2, <1>3, RebootFacts
  <2>2. QED BY <2>1 DEF BindsLead
<1>4. CASE /\ ~Reboot
           /\ containers[i] # NoContainer
           /\ containers'[i].name = containers[i].name
           /\ containers'[i].decl = containers[i].decl
           /\ containers'[i].fresh = containers[i].fresh
           /\ binds'[i] = binds[i]
  <2>1. i \in Konlets
        BY <1>2, <1>4 DEF Konlets, GeneratedName
  <2>2. BindsLead(table, containers[i], binds[i])
        BY <2>1, BindsLastValues
  <2>3. table' = table
        BY <1>4, <2>1, DiskWork DEF SafeToReplace, Konlets, GeneratedName
  <2>4. QED BY <1>4, <2>2, <2>3 DEF BindsLead
<1>5. CASE /\ ~Reboot
           /\ pc = "create" /\ spec \in Declarations
           /\ containers'[i] = NewContainer(spec)
           /\ binds'[i] = paths
  <2> DEFINE r == VolumesOf[spec]
  <2>1. step = "bound" /\ request = r
        BY <1>1, <1>5 DEF InStep
  <2>2. containers'[i].decl = spec
        BY <1>1, <1>5, NewContainerFacts
  <2>3. table' = table
        BY <1>5, DiskWork
  <2>4. ASSUME V!DistinctTargets(r), NEW k \in DOMAIN r.volumes
        PROVE  ReachesIn(table', r, r.volumes[k], binds'[i][r.volumes[k].name])
    <3>1. V!Reaches(r, r.volumes[k], paths[r.volumes[k].name])
          BY <2>1, <2>4 DEF V!BindsReachTheirVolumes
    <3>2. QED BY <1>5, <2>3, <3>1, BindsLastValues
  <2>5. QED BY <2>2, <2>4 DEF BindsLead
<1>6. QED BY <1>1, <1>2, <1>3, <1>4, <1>5, OriginOfContainers

(* The binds of a container that konlet created in this boot lead to the   *)
(* volumes of its declaration as long as it exists.                        *)
THEOREM BindsStay == DeploymentSpec => []BindsLast
<1>1. DeploymentInit => BindsLast
      BY HostsAssumption DEF DeploymentInit, Init, BindsLast, Konlets, GeneratedName
<1>2. /\ DeploymentTypeOK /\ SafeToReplace /\ V!BindsReachTheirVolumes
      /\ BindsLast /\ [DeploymentNext]_deploymentVars
      => BindsLast'
      BY BindsLastStep
<1>3. QED BY <1>1, <1>2, RunnerTyped, DeploymentTypeCorrect, MountsReached, PTL
          DEF DeploymentSpec
----------------------------------------------------------------------------
(* A run of the agent comes to its end.                                    *)

(* The commands do as Mounts, where the proofs about Volumes are, says.    *)
LEMMA StepsLeftSame ==
    /\ V!StepsLeft = Mounts!StepsLeft
    /\ V!StepsLeft' = Mounts!StepsLeft'
BY DEF V!StepsLeft, Mounts!StepsLeft, V!StepsAfter, Mounts!StepsAfter, V!Commands,
       Mounts!Commands, V!Cardinality, Mounts!Cardinality

(* A command of the run leaves fewer steps of the work on volumes.         *)
LEMMA FewerCommands ==
    ASSUME Mounts!Ending, V!Agent, step # "idle"
    PROVE  V!StepsLeft' \in Nat /\ V!StepsLeft' < V!StepsLeft
<1>1. Mounts!Agent
      BY MountsAgent
<1>2. Mounts!StepsLeft' \in Nat /\ Mounts!StepsLeft' < Mounts!StepsLeft
      BY <1>1, Mounts!FewerSteps, MountsSame DEF Mounts!Ending
<1>3. QED BY <1>2, StepsLeftSame

(* What the run is at, arm by arm.                                         *)
LEMMA StageValues ==
    /\ pc = "exec" => Stage = 9
    /\ pc = "pull" => Stage = 8
    /\ pc = "list" => Stage = 7
    /\ pc = "remove" => Stage = 6 /\ Work = Cardinality(doomed)
    /\ pc = "unmount" => /\ Stage = IF step = "idle" THEN 5 ELSE 4
                         /\ Work = V!StepsLeft
    /\ pc = "prepare" => Stage = 3 /\ Work = V!StepsLeft
    /\ pc = "create" => Stage = 2
    /\ pc = "start" => Stage = 1
    /\ pc \in {"succeeded", "failed"} => Stage = 0 /\ Work = 1
    /\ pc \in Locations \ Running => Stage = 0 /\ Work = 0
BY DEF Stage, Work, Locations, Running

(* The same after the step.                                                *)
LEMMA StageValuesNext ==
    /\ pc' = "pull" => Stage' = 8
    /\ pc' = "list" => Stage' = 7
    /\ pc' = "remove" => Stage' = 6 /\ Work' = Cardinality(doomed')
    /\ pc' = "unmount" => /\ Stage' = IF step' = "idle" THEN 5 ELSE 4
                          /\ Work' = V!StepsLeft'
    /\ pc' = "prepare" => Stage' = 3 /\ Work' = V!StepsLeft'
    /\ pc' = "create" => Stage' = 2
    /\ pc' = "start" => Stage' = 1
    /\ pc' \in {"succeeded", "failed"} => Stage' = 0 /\ Work' = 1
    /\ pc' \in Locations \ Running => Stage' = 0 /\ Work' = 0
BY DEF Stage, Work, Locations, Running

(* The old containers become fewer, one by one.                            *)
LEMMA FewerOldContainers ==
    ASSUME IsFiniteSet(doomed), InStep, NEW i \in Ids, RemoveContainer(i),
           UNCHANGED <<storage, preparation>>
    PROVE  Nearer
<1>1. /\ pc = "remove" /\ i \in doomed /\ doomed' = doomed \ {i} /\ step' = step
      /\ pc' = IF doomed' = {} THEN "unmount" ELSE "remove"
      BY DEF RemoveContainer, AfterRemove, preparation
<1>2. /\ Cardinality(doomed') = Cardinality(doomed) - 1
      /\ Cardinality(doomed) \in Nat /\ Cardinality(doomed') \in Nat
      BY <1>1, FS_RemoveElement, FS_CardinalityType
<1>3. step' = "idle"
      BY <1>1 DEF InStep
<1>4. QED BY <1>1, <1>2, <1>3, StageValues, StageValuesNext DEF Nearer

(* Every other call takes the run to a later one.                          *)
LEMMA LaterCall ==
    ASSUME OtherCall, ~\E i \in Ids : RemoveContainer(i)
    PROVE  Nearer
<1>1. CASE LoadDeclaration
      BY <1>1, StageValues, StageValuesNext DEF LoadDeclaration, Nearer
<1>2. CASE \E delivered \in BOOLEAN : PullImage(delivered)
      BY <1>2, StageValues, StageValuesNext DEF PullImage, Nearer
<1>3. CASE ListContainers
  <2>1. pc = "list" /\ pc' \in {"remove", "unmount"}
        BY <1>3 DEF ListContainers, AfterList
  <2>2. QED BY <2>1, StageValues, StageValuesNext DEF Nearer
<1>4. CASE \E i \in Ids : RemoveReplyLost(i)
      BY <1>4, StageValues, StageValuesNext DEF RemoveReplyLost, Panic, Nearer
<1>5. CASE \E i \in Ids, replied \in BOOLEAN : CreateContainer(i, replied)
  <2>1. pc = "create" /\ pc' \in {"start", "failed"}
        BY <1>5 DEF CreateContainer, Panic
  <2>2. QED BY <2>1, StageValues, StageValuesNext DEF Nearer
<1>6. CASE \E replied \in BOOLEAN : StartContainer(replied)
  <2>1. pc = "start" /\ pc' \in {"succeeded", "failed"}
        BY <1>6 DEF StartContainer, Panic
  <2>2. QED BY <2>1, StageValues, StageValuesNext DEF Nearer
<1>7. CASE CallFails
  <2>1. /\ pc \in {"exec", "pull", "list", "remove", "prepare", "create", "start"}
        /\ pc' = "failed"
        BY <1>7 DEF CallFails, Panic
  <2>2. QED BY <2>1, StageValues, StageValuesNext DEF Nearer
<1>8. QED BY <1>1, <1>2, <1>3, <1>4, <1>5, <1>6, <1>7 DEF OtherCall

(* Every step of the agent brings its run nearer to the end.               *)
LEMMA AgentNearer ==
    ASSUME Mounts!Ending, InStep, IsFiniteSet(doomed), DeploymentAgent
    PROVE  Nearer
<1>1. CASE UnmountBegins
  <2>1. pc = "unmount" /\ step = "idle" /\ step' = "list" /\ pc' = pc
        BY <1>1 DEF UnmountBegins, V!Begin, vars
  <2>2. QED BY <2>1, StageValues, StageValuesNext DEF Nearer
<1>2. CASE UnmountStep
  <2>1. /\ pc = "unmount" /\ step \in {"list", "umount"} /\ step' \in {"umount", "refs"}
        /\ pc' = IF step' = "refs" THEN "prepare" ELSE "unmount"
        BY <1>2, UnmountCommand
  <2>2. V!Agent
        BY <1>2 DEF UnmountStep, V!Agent
  <2>3. V!StepsLeft' \in Nat /\ V!StepsLeft' < V!StepsLeft
        BY <2>1, <2>2, FewerCommands
  <2>4. QED BY <2>1, <2>3, StageValues, StageValuesNext DEF Nearer
<1>3. CASE PrepareStep
  <2>1. pc = "prepare" /\ pc' = pc /\ step # "idle" /\ V!Agent
        BY <1>3 DEF PrepareStep, InStep
  <2>2. V!StepsLeft' \in Nat /\ V!StepsLeft' < V!StepsLeft
        BY <2>1, FewerCommands
  <2>3. QED BY <2>1, <2>2, StageValues, StageValuesNext DEF Nearer
<1>4. CASE Prepared \/ NotPrepared
  <2>1. pc = "prepare" /\ pc' \in {"create", "failed"}
        BY <1>4 DEF Prepared, NotPrepared, PrepareVolumes, PrepareFails, Panic
  <2>2. QED BY <2>1, StageValues, StageValuesNext DEF Nearer
<1>5. CASE OtherCall
  <2>1. ASSUME NEW i \in Ids, RemoveContainer(i) PROVE Nearer
        BY <1>5, <2>1, FewerOldContainers DEF OtherCall
  <2>2. QED BY <1>5, <2>1, LaterCall
<1>6. CASE RunEnds
  <2>1. pc \in {"succeeded", "failed"} /\ pc' \in {"done", "waiting"}
        BY <1>6 DEF RunEnds, Exit, AfterRun
  <2>2. QED BY <2>1, StageValues, StageValuesNext DEF Nearer, Locations, Running
<1>7. QED BY <1>1, <1>2, <1>3, <1>4, <1>5, <1>6 DEF DeploymentAgent

(* What happens around the agent does not give it more to do.              *)
LEMMA NothingMoreToDo ==
    ASSUME pc \in Running, Around \/ DiskFault
    PROVE  UNCHANGED <<Stage, Work>>
<1>1. UNCHANGED <<pc, doomed, step, request, todo, index, table>>
  <2>1. CASE Around
    <3>1. UNCHANGED <<step, request, todo, index, table>>
          BY <2>1 DEF Around, storage, preparation
    <3>2. UNCHANGED <<pc, doomed>>
          BY <2>1 DEF Around, Running, ServiceStarts, ScriptGivesUp, OperatorStarts,
             EditDeclaration, UserRemoves, ContainerEvent, ContainerExits,
             ContainerRestarts, agent
    <3>3. QED BY <3>1, <3>2
  <2>2. CASE DiskFault
        BY <2>2 DEF DiskFault, V!Fault, V!run, vars, agent
  <2>3. QED BY <2>1, <2>2
<1>2. V!StepsLeft' = V!StepsLeft
      BY <1>1 DEF V!StepsLeft
<1>3. QED BY <1>1, <1>2 DEF Stage, Work

(* A run of the agent ends: for any number of old containers, of mounts    *)
(* and of volumes there is a bound on the steps that it has before it,     *)
(* which every call that returns lowers, whether it succeeded or not, and  *)
(* which nothing around it raises.                                         *)
THEOREM DeploymentRunEnds ==
    ASSUME IsFiniteSet(Ids)
    PROVE  DeploymentSpec => RunsAdvance
<1>1. DeploymentSpec => []Mounts!Ending
  <2>1. Mounts!Spec => []Mounts!Ending
        BY Mounts!EndingAlways, MountsSame
  <2>2. QED BY <2>1, MountsImplemented
<1>2. ASSUME DeploymentTypeOK, Mounts!Ending, [DeploymentNext]_deploymentVars
      PROVE  /\ DeploymentAgent => Nearer
             /\ pc \in Running /\ (Around \/ DiskFault) => UNCHANGED <<Stage, Work>>
  <2>1. doomed \subseteq Ids /\ InStep
        BY <1>2 DEF DeploymentTypeOK, TypeOK
  <2>2. IsFiniteSet(doomed)
        BY <2>1, FS_Subset
  <2>3. QED BY <1>2, <2>1, <2>2, AgentNearer, NothingMoreToDo
<1>3. DeploymentTypeOK /\ Mounts!Ending /\ [DeploymentNext]_deploymentVars =>
          [/\ DeploymentAgent => Nearer
           /\ pc \in Running /\ (Around \/ DiskFault) =>
                  UNCHANGED <<Stage, Work>>]_deploymentVars
      BY <1>2
<1>4. QED BY <1>1, <1>3, DeploymentTypeCorrect, PTL DEF DeploymentSpec, RunsAdvance

----------------------------------------------------------------------------
(* The retries of systemd. A run that meets with no failure gets through   *)
(* the volumes and the registry, so that it does not fail; a run that does *)
(* fail has left the disks no dirtier than it found them.                  *)

(* The two instances of Volumes agree on what can be prepared and repaired.*)
LEMMA PreparableSame ==
    /\ \A r : V!Preparable(r) <=> Mounts!Preparable(r)
    /\ \A r : V!Preparable(r)' <=> Mounts!Preparable(r)'
    /\ \A r : V!DirtyDisks(r) = Mounts!DirtyDisks(r)
    /\ \A r : V!DirtyDisks(r)' = Mounts!DirtyDisks(r)'
BY DEF V!Preparable, Mounts!Preparable, V!DirtyDisks, Mounts!DirtyDisks,
       V!ReferencesValid, Mounts!ReferencesValid, V!VolumeNames,
       Mounts!VolumeNames, V!DistinctTargets, Mounts!DistinctTargets,
       V!WantsReadWrite, Mounts!WantsReadWrite, V!Cardinality,
       Mounts!Cardinality

(* The two instances of Volumes agree on the runs that are on track.       *)
LEMMA OnTrackSame ==
    /\ V!OnTrack <=> Mounts!OnTrack
    /\ V!OnTrack' <=> Mounts!OnTrack'
BY DEF V!OnTrack, Mounts!OnTrack, V!MountOf, Mounts!MountOf, V!HandledAt,
       Mounts!HandledAt, V!Commands, Mounts!Commands, V!volume, Mounts!volume,
       V!DiskPoint, Mounts!DiskPoint, V!TmpfsPoint, Mounts!TmpfsPoint,
       V!Tmpfs, Mounts!Tmpfs

(* The two instances of Volumes agree on the failures that need not have   *)
(* been.                                                                   *)
LEMMA UnluckySame == V!Unlucky <=> Mounts!Unlucky
BY DEF V!Unlucky, Mounts!Unlucky, V!ListFails, Mounts!ListFails,
       V!MetadataFails, Mounts!MetadataFails, V!UmountFails,
       Mounts!UmountFails, V!AfterUmount, Mounts!AfterUmount, V!EmptyDirFails,
       Mounts!EmptyDirFails, V!DiskFails, Mounts!DiskFails, V!CommandWorks,
       Mounts!CommandWorks, V!RoomAt, Mounts!RoomAt, V!At, Mounts!At,
       V!TmpfsPoint, Mounts!TmpfsPoint, V!DiskPoint, Mounts!DiskPoint,
       V!DiskUsable, Mounts!DiskUsable, V!AttachedAsNeeded,
       Mounts!AttachedAsNeeded, V!NotMounted, Mounts!NotMounted,
       V!MountedDevices, Mounts!MountedDevices, V!AfterProbe,
       Mounts!AfterProbe, V!Probed, Mounts!Probed, V!volume, Mounts!volume,
       V!disk, Mounts!disk, V!wantsRW, Mounts!wantsRW, V!WantsReadWrite,
       Mounts!WantsReadWrite, V!Tmpfs, Mounts!Tmpfs, V!Commands,
       Mounts!Commands, V!Points, Mounts!Points, V!ManagedPoints,
       Mounts!ManagedPoints, V!machine, Mounts!machine, V!run, Mounts!run,
       V!Cardinality, Mounts!Cardinality

(* The container that is started has an ID. *)
StartsOne == pc = "start" => cid \in Ids

(* It comes from the reply to the creation.                                *)
LEMMA StartsOneAlways == DeploymentSpec => []StartsOne
<1>1. Init => StartsOne
      BY DEF Init, StartsOne
<1>2. StartsOne /\ [Next]_vars => StartsOne'
  <2> SUFFICES ASSUME StartsOne, [Next]_vars, pc' = "start" PROVE cid' \in Ids
      BY DEF StartsOne
  <2>1. CASE \E i \in Ids, replied \in BOOLEAN : CreateContainer(i, replied)
        BY <2>1 DEF CreateContainer, Panic
  <2>2. CASE UNCHANGED <<pc, cid>>
        BY <2>2 DEF StartsOne
  <2>3. QED
    BY <2>1, <2>2
       DEF Next, Agent, Disturbance, ContainerEvent, ServiceStarts, ScriptGivesUp,
           LoadDeclaration, PullImage, ListContainers, AfterList,
           RemoveContainer, AfterRemove, RemoveReplyLost, UnmountVolumes,
           WorkOnVolumes, PrepareVolumes, PrepareFails, StartContainer,
           CallFails, Exit, AfterRun, Crash, Reboot, OperatorStarts,
           EditDeclaration, UserRemoves, ContainerExits, ContainerRestarts,
           Panic, agent, vars
<1>3. QED BY <1>1, <1>2, DeploymentRuns, PTL DEF Spec

(* What is settled in Volumes is settled in the composition.               *)
LEMMA SettledDeployed == DeploymentSpec => []Mounts!Settled
<1>1. Mounts!Spec => []Mounts!Settled
      BY Mounts!SettledAlways, MountsSame
<1>2. QED BY <1>1, MountsImplemented

(* The volumes of a declaration are a request.                             *)
LEMMA RequestOf ==
    ASSUME NEW d \in Declarations
    PROVE  VolumesOf[d] \in Mounts!Request
<1>1. VolumesOf[d] \in Requests /\ Mounts!VolumesAssumption
      BY VolumesOfAssumption, MountsSame
<1>2. QED BY <1>1 DEF Mounts!VolumesAssumption

(* Repairs are counted by a natural number, which a repair lowers.         *)
LEMMA FewerRepairs ==
    ASSUME NEW d \in Declarations, declared = d, declared' = d,
           V!DirtyDisks(VolumesOf[d])' \subseteq V!DirtyDisks(VolumesOf[d])
    PROVE  /\ Repairs \in Nat /\ Repairs' \in Nat /\ Repairs' <= Repairs
           /\ (\E x \in V!DirtyDisks(VolumesOf[d]) :
                   x \notin V!DirtyDisks(VolumesOf[d])') => Repairs' < Repairs
<1> DEFINE old == V!DirtyDisks(VolumesOf[d])
           new == V!DirtyDisks(VolumesOf[d])'
<1>1. IsFiniteSet(old)
  <2>1. Mounts!IsFiniteSet(Mounts!DirtyDisks(VolumesOf[d]))
        BY RequestOf, MountsSame, Mounts!DirtyDisksFinite
  <2>2. QED BY <2>1, PreparableSame DEF Mounts!IsFiniteSet, IsFiniteSet
<1>2. Repairs = Cardinality(old) /\ Repairs' = Cardinality(new)
      BY DEF Repairs, V!DirtyDisks
<1>3. new \subseteq old
      OBVIOUS
<1> HIDE DEF old, new
<1>4. /\ IsFiniteSet(new) /\ Cardinality(new) <= Cardinality(old)
      /\ Cardinality(old) = Cardinality(new) => old = new
      BY <1>1, <1>3, FS_Subset
<1>5. Cardinality(old) \in Nat /\ Cardinality(new) \in Nat
      BY <1>1, <1>4, FS_CardinalityType
<1>6. (\E x \in old : x \notin new) => Cardinality(new) < Cardinality(old)
      BY <1>4, <1>5
<1>7. QED BY <1>2, <1>4, <1>5, <1>6 DEF old, new

(* What the usual steps do to the host: nothing to the declaration, and to *)
(* the disks what a command does.                                          *)
LEMMA UsualOnHost ==
    ASSUME UsualStep
    PROVE  declared' = declared /\ (V!Agent \/ UNCHANGED storage)
<1>1. CASE UnmountBegins \/ UnmountStep \/ PrepareStep
  <2>1. declared' = declared
        BY <1>1 DEF UnmountBegins, UnmountStep, UnmountVolumes, PrepareStep, vars, host
  <2>2. V!Agent
        BY <1>1 DEF UnmountBegins, UnmountStep, PrepareStep, V!Agent
  <2>3. QED BY <2>1, <2>2
<1>2. CASE Prepared \/ NotPrepared \/ RunEnds
      BY <1>2 DEF Prepared, PrepareVolumes, NotPrepared, PrepareFails, RunEnds, Exit
<1>3. CASE OtherCall
      BY <1>3 DEF OtherCall, LoadDeclaration, PullImage, ListContainers,
         RemoveContainer, RemoveReplyLost, CreateContainer, StartContainer,
         CallFails, host
<1>4. CASE UnitStarts \/ (Around /\ ContainerEvent)
      BY <1>4 DEF UnitStarts, Around, ServiceStarts, ContainerEvent, ContainerExits,
         ContainerRestarts, host
<1>5. QED BY <1>1, <1>2, <1>3, <1>4 DEF UsualStep, DeploymentAgent

(* Neither the agent nor systemd nor a container makes a declaration       *)
(* undeployable or a disk dirty that was not.                              *)
LEMMA DeployableStays ==
    ASSUME Mounts!Settled, UsualStep, NEW d \in Declarations, declared = d,
           Deployable(d)
    PROVE  /\ declared' = d /\ Deployable(d)'
           /\ V!DirtyDisks(VolumesOf[d])' \subseteq V!DirtyDisks(VolumesOf[d])
<1> DEFINE r == VolumesOf[d]
<1>1. declared' = d /\ V!Preparable(r)
      BY UsualOnHost DEF Deployable
<1>2. V!Preparable(r)' /\ V!DirtyDisks(r)' \subseteq V!DirtyDisks(r)
  <2>1. CASE V!Agent
    <3>1. Mounts!Agent /\ Mounts!Preparable(r) /\ Mounts!Typed
          BY <1>1, <2>1, MountsAgent, PreparableSame DEF Mounts!Settled
    <3>2. Mounts!Preparable(r)' /\ Mounts!DirtyDisks(r)' \subseteq Mounts!DirtyDisks(r)
          BY <3>1, Mounts!PreparableStays, MountsSame
    <3>3. QED BY <3>2, PreparableSame
  <2>2. CASE UNCHANGED storage
        BY <1>1, <2>2 DEF storage, V!Preparable, V!DirtyDisks, V!ReferencesValid,
           V!VolumeNames, V!DistinctTargets, V!WantsReadWrite
  <2>3. QED BY <2>1, <2>2, UsualOnHost
<1>3. QED BY <1>1, <1>2 DEF Deployable

(* A command of a run on track.                                            *)
LEMMA CommandOnTrack ==
    ASSUME Mounts!Settled, InStep, UnmountStep \/ PrepareStep,
           NEW d \in Declarations, declared = d, Deployable(d), RunOnTrack, ~BadLuck
    PROVE  \/ V!OnTrack'
           \/ \E x \in V!DirtyDisks(VolumesOf[d]) :
                  x \notin V!DirtyDisks(VolumesOf[d])'
<1> DEFINE r == VolumesOf[d]
<1>1. V!Agent /\ step # "idle" /\ pc \in {"unmount", "prepare"}
      BY DEF UnmountStep, PrepareStep, V!Agent, V!ListMounts, V!ListFails,
             V!Umount, V!UmountFails, InStep
<1>2. request = r /\ V!OnTrack
      BY <1>1 DEF InStep, RunOnTrack
<1>3. /\ Mounts!Agent /\ Mounts!Preparable(request) /\ Mounts!OnTrack
      /\ ~Mounts!Unlucky
  <2>1. Mounts!Preparable(r)
        BY PreparableSame DEF Deployable
  <2>2. ~Mounts!Unlucky
        BY UnluckySame DEF BadLuck
  <2>3. QED BY <1>1, <1>2, <2>1, <2>2, MountsAgent, OnTrackSame
<1>4. \/ Mounts!OnTrack'
      \/ \E x \in Mounts!DirtyDisks(request) : fs'[x] = "clean"
      BY <1>1, <1>3, Mounts!TrackKept, MountsSame
<1>5. ASSUME NEW x \in Mounts!DirtyDisks(request), fs'[x] = "clean"
      PROVE  x \in V!DirtyDisks(r) /\ x \notin V!DirtyDisks(r)'
      BY <1>2, <1>5, PreparableSame DEF V!DirtyDisks
<1>6. QED BY <1>4, <1>5, OnTrackSame

(* Steps that leave volumes alone.                                         *)
LEMMA TrackUntouched ==
    ASSUME UNCHANGED <<storage, preparation>>
    PROVE  (step # "idle" => V!OnTrack)' <=> (step # "idle" => V!OnTrack)
BY DEF storage, preparation, V!OnTrack, V!MountOf, V!HandledAt, V!Commands,
       V!volume, V!DiskPoint, V!TmpfsPoint, V!Tmpfs

(* A call that does not fail keeps the run on track; one that fails could  *)
(* have succeeded.                                                         *)
LEMMA CallOnTrack ==
    ASSUME DeploymentTypeOK, SafeToReplace, OtherCall, RunOnTrack, ~BadLuck,
           declared \in Declarations, declared' = declared
    PROVE  RunOnTrack' /\ pc' \in Running
<1>1. TypeOK /\ UNCHANGED <<storage, preparation>>
      BY DEF DeploymentTypeOK, OtherCall
<1>2. (step # "idle" => V!OnTrack)'
      BY <1>1, TrackUntouched DEF RunOnTrack
<1>3. CASE LoadDeclaration
      BY <1>2, <1>3 DEF LoadDeclaration, RunOnTrack, Running
<1>4. CASE \E delivered \in BOOLEAN : PullImage(delivered)
  <2>1. pc = "pull" /\ pc' = "list" /\ spec' = spec
        BY <1>4 DEF PullImage, agent
  <2>2. spec.image \in local'
        BY <2>1 DEF BadLuck
  <2>3. QED BY <1>2, <2>1, <2>2 DEF RunOnTrack, Running
<1>5. CASE ListContainers
  <2>1. /\ pc = "list" /\ pc' \in {"remove", "unmount"}
        /\ UNCHANGED <<containers, local, spec>>
        /\ \A i \in doomed' : containers[i] # NoContainer
        BY <1>5 DEF ListContainers, AfterList, StartedByKonlet, host
  <2>2. QED BY <1>2, <2>1 DEF RunOnTrack, Running
<1>6. ASSUME NEW i \in Ids, RemoveContainer(i) PROVE RunOnTrack' /\ pc' \in Running
  <2>1. /\ pc = "remove" /\ pc' \in {"remove", "unmount"} /\ UNCHANGED <<local, spec>>
        /\ doomed' = doomed \ {i}
        /\ containers' = [containers EXCEPT ![i] = NoContainer]
        BY <1>6 DEF RemoveContainer, AfterRemove
  <2>2. \A j \in doomed' : containers'[j] # NoContainer
        BY <1>1, <2>1 DEF RunOnTrack, TypeOK, Hosts
  <2>3. QED BY <1>2, <2>1, <2>2 DEF RunOnTrack, Running
<1>7. ASSUME NEW i \in Ids, CreateContainer(i, TRUE)
      PROVE  RunOnTrack' /\ pc' \in Running
  <2>1. /\ pc = "create" /\ pc' = "start" /\ cid' = i /\ UNCHANGED spec
        /\ containers' = [containers EXCEPT ![i] = NewContainer(spec)]
        BY <1>7 DEF CreateContainer
  <2>2. spec \in Declarations
        BY <1>1, <2>1 DEF TypeOK
  <2>3. containers'[cid'] # NoContainer
        BY <1>1, <2>1, <2>2, NewContainerFacts DEF TypeOK, Hosts
  <2>4. QED BY <1>2, <2>1, <2>3 DEF RunOnTrack, Running
<1>8. CASE StartContainer(TRUE)
      BY <1>2, <1>8 DEF StartContainer, agent, RunOnTrack, Running
<1>9. CASE pc # "prepare" /\ CallFails
  <2>1. pc \in {"exec", "pull", "list", "remove", "create", "start"}
        BY <1>9 DEF CallFails
  <2>2. pc = "create" => NameFree(NewName(spec)) /\ spec.image \in local
        BY DEF SafeToReplace, RunOnTrack
  <2>3. declared # NoDeclaration
        BY ConstantsAssumption
  <2>4. QED BY <1>9, <2>1, <2>2, <2>3 DEF RunOnTrack, BadLuck
<1>10. QED
  BY <1>3, <1>4, <1>5, <1>6, <1>7, <1>8, <1>9 DEF OtherCall, BadLuck

(* A run on track stays so until it has succeeded, unless a command makes  *)
(* a repair.                                                               *)
LEMMA RunStaysOnTrack ==
    ASSUME Mounts!Settled, DeploymentTypeOK, SafeToReplace, DeploymentAgent,
           RunOnTrack, ~BadLuck, NEW d \in Declarations, declared = d, Deployable(d)
    PROVE  \/ RunOnTrack' /\ pc' \in Running
           \/ pc' = "done"
           \/ \E x \in V!DirtyDisks(VolumesOf[d]) :
                  x \notin V!DirtyDisks(VolumesOf[d])'
<1>1. declared' = declared
      BY UsualOnHost DEF UsualStep
<1>2. InStep
      BY DEF DeploymentTypeOK
<1>3. CASE UnmountBegins
  <2>1. NoTarget # Failed
        BY MountsAssumption DEF V!VolumesAssumption
  <2>2. step' = "list" /\ left' = {} /\ result' = NoTarget
        BY <1>3 DEF UnmountBegins, V!Begin, V!Forget
  <2>3. V!OnTrack'
        BY <2>1, <2>2 DEF V!OnTrack, V!Commands
  <2>4. pc = "unmount" /\ UNCHANGED <<pc, spec, local>>
        BY <1>3 DEF UnmountBegins, vars, host, agent
  <2>5. QED BY <1>1, <2>3, <2>4 DEF RunOnTrack, Running
<1>4. CASE UnmountStep \/ PrepareStep
  <2>1. /\ pc \in {"unmount", "prepare"} /\ pc' \in {"unmount", "prepare"}
        /\ UNCHANGED <<spec, local>>
        BY <1>4 DEF UnmountStep, UnmountVolumes, PrepareStep, agent
  <2>2. CASE V!OnTrack'
        BY <1>1, <2>1, <2>2 DEF RunOnTrack, Running
  <2>3. QED BY <1>2, <1>4, <2>2, CommandOnTrack
<1>5. CASE Prepared
  <2>1. /\ pc = "prepare" /\ spec = d
        /\ UNCHANGED <<storage, preparation, local>>
        BY <1>5 DEF Prepared, PrepareVolumes, RunOnTrack
  <2>2. pc' = "create" /\ spec' = spec
        BY <1>5, <2>1 DEF Prepared, PrepareVolumes, Deployable, agent
  <2>3. (step # "idle" => V!OnTrack)'
        BY <2>1, TrackUntouched DEF RunOnTrack
  <2>4. QED BY <1>1, <2>1, <2>2, <2>3 DEF RunOnTrack, Running
<1>6. CASE NotPrepared
      BY <1>6 DEF NotPrepared, RunOnTrack, V!OnTrack
<1>7. CASE OtherCall
      BY <1>1, <1>7, CallOnTrack
<1>8. CASE RunEnds
      BY <1>8 DEF RunEnds, Exit, AfterRun, RunOnTrack
<1>9. QED BY <1>3, <1>4, <1>5, <1>6, <1>7, <1>8 DEF DeploymentAgent

(* One attempt, two or three.                                              *)
LEMMA AttemptsNumbers ==
    /\ Attempts \in {0, 1, 2, 3} /\ Attempts' \in {0, 1, 2, 3}
    /\ pc \in Running => Attempts = IF RunOnTrack THEN 1 ELSE 3
    /\ pc' \in Running => Attempts' = IF RunOnTrack' THEN 1 ELSE 3
    /\ pc \in {"boot", "waiting"} => Attempts = 2
    /\ pc' \in Locations \ Running => Attempts' \in {0, 2}
    /\ pc' = "done" => Attempts' = 0
BY DEF Attempts, Running, Locations

(* Every step of the agent makes a repair, ends or mends the run, or       *)
(* brings it nearer to its end.                                            *)
LEMMA AgentConverges ==
    ASSUME Mounts!Settled, Mounts!Ending, IsFiniteSet(Ids), DeploymentTypeOK,
           SafeToReplace, DeploymentAgent, ~BadLuck, TypeOK',
           NEW d \in Declarations, declared = d, Deployable(d)
    PROVE  FewerToGo
<1>1. /\ declared' = d
      /\ V!DirtyDisks(VolumesOf[d])' \subseteq V!DirtyDisks(VolumesOf[d])
      BY DeployableStays DEF UsualStep
<1>2. /\ Repairs \in Nat /\ Repairs' \in Nat /\ Repairs' <= Repairs
      /\ (\E x \in V!DirtyDisks(VolumesOf[d]) :
              x \notin V!DirtyDisks(VolumesOf[d])') => Repairs' < Repairs
      BY <1>1, FewerRepairs
<1>3. Nearer
  <2>1. IsFiniteSet(doomed)
        BY FS_Subset DEF DeploymentTypeOK, TypeOK
  <2>2. QED BY <2>1, AgentNearer DEF DeploymentTypeOK
<1>4. pc \in Running /\ pc' \in Locations
      BY DEF DeploymentAgent, UnmountBegins, UnmountStep, PrepareStep, Prepared,
             PrepareVolumes, NotPrepared, PrepareFails, OtherCall,
             LoadDeclaration, PullImage, ListContainers, RemoveContainer,
             RemoveReplyLost, CreateContainer, StartContainer, CallFails,
             RunEnds, Exit, Running, TypeOK
<1>5. CASE RunOnTrack
  <2>1. CASE RunOnTrack' /\ pc' \in Running
        BY <1>2, <1>3, <1>4, <1>5, <2>1, AttemptsNumbers DEF FewerToGo
  <2>2. CASE pc' = "done"
        BY <1>2, <1>4, <1>5, <2>2, AttemptsNumbers DEF FewerToGo
  <2>3. CASE Repairs' < Repairs
        BY <2>3 DEF FewerToGo
  <2>4. QED BY <1>2, <1>5, <2>1, <2>2, <2>3, RunStaysOnTrack
<1>6. CASE ~RunOnTrack
  <2>1. Attempts = 3 /\ (Attempts' = 3 \/ Attempts' < 3)
        BY <1>4, <1>6, AttemptsNumbers
  <2>2. QED BY <1>2, <1>3, <2>1 DEF FewerToGo
<1>7. QED BY <1>5, <1>6

(* A run that begins is on track. *)
LEMMA UnitConverges ==
    ASSUME DeploymentTypeOK, Mounts!Settled, UnitStarts,
           NEW d \in Declarations, declared = d, Deployable(d)
    PROVE  FewerToGo
<1>1. /\ declared' = d
      /\ V!DirtyDisks(VolumesOf[d])' \subseteq V!DirtyDisks(VolumesOf[d])
      BY DeployableStays DEF UsualStep
<1>2. Repairs \in Nat /\ Repairs' \in Nat /\ Repairs' <= Repairs
      BY <1>1, FewerRepairs
<1>3. pc \in {"boot", "waiting"} /\ pc' = "exec" /\ step' = step
      BY DEF UnitStarts, ServiceStarts, Around, preparation
<1>4. step' = "idle"
      BY <1>3 DEF DeploymentTypeOK, InStep
<1>5. RunOnTrack'
      BY <1>3, <1>4 DEF RunOnTrack
<1>6. Attempts = 2 /\ Attempts' = 1
      BY <1>3, <1>5, AttemptsNumbers DEF Running
<1>7. QED BY <1>2, <1>6 DEF FewerToGo

(* A container that exits or is restarted changes nothing of all that.     *)
LEMMA EventsAside ==
    ASSUME DeploymentTypeOK, StartsOne, Around, ContainerEvent
    PROVE  UNCHANGED <<Repairs, Attempts, Stage, Work>>
<1>1. /\ UNCHANGED <<storage, preparation>>
      /\ UNCHANGED <<declared, local, pc, spec, doomed, cid>>
      BY DEF Around, ContainerEvent, ContainerExits, ContainerRestarts, agent
<1>2. \A i \in Ids : containers'[i] # NoContainer <=> containers[i] # NoContainer
  <2>1. PICK j \in Ids, s \in {"running", "exited"} :
            /\ containers[j] # NoContainer
            /\ containers' = [containers EXCEPT ![j].status = s]
        BY DEF ContainerEvent, ContainerExits, ContainerRestarts
  <2>2. containers \in Hosts
        BY DEF DeploymentTypeOK, TypeOK
  <2>3. containers'[j] \in Container
        BY <2>1, <2>2 DEF Hosts, Container
  <2>4. containers'[j] # NoContainer
        BY <2>3, ConstantsAssumption
  <2>5. QED BY <2>1, <2>2, <2>4 DEF Hosts
<1>3. Repairs' = Repairs
      BY <1>1 DEF Repairs, V!DirtyDisks, storage
<1>4. RunOnTrack' <=> RunOnTrack
  <2>1. (step # "idle" => V!OnTrack)' <=> (step # "idle" => V!OnTrack)
        BY <1>1, TrackUntouched
  <2>2. doomed \subseteq Ids /\ (pc = "start" => cid \in Ids)
        BY DEF DeploymentTypeOK, TypeOK, StartsOne
  <2>3. QED BY <1>1, <1>2, <2>1, <2>2 DEF RunOnTrack
<1>5. Attempts' = Attempts
      BY <1>1, <1>4 DEF Attempts
<1>6. V!StepsLeft' = V!StepsLeft
      BY <1>1 DEF V!StepsLeft, storage, preparation
<1>7. Stage' = Stage /\ Work' = Work
      BY <1>1, <1>6 DEF Stage, Work, preparation
<1>8. QED BY <1>3, <1>5, <1>7

(* The retries of systemd come to an end: from any reachable state, while  *)
(* nobody interferes and nothing fails that could work, every step of      *)
(* systemd and of the agent lowers the repairs still to be made, the runs  *)
(* still to be started or what the run still has to do, in this order, for *)
(* any declaration that can be deployed and anything that earlier runs     *)
(* left; and the declaration can be deployed still.                        *)
THEOREM RetriesEnd ==
    ASSUME IsFiniteSet(Ids)
    PROVE  DeploymentSpec => RetriesConverge
<1>1. DeploymentSpec => []Mounts!Ending
  <2>1. Mounts!Spec => []Mounts!Ending
        BY Mounts!EndingAlways, MountsSame
  <2>2. QED BY <2>1, MountsImplemented
<1>2. ASSUME DeploymentTypeOK, SafeToReplace, StartsOne, Mounts!Ending,
             Mounts!Settled, TypeOK', declared # NoDeclaration,
             Deployable(declared), UsualStep, ~BadLuck
      PROVE  /\ declared' = declared /\ Deployable(declared)'
             /\ IF Around /\ ContainerEvent
                THEN UNCHANGED <<Repairs, Attempts, Stage, Work>>
                ELSE FewerToGo
  <2>1. PICK d \in Declarations : declared = d
        BY <1>2 DEF DeploymentTypeOK, TypeOK
  <2>2. declared' = d /\ Deployable(d)'
        BY <1>2, <2>1, DeployableStays
  <2>3. Deployable(declared)'
        BY <2>2 DEF Deployable, V!Preparable, V!ReferencesValid, V!VolumeNames,
           V!DistinctTargets, V!WantsReadWrite
  <2>4. CASE Around /\ ContainerEvent
        BY <1>2, <2>1, <2>2, <2>3, <2>4, EventsAside
  <2>5. CASE ~(Around /\ ContainerEvent)
    <3>1. Deployable(d)
          BY <1>2, <2>1
    <3>2. DeploymentAgent => FewerToGo
          BY <1>2, <2>1, <3>1, AgentConverges
    <3>3. UnitStarts => FewerToGo
          BY <1>2, <2>1, <3>1, UnitConverges
    <3>4. DeploymentAgent \/ UnitStarts
          BY <1>2, <2>5 DEF UsualStep
    <3>5. QED BY <2>1, <2>2, <2>3, <2>5, <3>2, <3>3, <3>4
  <2>6. QED BY <2>4, <2>5
<1>3. /\ DeploymentTypeOK /\ SafeToReplace /\ StartsOne /\ Mounts!Ending
      /\ Mounts!Settled /\ TypeOK' /\ [DeploymentNext]_deploymentVars
      => [declared # NoDeclaration /\ Deployable(declared) /\ UsualStep /\ ~BadLuck =>
          /\ declared' = declared /\ Deployable(declared)'
          /\ IF Around /\ ContainerEvent
             THEN UNCHANGED <<Repairs, Attempts, Stage, Work>>
             ELSE FewerToGo]_deploymentVars
      BY <1>2
<1>4. QED
  BY <1>1, <1>3, StartsOneAlways, SettledDeployed, DeploymentTypeCorrect,
     RunnerTyped, PTL DEF DeploymentSpec, RetriesConverge

----------------------------------------------------------------------------
(* What each component promises, kept where they run together: a konlet    *)
(* container at most, replaced safely, none of an older declaration once   *)
(* the run is done, what others have started left alone; and here the      *)
(* volumes of a container of this boot are what the mount table says.      *)
THEOREM RunnerPromisesKept ==
    DeploymentSpec =>
        /\ []AtMostOneKonlet /\ []VolumesOfFreshContainers /\ []NothingStaleOnceDone
        /\ ForeignContainersSurvive /\ ImplementsRecreate
BY DeploymentRuns, OneKonlet, VolumesStay, NothingStale, ForeignSurvive, Refinement, PTL

(* The commands on disks, interleaved with the calls to docker, the user's *)
(* and the daemon's work on containers and kills at any point, are those   *)
(* of DiskUse still; no device is mounted twice, none is formatted or      *)
(* repaired in use, and no mounts pile up.                                 *)
THEOREM MountPromisesKept ==
    DeploymentSpec =>
        /\ Mounts!ImplementsDiskUse
        /\ []Mounts!DeviceMountedOnce /\ []Mounts!CheckedBeforeWritten
        /\ []Mounts!NothingAccumulates /\ Mounts!RepairsOnlyIdleDisks
BY MountsImplemented, MountsSame, Mounts!DisksUsed, Mounts!OneMountPerDevice,
   Mounts!CheckedBeforeWriting, Mounts!NothingPilesUp, Mounts!IdleDisksOnly, PTL
=============================================================================

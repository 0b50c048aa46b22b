------------------------------ MODULE Volumes ------------------------------
(***************************************************************************)
(* The volumes of one VM: what a run of the agent does between deleting    *)
(* the old container and creating the new one (UnmountExistingVolumes,     *)
(* then PrepareVolumesAndGetBindings), command by command, over the mount  *)
(* table and the disks.  Commands fail, the agent is killed between any    *)
(* two of them, the VM reboots, and systemd runs the agent again, perhaps  *)
(* for another declaration, on whatever is left.                           *)
(*                                                                         *)
(* Abstracted: path strings (a mount point is a record), container paths,  *)
(* directories (mkdir is part of the mount that follows it).               *)
(***************************************************************************)
EXTENDS Naturals, FiniteSets, Sequences

CONSTANTS
    Names,            \* volume names
    Disks,            \* persistent disk names
    Devices,          \* <<disk, partition>>, partition 0 for a whole disk
    Requests,         \* what declarations ask for
    ForeignPoints,    \* mount points that are not the agent's
    InitialTables,    \* what may be mounted before the first run
    InitialModes,     \* how the disks may be attached
    MaxLayers,        \* bound: mounts stacked on one point
    TransientFaults,  \* may a device become readable while the agent runs?
    NoRequest, NoTarget, Failed

(* Devices are the block devices for which lsblk prints a single line: a   *)
(* disk that is divided into partitions is none, its partitions are.       *)
Device == Disks \X Nat
Tmpfs == <<"tmpfs", 0>>

(* <prefix>/tmpfss/<volume>, <prefix>/gce-persistent-disks/<disk>: the path *)
(* of a disk does not tell the partition.                                   *)
TmpfsPoint(name) == [dir |-> "managed", family |-> "tmpfs", name |-> name]
DiskPoint(disk) == [dir |-> "managed", family |-> "disk", name |-> disk]
ManagedPoints == {TmpfsPoint(n) : n \in Names} \union {DiskPoint(d) : d \in Disks}
Points == ManagedPoints \union ForeignPoints

(* Mounts on one point are stacked; only the top layer is seen.            *)
Mount == [dev : Devices \union {Tmpfs}, point : Points, ro : BOOLEAN,
          layer : 1..MaxLayers]

(* defs: which of hostPath, emptyDir and gcePersistentDisk are present;    *)
(* memory: whether the medium of the emptyDir is "Memory".                 *)
Volume == [name : Names, defs : SUBSET {"hostPath", "emptyDir", "disk"},
           memory : BOOLEAN, dev : Device]
VolumeMount == [name : Names, ro : BOOLEAN]
Request == [volumes : Seq(Volume), mounts : SUBSET VolumeMount]

(* Where a volume is found: a directory of the host, or a mount point.     *)
HostDirectory == [dir |-> "host", family |-> "none", name |-> "none"]
Target == [point : Points \union {HostDirectory}, ro : BOOLEAN]

FileSystem == {"blank", "clean", "dirty", "other"}
Mode == {"READ_WRITE", "READ_ONLY", "detached", "unknown"}

ASSUME VolumesAssumption ==
    /\ Requests \subseteq Request /\ NoRequest \notin Requests
    /\ Devices \subseteq Device /\ Tmpfs \notin Device
    /\ InitialTables \subseteq SUBSET Mount
    /\ \A t \in InitialTables :
           /\ IsFiniteSet(t)
           /\ \A m \in t : m.point \in ForeignPoints /\ m.layer = 1
           /\ \A m, n \in t :
                  m.point = n.point \/ (m.dev = n.dev /\ m.dev # Tmpfs) => m = n
    /\ InitialModes \subseteq [Disks -> Mode]
    /\ \A p \in ForeignPoints : p.dir \in {"sibling", "elsewhere"}
    /\ MaxLayers \in Nat \ {0}
    /\ TransientFaults \in BOOLEAN
    /\ NoTarget \notin Target /\ Failed \notin Target /\ NoTarget # Failed

VARIABLES
    table,       \* the host's mount table
    fs,          \* what is on every device
    attached,    \* the mode of every disk in the metadata
    unreadable,  \* devices whose content cannot be read at the moment
    pc, request, \* the run and the declaration it serves
    todo,        \* mounts listed by UnmountExistingVolumes, not treated yet
    left,        \* mount points that could not be unmounted (history)
    index,       \* the volume being processed
    result,      \* what its handlers came to
    paths        \* volumeNameToHostPathMap

machine == <<fs, attached, unreadable>>
run == <<request, todo, left, index, result, paths>>
vars == <<table, machine, pc, run>>

Commands == {"emptyDir", "disk", "probe", "format", "fsck", "mount"}
Locations == Commands \union {"list", "umount", "refs", "metadata", "volume",
                              "finish", "bind", "idle", "failed", "bound"}

----------------------------------------------------------------------------
At(point) == {m \in table : m.point = point}
MountedDevices == {m.dev : m \in table} \ {Tmpfs}
Top(point) == CHOOSE m \in At(point) : \A n \in At(point) : n.layer <= m.layer

Mounted(dev, point, ro) ==
    table \union {[dev |-> dev, point |-> point, ro |-> ro,
                   layer |-> Cardinality(At(point)) + 1]}
RoomAt(point) == Cardinality(At(point)) < MaxLayers

(* existingMounts compares strings: a directory beside the managed one     *)
(* whose name merely begins the same is matched too.                       *)
HasManagedPrefix_TmpfsOnly(point) == point.dir = "managed" /\ point.family = "tmpfs"
HasManagedPrefix_DisksOnly(point) == point.dir = "managed" /\ point.family = "disk"
HasManagedPrefix(point) == point.dir \in {"managed", "sibling"}

VolumeNames(r) == {r.volumes[i].name : i \in DOMAIN r.volumes}

(* A volume is written to when any of its mounts is not read-only. *)
WantsReadWrite_All(r, name) == \A m \in r.mounts : m.name = name => ~m.ro
WantsReadWrite(r, name) == \E m \in r.mounts : m.name = name /\ ~m.ro

(* Every mount names a volume and every volume is mounted. *)
ReferencesValid(r) == VolumeNames(r) = {m.name : m \in r.mounts}

volume == request.volumes[index]
disk == volume.dev[1]
wantsRW == WantsReadWrite(request, volume.name)

(* Everything processGcePersistentDiskVolume asks before it touches the    *)
(* device.                                                                 *)
AttachedAsNeeded ==
    \/ attached[disk] = "READ_WRITE"
    \/ attached[disk] = "READ_ONLY" /\ ~wantsRW
NotMounted_Unchecked(dev) == TRUE
NotMounted(dev) == dev \notin MountedDevices

DiskUsable ==
    /\ AttachedAsNeeded
    /\ volume.dev \in Devices
    /\ NotMounted(volume.dev)

(* A disk that is attached read-only is neither formatted nor checked.     *)
AfterChecks_AlwaysProbe == "probe"
AfterChecks == IF attached[disk] = "READ_ONLY" THEN "mount" ELSE "probe"

MountReadOnly == attached[disk] = "READ_ONLY" \/ ~wantsRW

(* lsblk shows no file system on a blank device nor on an unreadable one.  *)
Probed(dev) == IF dev \in unreadable THEN "blank" ELSE fs[dev]

AfterProbe_FormatsOther(found) ==
    IF found \in {"clean", "dirty"} THEN "fsck" ELSE "format"
AfterProbe_NoFsck(found) ==
    CASE found = "blank" -> "format"
      [] found \in {"clean", "dirty"} -> "mount"
      [] OTHER -> "finish"
AfterProbe(found) ==
    CASE found = "blank" -> "format"
      [] found \in {"clean", "dirty"} -> "fsck"
      [] OTHER -> "finish"

(* The number of definitions is looked at when the handlers have run.      *)
Processed_ErrorIgnored == Cardinality(volume.defs) = 1
Processed == Cardinality(volume.defs) = 1 /\ result # Failed

Refused(m) == paths[m.name].ro /\ ~m.ro

----------------------------------------------------------------------------
Init ==
    /\ table \in InitialTables
    /\ fs \in [Devices -> FileSystem]
    /\ attached \in InitialModes
    /\ unreadable = {}
    /\ pc = "idle" /\ request = NoRequest
    /\ todo = {} /\ left = {} /\ index = 0 /\ result = NoTarget
    /\ paths = [n \in Names |-> NoTarget]

Forget ==
    /\ todo' = {} /\ index' = 0 /\ result' = NoTarget
    /\ paths' = [n \in Names |-> NoTarget]

Begin ==
    /\ pc = "idle"
    /\ request' \in Requests
    /\ pc' = "list" /\ left' = {}
    /\ Forget
    /\ UNCHANGED <<table, machine>>

(* UnmountExistingVolumes *)
AfterUmount(rest) == IF rest = {} THEN "refs" ELSE "umount"

ListMounts ==
    /\ pc = "list"
    /\ todo' = {m \in table : HasManagedPrefix(m.point)}
    /\ pc' = AfterUmount(todo')
    /\ UNCHANGED <<table, machine, request, left, index, result, paths>>

(* /proc/mounts cannot be read: logged, the run goes on with all mounts.   *)
ListFails ==
    /\ pc = "list"
    /\ left' = Points
    /\ pc' = "refs"
    /\ UNCHANGED <<table, machine, request, todo, index, result, paths>>

Umount(m) ==
    /\ pc = "umount" /\ m \in todo
    /\ table' = table \ {Top(m.point)}
    /\ todo' = todo \ {m}
    /\ pc' = AfterUmount(todo')
    /\ UNCHANGED <<machine, request, left, index, result, paths>>

(* The loop returns at the first error. *)
UmountFails_Stops(m) ==
    /\ pc = "umount" /\ m \in todo
    /\ left' = left \union {m.point} /\ todo' = {} /\ pc' = "refs"
    /\ UNCHANGED <<table, machine, request, index, result, paths>>

(* It is tried again until it succeeds. *)
UmountFails_Insists(m) ==
    /\ pc = "umount" /\ m \in todo
    /\ left' = left \union {m.point}
    /\ UNCHANGED <<table, machine, pc, request, todo, index, result, paths>>

UmountFails(m) ==
    /\ pc = "umount" /\ m \in todo
    /\ left' = left \union {m.point}
    /\ todo' = todo \ {m}
    /\ pc' = AfterUmount(todo')
    /\ UNCHANGED <<table, machine, request, index, result, paths>>

(* PrepareVolumesAndGetBindings *)
CheckReferences ==
    /\ pc = "refs"
    /\ pc' = IF ReferencesValid(request) THEN "metadata" ELSE "failed"
    /\ UNCHANGED <<table, machine, run>>

(* One entry that is not understood fails the run, whatever disk it is.    *)
ReadMetadata ==
    /\ pc = "metadata"
    /\ IF \A d \in Disks : attached[d] # "unknown"
       THEN pc' = "volume" /\ index' = 1
       ELSE pc' = "failed" /\ UNCHANGED index
    /\ UNCHANGED <<table, machine, request, todo, left, result, paths>>

(* The handler of every definition that is present runs, in this order,    *)
(* each overwriting what the one before came to.                           *)
HostPathVolume ==
    /\ pc = "volume" /\ index <= Len(request.volumes)
    /\ result' = IF "hostPath" \in volume.defs
                 THEN [point |-> HostDirectory, ro |-> FALSE] ELSE NoTarget
    /\ pc' = "emptyDir"
    /\ UNCHANGED <<table, machine, request, todo, left, index, paths>>

EmptyDirVolume ==
    /\ pc = "emptyDir"
    /\ IF "emptyDir" \in volume.defs
       THEN LET p == TmpfsPoint(volume.name)
            IN  /\ volume.memory /\ RoomAt(p)
                /\ table' = Mounted(Tmpfs, p, FALSE)
                /\ result' = [point |-> p, ro |-> FALSE]
       ELSE UNCHANGED <<table, result>>
    /\ pc' = "disk"
    /\ UNCHANGED <<machine, request, todo, left, index, paths>>

EmptyDirFails ==
    /\ pc = "emptyDir" /\ "emptyDir" \in volume.defs
    /\ result' = Failed
    /\ pc' = "disk"
    /\ UNCHANGED <<table, machine, request, todo, left, index, paths>>

DiskVolume ==
    /\ pc = "disk"
    /\ IF "disk" \in volume.defs
       THEN /\ DiskUsable
            /\ pc' = AfterChecks
       ELSE pc' = "finish"
    /\ UNCHANGED <<table, machine, run>>

Probe ==
    /\ pc = "probe"
    /\ pc' = AfterProbe(Probed(volume.dev))
    /\ result' = IF pc' = "finish" THEN Failed ELSE result
    /\ UNCHANGED <<table, machine, request, todo, left, index, paths>>

Format ==
    /\ pc = "format" /\ volume.dev \notin unreadable
    /\ fs' = [fs EXCEPT ![volume.dev] = "clean"]
    /\ pc' = "mount"
    /\ UNCHANGED <<table, attached, unreadable, run>>

(* The agent is killed when mkfs has written a file system but is not done. *)
FormatKilled ==
    /\ pc = "format" /\ volume.dev \notin unreadable
    /\ fs' = [fs EXCEPT ![volume.dev] = "dirty"]
    /\ pc' = "idle" /\ request' = NoRequest /\ left' = {} /\ Forget
    /\ UNCHANGED <<table, attached, unreadable>>

(* fsck -p repairs what it can; with a repair it exits with 1, which the   *)
(* agent takes for a failure.                                              *)
Fsck ==
    /\ pc = "fsck" /\ volume.dev \notin unreadable
    /\ fs' = [fs EXCEPT ![volume.dev] = "clean"]
    /\ \/ pc' = "mount" /\ UNCHANGED result
       \/ fs[volume.dev] = "dirty" /\ pc' = "finish" /\ result' = Failed
    /\ UNCHANGED <<table, attached, unreadable, request, todo, left, index, paths>>

(* What is mounted on the path of the disk already is taken for it. *)
MountDisk_TakesExisting ==
    /\ pc = "mount"
    /\ fs[volume.dev] \in {"clean", "dirty"} /\ volume.dev \notin unreadable
    /\ table' = IF At(DiskPoint(disk)) # {} THEN table
                ELSE Mounted(volume.dev, DiskPoint(disk), MountReadOnly)
    /\ result' = [point |-> DiskPoint(disk), ro |-> MountReadOnly]
    /\ pc' = "finish"
    /\ UNCHANGED <<machine, request, todo, left, index, paths>>

MountDisk ==
    /\ pc = "mount"
    /\ fs[volume.dev] \in {"clean", "dirty"} /\ volume.dev \notin unreadable
    /\ RoomAt(DiskPoint(disk))
    /\ table' = Mounted(volume.dev, DiskPoint(disk), MountReadOnly)
    /\ result' = [point |-> DiskPoint(disk), ro |-> MountReadOnly]
    /\ pc' = "finish"
    /\ UNCHANGED <<machine, request, todo, left, index, paths>>

(* A check that says no, or a command that fails without an effect.        *)
DiskFails ==
    /\ pc \in Commands \ {"emptyDir"}
    /\ pc = "disk" => "disk" \in volume.defs
    /\ result' = Failed
    /\ pc' = "finish"
    /\ UNCHANGED <<table, machine, request, todo, left, index, paths>>

FinishVolume ==
    /\ pc = "finish"
    /\ IF Processed
       THEN /\ paths' = [paths EXCEPT ![volume.name] = result]
            /\ index' = index + 1
            /\ pc' = "volume"
       ELSE pc' = "failed" /\ UNCHANGED <<paths, index>>
    /\ UNCHANGED <<table, machine, request, todo, left, result>>

VolumesDone ==
    /\ pc = "volume" /\ index > Len(request.volumes)
    /\ pc' = "bind"
    /\ UNCHANGED <<table, machine, run>>

Bind ==
    /\ pc = "bind"
    /\ pc' = IF \E m \in request.mounts : Refused(m) THEN "failed" ELSE "bound"
    /\ UNCHANGED <<table, machine, run>>

MetadataFails ==
    /\ pc = "metadata"
    /\ pc' = "failed"
    /\ UNCHANGED <<table, machine, run>>

Agent ==
    \/ Begin
    \/ ListMounts
    \/ ListFails
    \/ \E m \in todo : Umount(m) \/ UmountFails(m)
    \/ CheckReferences
    \/ ReadMetadata
    \/ HostPathVolume
    \/ EmptyDirVolume
    \/ EmptyDirFails
    \/ DiskVolume
    \/ Probe
    \/ Format
    \/ Fsck
    \/ MountDisk
    \/ DiskFails
    \/ FinishVolume
    \/ VolumesDone
    \/ Bind
    \/ MetadataFails

----------------------------------------------------------------------------
(* The run is over, or was killed; the next one starts from nothing.       *)
NextRun ==
    /\ pc # "idle"
    /\ pc' = "idle"
    /\ request' = NoRequest /\ left' = {} /\ Forget
    /\ UNCHANGED <<table, machine>>

(* Mounts are gone; what was mounted for writing needs a check.            *)
Reboot ==
    /\ table' = {}
    /\ fs' = [d \in Devices |->
                IF \E m \in table : m.dev = d /\ ~m.ro /\ fs[d] = "clean"
                THEN "dirty" ELSE fs[d]]
    /\ pc' = "idle" /\ request' = NoRequest /\ left' = {} /\ Forget
    /\ UNCHANGED <<attached, unreadable>>

(* A device stops answering reads, or answers again. *)
Fault(dev) ==
    /\ TransientFaults \/ pc = "idle"
    /\ unreadable' = IF dev \in unreadable THEN unreadable \ {dev}
                     ELSE unreadable \union {dev}
    /\ UNCHANGED <<table, fs, attached, pc, run>>

Next ==
    \/ Agent
    \/ NextRun
    \/ FormatKilled
    \/ Reboot
    \/ \E dev \in Devices : Fault(dev)

Spec == Init /\ [][Next]_vars

----------------------------------------------------------------------------
(* Properties.                                                             *)

(* Every variable has its type; while a volume is processed the index is   *)
(* that of a volume of the request.                                        *)
TypeOK ==
    /\ table \subseteq Mount
    /\ fs \in [Devices -> FileSystem]
    /\ attached \in [Disks -> Mode]
    /\ unreadable \subseteq Devices
    /\ pc \in Locations
    /\ request \in Requests \union {NoRequest}
    /\ pc # "idle" => request \in Requests
    /\ todo \subseteq Mount /\ left \subseteq Points
    /\ index \in Nat
    /\ pc \in Commands \union {"finish"} => index \in DOMAIN request.volumes
    /\ result \in Target \union {NoTarget, Failed}
    /\ paths \in [Names -> Target \union {NoTarget}]

(* When the volumes are prepared no mount of an earlier run is left in the *)
(* managed directory, in any number of layers, unless its own umount (or   *)
(* the listing) failed: one failure does not keep the others from being    *)
(* unmounted.                                                              *)
OnlyFailedUmountsLeft ==
    pc = "refs" =>
        \A m \in table : m.point.dir = "managed" => m.point \in left

(* However runs fail, are killed and follow each other, a device is never  *)
(* mounted at two places: not twice for one declaration and not on top of  *)
(* a mount that an earlier run could not undo.                             *)
DeviceMountedOnce ==
    \A m, n \in table : m.dev = n.dev /\ m.dev # Tmpfs => m = n

(* Only a device that is attached for writing, and is not mounted, is ever *)
(* formatted or repaired.                                                  *)
RepairsOnlyIdleDisks ==
    [][\A d \in Devices :
         fs'[d] # fs[d] => \/ attached[d[1]] = "READ_WRITE" /\ d \notin MountedDevices
                           \/ Reboot]_vars

(* A device that holds any file system is never formatted, although lsblk  *)
(* prints the same for a blank device and for one it cannot read.          *)
NeverFormatsData == [][Format \/ FormatKilled => fs[volume.dev] = "blank"]_vars

(* A device is mounted for writing only with a file system that was made   *)
(* or checked since it was last used.                                      *)
CheckedBeforeWritten ==
    pc = "mount" /\ attached[disk] = "READ_WRITE" => fs[volume.dev] = "clean"

(* The test in the bind loop never fires: the read-write wishes collected  *)
(* before the volumes are processed already decide it.                     *)
BindNeverRefused == pc = "bind" => \A m \in request.mounts : ~Refused(m)

(* No two volumes have the same name or use the same disk. *)
DistinctTargets(r) ==
    \A i, j \in DOMAIN r.volumes :
        i # j => /\ r.volumes[i].name # r.volumes[j].name
                 /\ \/ r.volumes[i].defs # {"disk"}
                    \/ r.volumes[j].defs # {"disk"}
                    \/ r.volumes[i].dev[1] # r.volumes[j].dev[1]

(* What a bind finds at the path it is given: what the volume declares, on *)
(* top of whatever is stacked there, writable when a mount of it is not    *)
(* read-only.                                                              *)
Reaches(r, v, target) ==
    IF v.defs = {"hostPath"} THEN target.point = HostDirectory
    ELSE /\ At(target.point) # {}
         /\ IF v.defs = {"emptyDir"} THEN Top(target.point).dev = Tmpfs
            ELSE /\ Top(target.point).dev = v.dev
                 /\ WantsReadWrite(r, v.name) => ~Top(target.point).ro

(* Docker is told to bind every volume to the path where that volume, and  *)
(* no other one of the declaration, is found.                              *)
BindsReachTheirVolumes ==
    pc = "bound" /\ DistinctTargets(request) =>
        \A i \in DOMAIN request.volumes :
            LET target == paths[request.volumes[i].name]
            IN  /\ Reaches(request, request.volumes[i], target)
                /\ \A j \in DOMAIN request.volumes \ {i} :
                       target.point # HostDirectory =>
                           paths[request.volumes[j].name].point # target.point

(* After a run in which every umount succeeded the managed directory holds *)
(* one mount for each volume that needs one and nothing else: nothing      *)
(* accumulates over runs.                                                  *)
NothingAccumulates ==
    pc = "bound" /\ left = {} =>
        Cardinality({m \in table : m.point.dir = "managed"}) =
        Cardinality({i \in DOMAIN request.volumes :
                        request.volumes[i].defs # {"hostPath"}})

(* How many steps a run has still before it at most: the umounts, and      *)
(* eight for every volume.  None of the loops goes round without bound.    *)
StepsAfter(place) ==
    CASE place = "volume" -> 7
      [] place = "emptyDir" -> 6
      [] place = "disk" -> 5
      [] place = "probe" -> 4
      [] place \in {"format", "fsck"} -> 3
      [] place = "mount" -> 2
      [] place = "finish" -> 1

StepsLeft ==
    LET volumesLeft == Len(request.volumes) + 1 - index
        all == 8 * Len(request.volumes) + 8
    IN  CASE pc = "list" -> all + 3 + Cardinality(table)
          [] pc = "umount" -> all + 2 + Cardinality(todo)
          [] pc = "refs" -> all + 1
          [] pc = "metadata" -> all
          [] pc \in Commands \union {"volume", "finish"} ->
                 8 * volumesLeft + StepsAfter(pc)
          [] pc = "bind" -> 1
          [] OTHER -> 0

(* Every step of a run brings it nearer to its end.                        *)
RunsOut ==
    [][Agent /\ pc # "idle" => StepsLeft' \in Nat /\ StepsLeft' < StepsLeft]_vars

(* The agent can prepare the volumes: volumes and mounts name each other,  *)
(* and the disks are there, attached as they are needed, mounted by nobody *)
(* else and with a file system that is konlet's, or none if konlet may     *)
(* make one.                                                               *)
Preparable(r) ==
    /\ ReferencesValid(r) /\ DistinctTargets(r)
    /\ \A k \in DOMAIN r.volumes :
          LET v == r.volumes[k]
          IN  /\ Cardinality(v.defs) = 1
              /\ v.defs = {"emptyDir"} => v.memory
              /\ v.defs = {"disk"} =>
                    /\ v.dev \in Devices \ unreadable
                    /\ \A m \in table : m.dev = v.dev => m.point.dir = "managed"
                    /\ \/ attached[v.dev[1]] = "READ_WRITE" /\ fs[v.dev] # "other"
                       \/ /\ attached[v.dev[1]] = "READ_ONLY"
                          /\ ~WantsReadWrite(r, v.name)
                          /\ fs[v.dev] \in {"clean", "dirty"}
    /\ \A d \in Disks : attached[d] # "unknown"

(* The disks of a request that need a repair.                              *)
DirtyDisks(r) ==
    {d \in Devices : /\ fs[d] = "dirty"
                     /\ \E k \in DOMAIN r.volumes :
                            r.volumes[k].defs = {"disk"} /\ r.volumes[k].dev = d}

(* Whether the next command on a disk can do its work.                     *)
CommandWorks ==
    CASE pc = "disk" -> DiskUsable
      [] pc = "probe" -> AfterProbe(Probed(volume.dev)) # "finish"
      [] pc \in {"format", "fsck"} -> volume.dev \notin unreadable
      [] pc = "mount" -> /\ fs[volume.dev] \in {"clean", "dirty"}
                         /\ volume.dev \notin unreadable /\ RoomAt(DiskPoint(disk))

(* A command fails although it could do its work. *)
Unlucky ==
    \/ ListFails \/ MetadataFails
    \/ \E m \in todo : UmountFails(m)
    \/ EmptyDirFails /\ volume.memory /\ RoomAt(TmpfsPoint(volume.name))
    \/ DiskFails /\ CommandWorks

(* The mount that a run makes for a volume.                                *)
MountOf(m, v) ==
    IF v.defs = {"disk"} THEN m.dev = v.dev /\ m.point = DiskPoint(v.dev[1])
    ELSE m.dev = Tmpfs /\ m.point = TmpfsPoint(v.name)

(* Where in the loop the mount of a volume is made already.                *)
HandledAt(v) == IF "disk" \in v.defs THEN {"finish"} ELSE {"disk", "finish"}

(* The run has met with no failure: nothing of earlier runs is mounted in  *)
(* the managed directory when the volumes are prepared, and what has been  *)
(* mounted since belongs to the volumes that are done.                     *)
OnTrack ==
    /\ pc # "failed" /\ result # Failed
    /\ pc \in {"list", "umount", "refs"} => left = {}
    /\ pc = "metadata" => \A m \in table : m.point.dir # "managed"
    /\ pc \in Commands \union {"volume", "finish"} =>
           \A m \in table : m.point.dir = "managed" =>
               \E k \in DOMAIN request.volumes :
                   /\ k < index \/ (k = index /\ pc \in HandledAt(volume))
                   /\ MountOf(m, request.volumes[k])
    /\ pc \in Commands \ {"emptyDir", "disk"} => "disk" \in volume.defs
    /\ pc = "mount" => fs[volume.dev] \in {"clean", "dirty"}

(* How the mount table uses a device: mounted at one place, to read or to  *)
(* write.  The repair of a clean file system, and every step of a run that *)
(* is no command on a device, is a stuttering step.                        *)
UseOf(d) ==
    IF d \notin MountedDevices THEN "free"
    ELSE IF \E m \in table : m.dev = d /\ ~m.ro THEN "write" ELSE "read"

Use == INSTANCE DiskUse WITH
           content <- fs,
           use <- [d \in Devices |-> UseOf(d)],
           writable <- {d \in Devices : attached[d[1]] = "READ_WRITE"},
           Misread <- TransientFaults

(* Every command on a disk is one that DiskUse allows, so that what it     *)
(* promises holds of the mount table of any sequence of runs.              *)
ImplementsDiskUse == Use!Spec

(* volumes.go:402 says that the path of a mount is based on the name of    *)
(* the volume: different volumes have different mount points.              *)
MountPointPerVolume ==
    pc = "bound" =>
        \A m, n \in {x \in Names : paths[x] # NoTarget} :
            m # n /\ paths[m].point # HostDirectory =>
                paths[m].point # paths[n].point

(* volumes.go:98 says that what is mounted under the directory managed by  *)
(* konlet is unmounted: a mount beside it stays.                           *)
SiblingsStay ==
    [][\A m \in table \ table' : m.point.dir = "managed" \/ Reboot]_vars
=============================================================================

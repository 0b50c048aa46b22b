--------------------------- MODULE VolumesProofs ---------------------------
(***************************************************************************)
(* Proofs about Volumes, for any set of names, disks, devices, requests    *)
(* and mounts that may be there before the first run.                      *)
(***************************************************************************)
EXTENDS Volumes, FiniteSetTheorems, TLAPS

OnDevice == {"probe", "format", "fsck", "mount"}

(* The types, and what they need to be inductive: the loop over the        *)
(* volumes starts at the first one, a device that is worked on exists, and *)
(* a mount table is finite.                                                *)
Typed ==
    /\ TypeOK
    /\ pc \in OnDevice => volume.dev \in Devices
    /\ pc = "volume" => index >= 1
    /\ IsFiniteSet(table)

(* The volume being processed is one of the request.                       *)
LEMMA CurrentVolume ==
    ASSUME TypeOK, pc \in Commands \union {"finish"}
    PROVE  /\ request \in Requests /\ request \in Request
           /\ volume \in Volume
           /\ disk \in Disks
           /\ volume.name \in Names
           /\ index \in DOMAIN request.volumes
<1>1. pc # "idle" /\ index \in DOMAIN request.volumes
      BY DEF TypeOK, Commands
<1>2. request \in Requests /\ request \in Request
      BY <1>1, VolumesAssumption DEF TypeOK
<1>3. request.volumes \in Seq(Volume)
      BY <1>2 DEF Request
<1>4. volume \in Volume
      BY <1>1, <1>3 DEF volume
<1>5. volume.dev \in Device /\ volume.name \in Names
      BY <1>4 DEF Volume
<1>6. disk \in Disks
      BY <1>5 DEF disk, Device
<1>7. QED BY <1>1, <1>2, <1>4, <1>5, <1>6

(* A new mount goes on top of those at its point.                          *)
LEMMA MountedType ==
    ASSUME Typed, NEW dev \in Devices \union {Tmpfs}, NEW p \in Points,
           NEW ro \in BOOLEAN, RoomAt(p)
    PROVE  /\ Mounted(dev, p, ro) \subseteq Mount
           /\ IsFiniteSet(Mounted(dev, p, ro))
<1>1. IsFiniteSet(At(p))
      BY FS_Subset DEF At, Typed
<1>2. Cardinality(At(p)) \in Nat
      BY <1>1, FS_CardinalityType
<1>3. Cardinality(At(p)) + 1 \in 1..MaxLayers
      BY <1>2, VolumesAssumption DEF RoomAt
<1>4. [dev |-> dev, point |-> p, ro |-> ro, layer |-> Cardinality(At(p)) + 1]
          \in Mount
      BY <1>3 DEF Mount
<1>5. QED BY <1>4, FS_AddElement DEF Mounted, Typed, TypeOK

(* The mount points of volumes are mount points.                           *)
LEMMA PointsOfVolumes ==
    /\ \A n \in Names : TmpfsPoint(n) \in Points
    /\ \A d \in Disks : DiskPoint(d) \in Points
BY DEF Points, ManagedPoints

(* The initial states are well typed.                                      *)
LEMMA TypeInit == Init => Typed
BY VolumesAssumption
   DEF Init, OnDevice, Typed, TypeOK, Locations, Commands

(* A step that forgets the run and keeps or takes away mounts.             *)
LEMMA ForgetType ==
    ASSUME Typed, Forget, table' \in SUBSET table,
           fs' \in [Devices -> FileSystem], attached' = attached,
           unreadable' = unreadable, left' = {},
           \/ pc' = "idle" /\ request' = NoRequest
           \/ pc' = "list" /\ request' \in Requests
    PROVE  Typed'
<1>1. IsFiniteSet(table')
      BY FS_Subset DEF Typed
<1>2. QED BY <1>1 DEF Typed, TypeOK, Forget, OnDevice, Locations, Commands

(* Every step preserves the types: one case per action.                    *)
LEMMA TypeStep == Typed /\ [Next]_vars => Typed'
<1> SUFFICES ASSUME Typed, [Next]_vars PROVE Typed'
    OBVIOUS
<1> USE VolumesAssumption DEF machine, run, OnDevice
<1>1. CASE Begin
  <2>1. fs \in [Devices -> FileSystem] /\ table \in SUBSET table
        BY DEF Typed, TypeOK
  <2>2. QED BY <1>1, <2>1, ForgetType DEF Begin, Typed, TypeOK
<1>2. CASE ListMounts
      BY <1>2 DEF ListMounts, AfterUmount, Typed, TypeOK, Locations, Commands
<1>3. CASE ListFails
      BY <1>3 DEF ListFails, Typed, TypeOK, Locations, Commands
<1>4. ASSUME NEW m \in todo, Umount(m) PROVE Typed'
  <2>1. IsFiniteSet(table')
        BY <1>4, FS_RemoveElement DEF Umount, Typed
  <2>2. QED
    BY <1>4, <2>1 DEF Umount, AfterUmount, Typed, TypeOK, Locations, Commands
<1>5. ASSUME NEW m \in todo, UmountFails(m) PROVE Typed'
  <2>1. m.point \in Points
        BY DEF Typed, TypeOK, Mount
  <2>2. QED
    BY <1>5, <2>1
       DEF UmountFails, AfterUmount, Typed, TypeOK, Locations, Commands
<1>6. CASE CheckReferences
      BY <1>6 DEF CheckReferences, Typed, TypeOK, Locations, Commands
<1>7. CASE ReadMetadata
      BY <1>7 DEF ReadMetadata, Typed, TypeOK, Locations, Commands
<1>8. CASE HostPathVolume
  <2>1. request \in Requests /\ index \in 1..Len(request.volumes)
        BY <1>8 DEF HostPathVolume, Typed, TypeOK
  <2>2. index \in DOMAIN request.volumes
        BY <2>1 DEF Request
  <2>3. HostDirectory \in Points \union {HostDirectory}
        OBVIOUS
  <2>4. result' \in Target \union {NoTarget, Failed}
        BY <1>8, <2>3 DEF HostPathVolume, Target
  <2>5. QED
    BY <1>8, <2>2, <2>4 DEF HostPathVolume, Typed, TypeOK, Locations, Commands
<1>9. CASE EmptyDirVolume
  <2>1. TmpfsPoint(volume.name) \in Points
        BY <1>9, CurrentVolume, PointsOfVolumes
           DEF EmptyDirVolume, Typed, Commands
  <2>2. table' \subseteq Mount /\ IsFiniteSet(table')
    <3>1. CASE table' = Mounted(Tmpfs, TmpfsPoint(volume.name), FALSE)
               /\ RoomAt(TmpfsPoint(volume.name))
          BY <2>1, <3>1, MountedType
    <3>2. CASE table' = table
          BY <3>2 DEF Typed, TypeOK
    <3>3. QED BY <1>9, <3>1, <3>2 DEF EmptyDirVolume
  <2>3. result' \in Target \union {NoTarget, Failed}
    <3>1. [point |-> TmpfsPoint(volume.name), ro |-> FALSE] \in Target
          BY <2>1 DEF Target
    <3>2. result \in Target \union {NoTarget, Failed}
          BY DEF Typed, TypeOK
    <3>3. QED BY <1>9, <3>1, <3>2 DEF EmptyDirVolume
  <2>4. QED
    BY <1>9, <2>2, <2>3 DEF EmptyDirVolume, Typed, TypeOK, Locations, Commands
<1>10. CASE EmptyDirFails
       BY <1>10 DEF EmptyDirFails, Typed, TypeOK, Locations, Commands
<1>11. CASE DiskVolume
       BY <1>11 DEF DiskVolume, DiskUsable, AfterChecks, volume, Typed, TypeOK, Locations, Commands
<1>12. CASE Probe
  <2>1. pc' \in {"format", "fsck", "finish"}
        BY <1>12 DEF Probe, AfterProbe
  <2>2. QED BY <1>12, <2>1 DEF Probe, volume, Typed, TypeOK, Locations, Commands
<1>13. CASE Format
       BY <1>13 DEF Format, volume, Typed, TypeOK, Locations, Commands, FileSystem
<1>14. CASE FormatKilled
  <2>1. fs' \in [Devices -> FileSystem]
        BY <1>14 DEF FormatKilled, Typed, TypeOK, FileSystem
  <2>2. QED BY <1>14, <2>1, ForgetType DEF FormatKilled
<1>15. CASE Fsck
       BY <1>15 DEF Fsck, volume, Typed, TypeOK, Locations, Commands, FileSystem
<1>16. ASSUME MountDisk, pc = "mount" PROVE Typed'
  <2>1. DiskPoint(disk) \in Points
        BY <1>16, CurrentVolume, PointsOfVolumes DEF Typed, Commands
  <2>2. MountReadOnly \in BOOLEAN
        BY DEF MountReadOnly
  <2>3. volume.dev \in Devices
        BY <1>16 DEF Typed
  <2>4. table' \subseteq Mount /\ IsFiniteSet(table')
        BY <1>16, <2>1, <2>2, <2>3, MountedType DEF MountDisk
  <2>5. result' \in Target
        BY <1>16, <2>1, <2>2 DEF MountDisk, Target
  <2>6. QED
    BY <1>16, <2>4, <2>5 DEF MountDisk, Typed, TypeOK, Locations, Commands
<1>17. CASE DiskFails
       BY <1>17 DEF DiskFails, Typed, TypeOK, Locations, Commands
<1>18. CASE FinishVolume
  <2>1. pc = "finish" /\ volume.name \in Names
        BY <1>18, CurrentVolume DEF FinishVolume, Typed
  <2>2. Processed => result \in Target \union {NoTarget}
        BY DEF Processed, Typed, TypeOK
  <2>3. QED
    BY <1>18, <2>1, <2>2 DEF FinishVolume, Typed, TypeOK, Locations, Commands
<1>19. CASE VolumesDone
       BY <1>19 DEF VolumesDone, Typed, TypeOK, Locations, Commands
<1>20. CASE Bind
       BY <1>20 DEF Bind, Typed, TypeOK, Locations, Commands
<1>21. CASE MetadataFails
       BY <1>21 DEF MetadataFails, Typed, TypeOK, Locations, Commands
<1>22. CASE NextRun
  <2>1. fs \in [Devices -> FileSystem] /\ table \in SUBSET table
        BY DEF Typed, TypeOK
  <2>2. QED BY <1>22, <2>1, ForgetType DEF NextRun
<1>23. CASE Reboot
  <2>1. fs' \in [Devices -> FileSystem]
        BY <1>23 DEF Reboot, Typed, TypeOK, FileSystem
  <2>2. QED BY <1>23, <2>1, ForgetType DEF Reboot
<1>24. ASSUME NEW dev \in Devices, Fault(dev) PROVE Typed'
       BY <1>24 DEF Fault, volume, Typed, TypeOK
<1>25. CASE UNCHANGED vars
       BY <1>25 DEF vars, volume, Typed, TypeOK
<1>26. QED
  BY <1>1, <1>2, <1>3, <1>4, <1>5, <1>6, <1>7, <1>8, <1>9, <1>10, <1>11,
     <1>12, <1>13, <1>14, <1>15, <1>16, <1>17, <1>18, <1>19, <1>20, <1>21,
     <1>22, <1>23, <1>24, <1>25
     DEF Next, Agent, MountDisk

(* Every variable keeps its type, for all values of the constants.         *)
THEOREM VolumesTypeCorrect == Spec => []TypeOK
<1>1. Typed => TypeOK
      BY DEF Typed
<1>2. QED BY <1>1, TypeInit, TypeStep, PTL DEF Spec

----------------------------------------------------------------------------
(* The inductive invariant: what a run has established when it gets to a   *)
(* place.                                                                  *)

(* Between the checks of a disk and its mount nothing mounts it. *)
DiskIdle ==
    pc \in OnDevice => AttachedAsNeeded /\ volume.dev \notin MountedDevices

WritesAllowed ==
    pc \in {"probe", "format", "fsck"} => attached[disk] = "READ_WRITE"

InLoop == Commands \union {"volume", "finish", "bind"}

Referenced == pc \in InLoop \union {"metadata"} => ReferencesValid(request)

(* A handler of a definition that is present has left a target or failed,  *)
(* and nothing read-only where a mount wants to write.                     *)
ResultSound ==
    /\ pc = "emptyDir" /\ "hostPath" \in volume.defs => result \in Target
    /\ pc = "disk" /\ ("hostPath" \in volume.defs \/ "emptyDir" \in volume.defs)
           => result \in Target \union {Failed}
    /\ pc = "finish" /\ volume.defs # {} => result \in Target \union {Failed}
    /\ pc \in Commands \union {"finish"} /\ result \in Target /\ wantsRW
           => ~result.ro

PathSound(name) ==
    /\ paths[name] \in Target
    /\ WantsReadWrite(request, name) => ~paths[name].ro

PathsSound ==
    pc \in InLoop =>
        \A j \in DOMAIN request.volumes :
            j < index => PathSound(request.volumes[j].name)

AllProcessed == pc = "bind" => index > Len(request.volumes)

Inv ==
    /\ DeviceMountedOnce
    /\ DiskIdle
    /\ WritesAllowed
    /\ CheckedBeforeWritten
    /\ Referenced
    /\ ResultSound
    /\ PathsSound
    /\ AllProcessed

(* No run has begun, and no device is mounted twice at the start.          *)
LEMMA InvInit == Init => Inv
BY VolumesAssumption
   DEF Init, Inv, DeviceMountedOnce, DiskIdle, WritesAllowed, Referenced,
       CheckedBeforeWritten, ResultSound, PathsSound, AllProcessed, OnDevice,
       InLoop, Commands

(* A step to a place where nothing is established yet, or no more, that    *)
(* mounts nothing.                                                         *)
LEMMA OutsideLoop ==
    ASSUME Inv, table' \subseteq table,
           pc' \notin InLoop \union {"metadata"}
    PROVE  Inv'
BY DEF Inv, DeviceMountedOnce, DiskIdle, WritesAllowed, Referenced,
       CheckedBeforeWritten, ResultSound, PathsSound, AllProcessed, OnDevice,
       InLoop, Commands

(* What a mount brings to the table.                                       *)
LEMMA MountedOnce ==
    ASSUME DeviceMountedOnce, NEW dev, dev = Tmpfs \/ dev \notin MountedDevices,
           NEW p, NEW ro, table' = Mounted(dev, p, ro)
    PROVE  DeviceMountedOnce'
<1>1. \A m \in table' : m \in table \/ m.dev = dev
      BY DEF Mounted
<1>2. \A m, n \in table' \ table : m = n
      BY DEF Mounted
<1>3. \A m \in table : m.dev # Tmpfs => m.dev \in MountedDevices
      BY DEF MountedDevices
<1>4. QED BY <1>1, <1>2, <1>3 DEF DeviceMountedOnce

(* A step inside the handlers of one volume leaves what was established    *)
(* before it began.                                                        *)
LEMMA SameVolume ==
    ASSUME Inv, pc \in Commands \union {"volume", "finish"},
           pc' \in Commands \union {"finish"},
           UNCHANGED <<request, index, paths, attached>>
    PROVE  /\ volume' = volume /\ disk' = disk /\ wantsRW' = wantsRW
           /\ AttachedAsNeeded' = AttachedAsNeeded
           /\ Referenced' /\ PathsSound' /\ AllProcessed'
<1>1. volume' = volume /\ disk' = disk
      BY DEF volume, disk
<1>2. wantsRW' = wantsRW
      BY <1>1 DEF wantsRW, WantsReadWrite
<1>3. AttachedAsNeeded' = AttachedAsNeeded
      BY <1>1, <1>2 DEF AttachedAsNeeded
<1>4. Referenced' /\ PathsSound' /\ AllProcessed'
      BY DEF Inv, Referenced, ReferencesValid, VolumeNames, PathsSound,
             PathSound, WantsReadWrite, AllProcessed, InLoop, Commands
<1>5. QED BY <1>1, <1>2, <1>3, <1>4

(* The references are checked before the loop ...                          *)
LEMMA EnteringLoop ==
    ASSUME Inv, pc' = "metadata", UNCHANGED table, Referenced'
    PROVE  Inv'
BY DEF Inv, DeviceMountedOnce, DiskIdle, WritesAllowed, CheckedBeforeWritten,
       ResultSound, PathsSound, AllProcessed, OnDevice, InLoop, Commands

(* ... and between two volumes, or after the last one, no device is worked *)
(* on.                                                                     *)
LEMMA BetweenVolumes ==
    ASSUME Inv, pc' \in {"volume", "bind"}, UNCHANGED table,
           Referenced', PathsSound', AllProcessed'
    PROVE  Inv'
BY DEF Inv, DeviceMountedOnce, DiskIdle, WritesAllowed, CheckedBeforeWritten,
       ResultSound, OnDevice, Commands

(* Every step preserves the inductive invariant: one case per action.      *)
LEMMA InvStep == Typed /\ Inv /\ [Next]_vars => Inv'
<1> SUFFICES ASSUME Typed, Inv, [Next]_vars PROVE Inv'
    OBVIOUS
<1> USE VolumesAssumption DEF machine, run
<1>1. CASE Begin \/ ListMounts \/ ListFails \/ Bind \/ MetadataFails \/ NextRun
           \/ FormatKilled \/ Reboot
      BY <1>1, OutsideLoop
         DEF Begin, ListMounts, ListFails, Bind, MetadataFails, NextRun,
             FormatKilled, Reboot, AfterUmount, InLoop, Commands
<1>2. ASSUME NEW m \in todo, Umount(m) \/ UmountFails(m) PROVE Inv'
      BY <1>2, OutsideLoop
         DEF Umount, UmountFails, AfterUmount, InLoop, Commands
<1>3. CASE CheckReferences
  <2>1. CASE ~ReferencesValid(request)
        BY <1>3, <2>1, OutsideLoop DEF CheckReferences, InLoop, Commands
  <2>2. CASE ReferencesValid(request)
    <3>1. Referenced'
          BY <1>3, <2>2 DEF CheckReferences, Referenced
    <3>2. QED
      BY <1>3, <2>2, <3>1, EnteringLoop DEF CheckReferences
  <2>3. QED BY <2>1, <2>2
<1>4. CASE ReadMetadata
  <2>1. request \in Request
        BY <1>4 DEF ReadMetadata, Typed, TypeOK
  <2>2. DOMAIN request.volumes = 1..Len(request.volumes)
        BY <2>1 DEF Request
  <2>3. CASE pc' = "failed"
        BY <1>4, <2>3, OutsideLoop DEF ReadMetadata, InLoop, Commands
  <2>4. CASE pc' = "volume" /\ index' = 1
    <3>1. PathsSound'
          BY <1>4, <2>2, <2>4 DEF ReadMetadata, PathsSound
    <3>2. Referenced'
          BY <1>4 DEF ReadMetadata, Inv, Referenced
    <3>3. QED
      BY <1>4, <2>4, <3>1, <3>2, BetweenVolumes DEF ReadMetadata, AllProcessed
  <2>5. QED BY <1>4, <2>3, <2>4 DEF ReadMetadata
<1>5. CASE HostPathVolume
  <2>1. /\ volume' = volume /\ wantsRW' = wantsRW
        /\ Referenced' /\ PathsSound' /\ AllProcessed'
        BY <1>5, SameVolume DEF HostPathVolume, Commands
  <2>2. [point |-> HostDirectory, ro |-> FALSE] \in Target
        BY DEF Target
  <2>3. ResultSound'
        BY <1>5, <2>1, <2>2 DEF HostPathVolume, ResultSound, Commands
  <2>4. QED
    BY <1>5, <2>1, <2>3 DEF HostPathVolume, Inv, DeviceMountedOnce, DiskIdle,
       WritesAllowed, CheckedBeforeWritten, OnDevice
<1>6. CASE EmptyDirVolume
  <2>1. /\ volume' = volume /\ wantsRW' = wantsRW
        /\ Referenced' /\ PathsSound' /\ AllProcessed'
        BY <1>6, SameVolume DEF EmptyDirVolume, Commands
  <2>2. [point |-> TmpfsPoint(volume.name), ro |-> FALSE] \in Target
        BY <1>6, CurrentVolume, PointsOfVolumes
           DEF EmptyDirVolume, Typed, Target, Commands
  <2>3. ResultSound'
    <3>1. CASE "emptyDir" \in volume.defs
      <4>1. /\ pc' = "disk" /\ result' \in Target
            /\ result' = [point |-> TmpfsPoint(volume.name), ro |-> FALSE]
            BY <1>6, <2>2, <3>1 DEF EmptyDirVolume
      <4>2. ~result'.ro
            BY <4>1
      <4>3. QED BY <4>1, <4>2 DEF ResultSound
    <3>2. CASE "emptyDir" \notin volume.defs
      <4>1. UNCHANGED result /\ pc = "emptyDir" /\ pc' = "disk"
            BY <1>6, <3>2 DEF EmptyDirVolume
      <4>2. QED BY <2>1, <3>2, <4>1 DEF Inv, ResultSound, Commands
    <3>3. QED BY <3>1, <3>2
  <2>4. DeviceMountedOnce'
    <3>1. CASE table' = Mounted(Tmpfs, TmpfsPoint(volume.name), FALSE)
          BY <3>1, MountedOnce DEF Inv
    <3>2. CASE table' = table
          BY <3>2 DEF Inv, DeviceMountedOnce
    <3>3. QED BY <1>6, <3>1, <3>2 DEF EmptyDirVolume
  <2>5. QED
    BY <1>6, <2>1, <2>3, <2>4 DEF EmptyDirVolume, Inv, DiskIdle,
       WritesAllowed, CheckedBeforeWritten, OnDevice
<1>7. CASE EmptyDirFails
  <2>1. /\ volume' = volume /\ wantsRW' = wantsRW
        /\ Referenced' /\ PathsSound' /\ AllProcessed'
        BY <1>7, SameVolume DEF EmptyDirFails, Commands
  <2>2. ResultSound'
        BY <1>7, <2>1 DEF EmptyDirFails, ResultSound
  <2>3. QED
    BY <1>7, <2>1, <2>2 DEF EmptyDirFails, Inv, DeviceMountedOnce, DiskIdle,
       WritesAllowed, CheckedBeforeWritten, OnDevice
<1>8. CASE DiskVolume
  <2>1. pc = "disk" /\ pc' \in {"probe", "mount", "finish"}
        BY <1>8 DEF DiskVolume, AfterChecks
  <2>2. /\ volume' = volume /\ disk' = disk /\ wantsRW' = wantsRW
        /\ AttachedAsNeeded' = AttachedAsNeeded
        /\ Referenced' /\ PathsSound' /\ AllProcessed'
        BY <1>8, <2>1, SameVolume DEF DiskVolume, Commands
  <2>3. volume.defs \subseteq {"hostPath", "emptyDir", "disk"}
        BY <2>1, CurrentVolume DEF Typed, Volume, Commands
  <2>4. ResultSound'
        BY <1>8, <2>1, <2>2, <2>3
           DEF DiskVolume, AfterChecks, Inv, ResultSound, Commands
  <2>5. DiskIdle'
        BY <1>8, <2>2 DEF DiskVolume, DiskUsable, NotMounted, DiskIdle,
           MountedDevices, OnDevice
  <2>6. WritesAllowed' /\ CheckedBeforeWritten'
        BY <1>8, <2>2 DEF DiskVolume, DiskUsable, AttachedAsNeeded,
           AfterChecks, WritesAllowed, CheckedBeforeWritten
  <2>7. QED
    BY <1>8, <2>2, <2>4, <2>5, <2>6 DEF DiskVolume, Inv, DeviceMountedOnce
<1>9. CASE Probe
  <2>1. pc' \in {"format", "fsck", "finish"}
        BY <1>9 DEF Probe, AfterProbe
  <2>2. /\ volume' = volume /\ disk' = disk /\ wantsRW' = wantsRW
        /\ AttachedAsNeeded' = AttachedAsNeeded
        /\ Referenced' /\ PathsSound' /\ AllProcessed'
        BY <1>9, <2>1, SameVolume DEF Probe, Commands
  <2>3. ResultSound'
        BY <1>9, <2>1, <2>2 DEF Probe, Inv, ResultSound, Commands
  <2>4. DiskIdle' /\ WritesAllowed' /\ CheckedBeforeWritten'
        BY <1>9, <2>1, <2>2 DEF Probe, Inv, DiskIdle, WritesAllowed,
           CheckedBeforeWritten, MountedDevices, OnDevice
  <2>5. QED
    BY <1>9, <2>2, <2>3, <2>4 DEF Probe, Inv, DeviceMountedOnce
<1>10. CASE Format \/ Fsck
  <2>1. pc \in {"format", "fsck"} /\ pc' \in {"mount", "finish"}
        BY <1>10 DEF Format, Fsck
  <2>2. /\ volume' = volume /\ disk' = disk /\ wantsRW' = wantsRW
        /\ AttachedAsNeeded' = AttachedAsNeeded
        /\ Referenced' /\ PathsSound' /\ AllProcessed'
        BY <1>10, <2>1, SameVolume DEF Format, Fsck, Commands
  <2>3. ResultSound'
        BY <1>10, <2>1, <2>2 DEF Format, Fsck, Inv, ResultSound, Commands
  <2>4. DiskIdle' /\ WritesAllowed'
        BY <1>10, <2>1, <2>2 DEF Format, Fsck, Inv, DiskIdle, WritesAllowed,
           MountedDevices, OnDevice
  <2>5. fs'[volume.dev] = "clean"
        BY <1>10, <2>1 DEF Format, Fsck, Typed, TypeOK, OnDevice
  <2>6. CheckedBeforeWritten'
        BY <2>2, <2>5 DEF CheckedBeforeWritten
  <2>7. QED
    BY <1>10, <2>2, <2>3, <2>4, <2>6 DEF Format, Fsck, Inv, DeviceMountedOnce
<1>11. ASSUME MountDisk, pc = "mount" PROVE Inv'
  <2>1. /\ volume' = volume /\ disk' = disk /\ wantsRW' = wantsRW
        /\ Referenced' /\ PathsSound' /\ AllProcessed'
        BY <1>11, SameVolume DEF MountDisk, Commands
  <2>2. DeviceMountedOnce'
        BY <1>11, MountedOnce DEF MountDisk, Inv, DiskIdle, OnDevice
  <2>3. MountReadOnly \in BOOLEAN /\ (wantsRW => ~MountReadOnly)
        BY <1>11 DEF MountReadOnly, Inv, DiskIdle, AttachedAsNeeded, OnDevice
  <2>4. [point |-> DiskPoint(disk), ro |-> MountReadOnly] \in Target
        BY <1>11, <2>3, CurrentVolume, PointsOfVolumes
           DEF Typed, Target, Commands
  <2>5. ResultSound'
        BY <1>11, <2>1, <2>3, <2>4 DEF MountDisk, ResultSound
  <2>6. QED
    BY <1>11, <2>1, <2>2, <2>5 DEF MountDisk, Inv, DiskIdle, WritesAllowed,
       CheckedBeforeWritten, OnDevice
<1>12. CASE DiskFails
  <2>1. /\ volume' = volume /\ wantsRW' = wantsRW
        /\ Referenced' /\ PathsSound' /\ AllProcessed'
        BY <1>12, SameVolume DEF DiskFails, Commands
  <2>2. ResultSound'
        BY <1>12, <2>1 DEF DiskFails, ResultSound, Commands
  <2>3. QED
    BY <1>12, <2>1, <2>2 DEF DiskFails, Inv, DeviceMountedOnce, DiskIdle,
       WritesAllowed, CheckedBeforeWritten, OnDevice
<1>13. CASE FinishVolume /\ ~Processed
       BY <1>13, OutsideLoop DEF FinishVolume, InLoop, Commands
<1>14. CASE FinishVolume /\ Processed
  <2>1. /\ pc = "finish" /\ pc' = "volume" /\ index' = index + 1
        /\ paths' = [paths EXCEPT ![volume.name] = result]
        /\ UNCHANGED <<table, machine, request>>
        BY <1>14 DEF FinishVolume
  <2>2. volume.defs # {}
    <3>1. Cardinality(volume.defs) = 1
          BY <1>14 DEF Processed
    <3>2. Cardinality({}) = 0
          BY FS_EmptySet
    <3>3. volume.defs = {} => Cardinality(volume.defs) = Cardinality({})
          OBVIOUS
    <3>4. QED BY <3>1, <3>2, <3>3
  <2>3. result \in Target /\ (wantsRW => ~result.ro)
        BY <1>14, <2>1, <2>2 DEF Processed, Inv, ResultSound
  <2>4. /\ volume.name \in Names /\ index \in DOMAIN request.volumes
        /\ index \in Nat /\ request \in Request
        BY <2>1, CurrentVolume DEF Typed, TypeOK
  <2>5. paths'[volume.name] = result
        BY <2>1, <2>4 DEF Typed, TypeOK
  <2>6. Referenced'
        BY <2>1 DEF Inv, Referenced, InLoop
  <2>7. ASSUME NEW j \in DOMAIN request.volumes, j < index'
        PROVE  PathSound(request.volumes[j].name)'
    <3>1. j \in Nat
          BY <2>4 DEF Request
    <3>2. CASE request.volumes[j].name = volume.name
          BY <2>1, <2>3, <2>5, <3>2 DEF PathSound, wantsRW, WantsReadWrite
    <3>3. CASE request.volumes[j].name # volume.name
      <4>1. j < index
            BY <2>1, <2>4, <2>7, <3>1, <3>3 DEF volume
      <4>2. PathSound(request.volumes[j].name)
            BY <2>1, <4>1 DEF Inv, PathsSound, InLoop
      <4>3. request.volumes[j] \in Volume
            BY <2>4 DEF Request
      <4>4. paths'[request.volumes[j].name] = paths[request.volumes[j].name]
            BY <2>1, <2>4, <3>3, <4>3 DEF Typed, TypeOK, Volume
      <4>5. QED BY <2>1, <4>2, <4>4 DEF PathSound, WantsReadWrite
    <3>4. QED BY <3>2, <3>3
  <2>8. PathsSound'
        BY <2>1, <2>7 DEF PathsSound
  <2>9. QED
    BY <2>1, <2>6, <2>8, BetweenVolumes DEF AllProcessed
<1>15. CASE VolumesDone
  <2>1. /\ pc = "volume" /\ pc' = "bind" /\ index > Len(request.volumes)
        /\ UNCHANGED <<table, machine, run>>
        BY <1>15 DEF VolumesDone
  <2>2. Referenced'
        BY <2>1 DEF Inv, Referenced, InLoop
  <2>3. PathsSound'
        BY <2>1 DEF Inv, PathsSound, PathSound, WantsReadWrite, InLoop
  <2>4. AllProcessed'
        BY <2>1 DEF AllProcessed
  <2>5. QED BY <2>1, <2>2, <2>3, <2>4, BetweenVolumes
<1>16. CASE (\E dev \in Devices : Fault(dev)) \/ UNCHANGED vars
  <2>1. UNCHANGED <<table, fs, attached, pc, run>>
        BY <1>16 DEF Fault, vars
  <2>2. volume' = volume /\ disk' = disk
        BY <2>1 DEF volume, disk
  <2>3. wantsRW' = wantsRW
        BY <2>1, <2>2 DEF wantsRW, WantsReadWrite
  <2>4. DeviceMountedOnce' /\ DiskIdle' /\ WritesAllowed' /\ CheckedBeforeWritten'
        BY <2>1, <2>2, <2>3 DEF Inv, DeviceMountedOnce, DiskIdle,
           AttachedAsNeeded, MountedDevices, WritesAllowed,
           CheckedBeforeWritten
  <2>5. Referenced' /\ AllProcessed'
        BY <2>1 DEF Inv, Referenced, AllProcessed
  <2>6. ResultSound'
        BY <2>1, <2>2, <2>3 DEF Inv, ResultSound
  <2>7. PathsSound'
        BY <2>1 DEF Inv, PathsSound, PathSound, WantsReadWrite
  <2>8. QED BY <2>4, <2>5, <2>6, <2>7 DEF Inv
<1>17. QED
  BY <1>1, <1>2, <1>3, <1>4, <1>5, <1>6, <1>7, <1>8, <1>9, <1>10, <1>11,
     <1>12, <1>13, <1>14, <1>15, <1>16
     DEF Next, Agent, MountDisk

(* The types and the inductive invariant hold in every reachable state.    *)
LEMMA Invariance == Spec => [](Typed /\ Inv)
<1>1. Typed /\ Inv /\ [Next]_vars => (Typed /\ Inv)'
      BY TypeStep, InvStep
<1>2. QED BY <1>1, TypeInit, InvInit, PTL DEF Spec

(* A device is never mounted at two places, whatever runs were killed,     *)
(* failed to unmount, or failed to list the mounts.                        *)
THEOREM OneMountPerDevice == Spec => []DeviceMountedOnce
<1>1. Inv => DeviceMountedOnce
      BY DEF Inv
<1>2. QED BY <1>1, Invariance, PTL

(* A device is mounted for writing only after mkfs or fsck.                *)
THEOREM CheckedBeforeWriting == Spec => []CheckedBeforeWritten
<1>1. Inv => CheckedBeforeWritten
      BY DEF Inv
<1>2. QED BY <1>1, Invariance, PTL

(* What a mount wants has been seen before the volumes were processed.     *)
LEMMA NothingRefused == Typed /\ Inv => BindNeverRefused
<1> SUFFICES ASSUME Typed, Inv, pc = "bind",
                    NEW m \in request.mounts, Refused(m)
             PROVE  FALSE
    BY DEF BindNeverRefused
<1>1. request \in Request
      BY VolumesAssumption DEF Typed, TypeOK
<1>2. ReferencesValid(request)
      BY DEF Inv, Referenced, InLoop
<1>3. PICK j \in DOMAIN request.volumes : request.volumes[j].name = m.name
      BY <1>2 DEF ReferencesValid, VolumeNames
<1>4. j < index
      BY <1>1, <1>3 DEF Inv, AllProcessed, Typed, TypeOK, Request
<1>5. PathSound(m.name)
      BY <1>3, <1>4 DEF Inv, PathsSound, InLoop
<1>6. WantsReadWrite(request, m.name)
      BY DEF Refused, WantsReadWrite
<1>7. QED BY <1>5, <1>6 DEF PathSound, Refused

(* The wishes collected before the volumes are processed decide what the   *)
(* bind loop tests again: it refuses nothing, for any declaration.         *)
THEOREM NothingRefusedByBind == Spec => []BindNeverRefused
BY NothingRefused, Invariance, PTL

(* mkfs and fsck run only on a device that is attached for writing and     *)
(* that nothing has mounted.                                               *)
THEOREM IdleDisksOnly == Spec => RepairsOnlyIdleDisks
<1>1. ASSUME Typed, Inv, [Next]_vars, NEW d \in Devices, fs'[d] # fs[d]
      PROVE  \/ attached[d[1]] = "READ_WRITE" /\ d \notin MountedDevices
             \/ Reboot
  <2>1. Format \/ FormatKilled \/ Fsck \/ Reboot
        BY <1>1 DEF Next, Agent, Begin, ListMounts, ListFails, Umount,
           UmountFails, CheckReferences, ReadMetadata, HostPathVolume,
           EmptyDirVolume, EmptyDirFails, DiskVolume, Probe, MountDisk,
           DiskFails, FinishVolume, VolumesDone, Bind, MetadataFails, NextRun,
           Fault, vars, machine
  <2>2. CASE Format \/ FormatKilled \/ Fsck
    <3>1. pc \in {"format", "fsck"} /\ d = volume.dev
          BY <1>1, <2>2 DEF Format, FormatKilled, Fsck, Typed, TypeOK
    <3>2. QED BY <1>1, <3>1 DEF Inv, DiskIdle, WritesAllowed, OnDevice, disk
  <2>3. QED BY <2>1, <2>2
<1>2. Typed /\ Inv /\ [Next]_vars =>
        [\A d \in Devices :
           fs'[d] # fs[d] => \/ attached[d[1]] = "READ_WRITE" /\ d \notin MountedDevices
                             \/ Reboot]_vars
      BY <1>1
<1>3. QED BY <1>2, Invariance, PTL DEF Spec, RepairsOnlyIdleDisks

(* What the agent is about to format is blank, or not readable: mkfs fails *)
(* on the one, and destroys nothing on the other.                          *)
BlankOrUnreadable ==
    pc = "format" => volume.dev \in unreadable \/ fs[volume.dev] = "blank"

(* It stays so when no device becomes readable during a run.               *)
LEMMA BlankStep ==
    ASSUME TransientFaults = FALSE
    PROVE  BlankOrUnreadable /\ [Next]_vars => BlankOrUnreadable'
<1> SUFFICES ASSUME BlankOrUnreadable, [Next]_vars, pc' = "format"
             PROVE  BlankOrUnreadable'
    BY DEF BlankOrUnreadable
<1>1. Probe \/ UNCHANGED vars
      BY DEF Next, Agent, Begin, ListMounts, ListFails, Umount, UmountFails,
         AfterUmount, CheckReferences, ReadMetadata, HostPathVolume,
         EmptyDirVolume, EmptyDirFails, DiskVolume, AfterChecks, Format,
         FormatKilled, Fsck, MountDisk, DiskFails, FinishVolume, VolumesDone,
         Bind, MetadataFails, NextRun, Reboot, Fault
<1>2. CASE Probe
  <2>1. volume' = volume /\ UNCHANGED <<fs, unreadable>>
        BY <1>2 DEF Probe, machine, volume
  <2>2. Probed(volume.dev) = "blank"
        BY <1>2 DEF Probe, AfterProbe
  <2>3. QED BY <2>1, <2>2 DEF Probed, BlankOrUnreadable
<1>3. CASE UNCHANGED vars
      BY <1>3 DEF vars, machine, run, volume, BlankOrUnreadable
<1>4. QED BY <1>1, <1>2, <1>3

(* A device that holds a file system is never formatted, if no device      *)
(* becomes readable between the lsblk that shows nothing and the mkfs.     *)
THEOREM NoDataFormatted ==
    ASSUME TransientFaults = FALSE
    PROVE  Spec => NeverFormatsData
<1>1. Init => BlankOrUnreadable
      BY DEF Init, BlankOrUnreadable
<1>2. BlankOrUnreadable /\ [Next]_vars => BlankOrUnreadable'
      BY BlankStep
<1>3. BlankOrUnreadable =>
        [Format \/ FormatKilled => fs[volume.dev] = "blank"]_vars
      BY DEF BlankOrUnreadable, Format, FormatKilled
<1>4. QED BY <1>1, <1>2, <1>3, PTL DEF Spec, NeverFormatsData

----------------------------------------------------------------------------
(* What UnmountExistingVolumes leaves.  It is given one entry per layer of *)
(* a mount point, and every umount takes away the top layer: what counts   *)
(* is that a point has as many layers left as entries to treat.            *)

TodoAt(point) == {m \in todo : m.point = point}

Balanced ==
    /\ IsFiniteSet(todo)
    /\ \A p \in Points :
           /\ Cardinality(TodoAt(p)) <= Cardinality(At(p))
           /\ p.dir = "managed" /\ p \notin left =>
                  Cardinality(TodoAt(p)) = Cardinality(At(p))

Unmounting ==
    /\ pc \in {"list", "refs"} => todo = {}
    /\ pc \in {"umount", "refs"} => Balanced

(* A mount point that something is mounted on has a top layer: the mounts  *)
(* above one another shrink, from layer to layer, to none.                 *)
LEMMA TopExists ==
    ASSUME Typed, NEW p, At(p) # {}
    PROVE  Top(p) \in At(p) /\ \A n \in At(p) : n.layer <= Top(p).layer
<1> DEFINE Above(m) == {n \in At(p) : n.layer > m.layer}
           Sets == {Above(m) : m \in At(p)}
<1>1. IsFiniteSet(At(p)) /\ \A m \in At(p) : m.layer \in Nat
      BY FS_Subset DEF At, Typed, TypeOK, Mount
<1>2. Sets # {} /\ Sets \subseteq FiniteSubsetsOf(At(p))
  <2>1. Sets \subseteq SUBSET At(p) /\ Sets # {}
        OBVIOUS
  <2>2. FiniteSubsetsOf(At(p)) = SUBSET At(p)
        BY <1>1, FS_FiniteSubsetsOfFinite
  <2>3. QED BY <2>1, <2>2
<1>3. PICK s \in Sets : \A t \in Sets : <<t, s>> \notin StrictSubsetOrdering(At(p))
  <2> HIDE DEF Sets
  <2>1. QED BY <1>2, FS_StrictSubsetOrderingWellFounded, WFMin
<1>4. PICK m \in At(p) : s = Above(m)
      OBVIOUS
<1>5. ASSUME NEW n \in At(p), n.layer > m.layer
      PROVE  FALSE
  <2>1. Above(n) \in Sets
        OBVIOUS
  <2>2. Above(n) \subseteq Above(m) /\ n \in Above(m) /\ n \notin Above(n)
        BY <1>1, <1>5
  <2>3. Above(n) \in SUBSET At(p) /\ Above(m) \in SUBSET At(p)
        OBVIOUS
  <2>4. <<Above(n), Above(m)>> \in StrictSubsetOrdering(At(p))
    <3> HIDE DEF Above
    <3>1. QED BY <2>2, <2>3 DEF StrictSubsetOrdering
  <2>5. QED BY <1>3, <1>4, <2>1, <2>4
<1>6. \A n \in At(p) : n.layer <= m.layer
      BY <1>1, <1>5
<1>7. QED BY <1>6 DEF Top

(* With nothing left to treat only what could not be unmounted is mounted. *)
LEMMA NothingToTreat ==
    ASSUME Typed, Balanced, todo = {}
    PROVE  \A m \in table : m.point.dir = "managed" => m.point \in left
<1> SUFFICES ASSUME NEW m \in table, m.point.dir = "managed", m.point \notin left
             PROVE  FALSE
    OBVIOUS
<1>1. m.point \in Points
      BY DEF Typed, TypeOK, Mount
<1>2. TodoAt(m.point) = {}
      BY DEF TodoAt
<1>3. Cardinality(At(m.point)) = 0
      BY <1>1, <1>2, FS_EmptySet DEF Balanced
<1>4. IsFiniteSet(At(m.point))
      BY FS_Subset DEF At, Typed
<1>5. At(m.point) = {}
      BY <1>3, <1>4, FS_EmptySet
<1>6. QED BY <1>5 DEF At

(* A point with entries to treat has a layer on top.                       *)
LEMMA TopOfTodo ==
    ASSUME Typed, Balanced, NEW m \in todo
    PROVE  Top(m.point) \in At(m.point)
<1>1. m.point \in Points
      BY DEF Typed, TypeOK, Mount
<1>2. IsFiniteSet(TodoAt(m.point)) /\ TodoAt(m.point) # {}
      BY FS_Subset DEF TodoAt, Balanced
<1>3. Cardinality(TodoAt(m.point)) \in Nat /\ Cardinality(TodoAt(m.point)) # 0
      BY <1>2, FS_CardinalityType, FS_EmptySet
<1>4. Cardinality(At(m.point)) # 0
  <2>1. IsFiniteSet(At(m.point))
        BY FS_Subset DEF At, Typed
  <2>2. Cardinality(At(m.point)) \in Nat
        BY <2>1, FS_CardinalityType
  <2>3. QED BY <1>1, <1>3, <2>2 DEF Balanced
<1>5. At(m.point) # {}
      BY <1>4, FS_EmptySet
<1>6. QED BY <1>5, TopExists

(* A successful umount takes one entry and one layer; a failed one keeps   *)
(* the layer, and the point is remembered.                                 *)
LEMMA OneLayerLess ==
    ASSUME Typed, Balanced, NEW m \in todo, Umount(m) \/ UmountFails(m)
    PROVE  Balanced'
<1>1. IsFiniteSet(todo') /\ todo' = todo \ {m}
      BY FS_RemoveElement DEF Umount, UmountFails, Balanced
<1>2. Top(m.point) \in At(m.point)
      BY TopOfTodo
<1>3. ASSUME NEW p \in Points
      PROVE  /\ Cardinality(TodoAt(p)') <= Cardinality(At(p)')
             /\ p.dir = "managed" /\ p \notin left' =>
                    Cardinality(TodoAt(p)') = Cardinality(At(p)')
  <2>1. IsFiniteSet(TodoAt(p)) /\ IsFiniteSet(At(p))
        BY FS_Subset DEF TodoAt, At, Balanced, Typed
  <2>2. Cardinality(TodoAt(p)) \in Nat /\ Cardinality(At(p)) \in Nat
        BY <2>1, FS_CardinalityType
  <2>3. /\ Cardinality(TodoAt(p)) <= Cardinality(At(p))
        /\ p.dir = "managed" /\ p \notin left =>
               Cardinality(TodoAt(p)) = Cardinality(At(p))
        BY DEF Balanced
  <2>4. CASE p # m.point
    <3>1. TodoAt(p)' = TodoAt(p)
          BY <1>1, <2>4 DEF TodoAt
    <3>2. At(p)' = At(p)
          BY <1>2, <2>4 DEF Umount, UmountFails, At
    <3>3. left \subseteq left'
          BY DEF Umount, UmountFails, run
    <3>4. QED BY <2>3, <3>1, <3>2, <3>3
  <2>5. CASE p = m.point
    <3>1. Cardinality(TodoAt(p)') = Cardinality(TodoAt(p)) - 1
      <4>1. TodoAt(p)' = TodoAt(p) \ {m} /\ m \in TodoAt(p)
            BY <1>1, <2>5 DEF TodoAt
      <4>2. QED BY <2>1, <4>1, FS_RemoveElement
    <3>2. CASE Umount(m)
      <4>1. At(p)' = At(p) \ {Top(p)} /\ left' = left
            BY <2>5, <3>2 DEF Umount, At
      <4>2. Cardinality(At(p)') = Cardinality(At(p)) - 1
            BY <1>2, <2>1, <2>5, <4>1, FS_RemoveElement
      <4>3. QED BY <2>2, <2>3, <3>1, <4>1, <4>2
    <3>3. CASE UmountFails(m)
      <4>1. At(p)' = At(p) /\ p \in left'
            BY <2>5, <3>3 DEF UmountFails, At
      <4>2. QED BY <2>2, <2>3, <3>1, <4>1
    <3>4. QED BY <3>2, <3>3
  <2>6. QED BY <2>4, <2>5
<1>4. QED BY <1>1, <1>3 DEF Balanced

(* Every step keeps the balance.                                           *)
LEMMA UnmountingStep == Typed /\ Unmounting /\ [Next]_vars => Unmounting'
<1> SUFFICES ASSUME Typed, Unmounting, [Next]_vars PROVE Unmounting'
    OBVIOUS
<1>1. CASE ListMounts
  <2>1. IsFiniteSet(todo')
        BY <1>1, FS_Subset DEF ListMounts, Typed
  <2>2. ASSUME NEW p \in Points
        PROVE  /\ Cardinality(TodoAt(p)') <= Cardinality(At(p)')
               /\ p.dir = "managed" => Cardinality(TodoAt(p)') = Cardinality(At(p)')
    <3>1. At(p)' = At(p) /\ IsFiniteSet(At(p))
          BY <1>1, FS_Subset DEF ListMounts, At, Typed
    <3>2. TodoAt(p)' \in SUBSET At(p)
          BY <1>1 DEF ListMounts, TodoAt, At
    <3>3. p.dir = "managed" => TodoAt(p)' = At(p)
          BY <1>1 DEF ListMounts, TodoAt, At, HasManagedPrefix
    <3>4. QED BY <3>1, <3>2, <3>3, FS_Subset
  <2>3. Balanced'
        BY <2>1, <2>2 DEF Balanced
  <2>4. pc' # "list" /\ (pc' = "refs" => todo' = {})
        BY <1>1 DEF ListMounts, AfterUmount
  <2>5. QED BY <2>3, <2>4 DEF Unmounting
<1>2. CASE ListFails
  <2>1. todo' = {} /\ left' = Points /\ pc' = "refs" /\ UNCHANGED table
        BY <1>2 DEF ListFails, Unmounting
  <2>2. ASSUME NEW p \in Points
        PROVE  Cardinality(TodoAt(p)') <= Cardinality(At(p)')
    <3>1. TodoAt(p)' = {} /\ At(p)' = At(p)
          BY <2>1 DEF TodoAt, At
    <3>2. IsFiniteSet(At(p))
          BY FS_Subset DEF At, Typed
    <3>3. QED BY <3>1, <3>2, FS_CardinalityType, FS_EmptySet
  <2>3. Balanced'
        BY <2>1, <2>2, FS_EmptySet DEF Balanced
  <2>4. QED BY <2>1, <2>3 DEF Unmounting
<1>3. ASSUME NEW m \in todo, Umount(m) \/ UmountFails(m)
      PROVE  Unmounting'
  <2>1. Balanced
        BY <1>3 DEF Unmounting, Umount, UmountFails
  <2>2. Balanced'
        BY <1>3, <2>1, OneLayerLess
  <2>3. pc' # "list" /\ (pc' = "refs" => todo' = {})
        BY <1>3 DEF Umount, UmountFails, AfterUmount
  <2>4. QED BY <2>2, <2>3 DEF Unmounting
<1>4. CASE UNCHANGED <<table, todo, left, pc>>
      BY <1>4 DEF Unmounting, Balanced, TodoAt, At
<1>5. CASE pc' = "list" /\ todo' = {}
      BY <1>5 DEF Unmounting
<1>6. CASE pc' \notin {"list", "umount", "refs"}
      BY <1>6 DEF Unmounting
<1>7. QED
  BY <1>1, <1>2, <1>3, <1>4, <1>5, <1>6
     DEF Next, Agent, Begin, Forget, CheckReferences, ReadMetadata,
         HostPathVolume, EmptyDirVolume, EmptyDirFails, DiskVolume,
         AfterChecks, Probe, AfterProbe, Format, FormatKilled, Fsck, MountDisk,
         DiskFails, FinishVolume, VolumesDone, Bind, MetadataFails, NextRun,
         Reboot, Fault, vars, run

(* After UnmountExistingVolumes nothing of an earlier run is mounted in    *)
(* the managed directory, in however many layers it was, except where an   *)
(* umount, or the listing, failed.                                         *)
THEOREM FailedUmountsOnly == Spec => []OnlyFailedUmountsLeft
<1>1. Init => Unmounting
      BY DEF Init, Unmounting
<1>2. Typed /\ Unmounting => OnlyFailedUmountsLeft
      BY NothingToTreat DEF Unmounting, OnlyFailedUmountsLeft
<1>3. QED BY <1>1, <1>2, TypeInit, TypeStep, UnmountingStep, PTL DEF Spec

----------------------------------------------------------------------------
(* A run comes to its end.                                                 *)

(* The loop over the volumes does not run past the volume after the last.  *)
LoopBounded == pc = "volume" => index <= Len(request.volumes) + 1

(* The index passes the last volume by one at most.                        *)
LEMMA LoopStep == Typed /\ LoopBounded /\ [Next]_vars => LoopBounded'
<1> SUFFICES ASSUME Typed, LoopBounded, [Next]_vars, pc' = "volume"
             PROVE  index' <= Len(request'.volumes) + 1
    BY DEF LoopBounded
<1>1. CASE ReadMetadata
  <2>1. request \in Request
        BY <1>1, VolumesAssumption DEF ReadMetadata, Typed, TypeOK
  <2>2. Len(request.volumes) \in Nat
        BY <2>1 DEF Request
  <2>3. QED BY <1>1, <2>2 DEF ReadMetadata
<1>2. CASE FinishVolume
  <2>1. index \in 1..Len(request.volumes)
        BY <1>2, CurrentVolume DEF FinishVolume, Typed, Request
  <2>2. index' = index + 1 /\ request' = request
        BY <1>2 DEF FinishVolume
  <2>3. QED BY <2>1, <2>2
<1>3. CASE UNCHANGED <<pc, request, index>>
      BY <1>3 DEF LoopBounded
<1>4. QED
  BY <1>1, <1>2, <1>3
     DEF Next, Agent, Begin, ListMounts, ListFails, Umount, UmountFails,
         AfterUmount, CheckReferences, HostPathVolume, EmptyDirVolume,
         EmptyDirFails, DiskVolume, AfterChecks, Probe, AfterProbe, Format,
         FormatKilled, Fsck, MountDisk, DiskFails, VolumesDone, Bind,
         MetadataFails, NextRun, Reboot, Fault, vars, run

(* The numbers behind StepsLeft, wherever the run is.                      *)
LEMMA StepsLeftNumbers ==
    ASSUME Typed, Unmounting, LoopBounded, pc # "idle"
    PROVE  /\ Len(request.volumes) \in Nat /\ index \in Nat
           /\ Cardinality(table) \in Nat
           /\ pc = "umount" => Cardinality(todo) \in Nat
           /\ pc = "volume" => index \in 1..Len(request.volumes) + 1
           /\ pc \in Commands \union {"finish"} => index \in 1..Len(request.volumes)
<1>1. request \in Request /\ index \in Nat
      BY VolumesAssumption DEF Typed, TypeOK
<1>2. Len(request.volumes) \in Nat
      BY <1>1 DEF Request
<1>3. Cardinality(table) \in Nat /\ (pc = "umount" => Cardinality(todo) \in Nat)
      BY FS_CardinalityType DEF Typed, Unmounting, Balanced
<1>4. pc = "volume" => index \in 1..Len(request.volumes) + 1
      BY <1>1, <1>2 DEF Typed, LoopBounded
<1>5. pc \in Commands \union {"finish"} => index \in 1..Len(request.volumes)
      BY <1>1 DEF Typed, TypeOK, Request
<1>6. QED BY <1>1, <1>2, <1>3, <1>4, <1>5

(* A step from one place of the loop to a later one, for the same volume.  *)
LEMMA LaterPlace ==
    ASSUME Typed, Unmounting, LoopBounded,
           pc \in Commands \union {"volume", "finish"},
           pc' \in Commands \union {"finish"},
           UNCHANGED <<request, index>>, index <= Len(request.volumes),
           StepsAfter(pc') < StepsAfter(pc)
    PROVE  StepsLeft' \in Nat /\ StepsLeft' < StepsLeft
<1> DEFINE rest == 8 * (Len(request.volumes) + 1 - index)
<1>1. Len(request.volumes) \in Nat /\ index \in Nat /\ rest \in Nat
      BY StepsLeftNumbers DEF Commands
<1>2. StepsAfter(pc) \in Nat /\ StepsAfter(pc') \in Nat
      BY DEF StepsAfter, Commands
<1>3. StepsLeft = rest + StepsAfter(pc)
      BY DEF StepsLeft, Commands
<1>4. StepsLeft' = rest + StepsAfter(pc')
      BY DEF StepsLeft, Commands
<1> HIDE DEF rest
<1>5. QED BY <1>1, <1>2, <1>3, <1>4

(* There is always something left before the run has ended.                *)
LEMMA SomethingLeft ==
    ASSUME Typed, Unmounting, LoopBounded, pc \notin {"idle", "failed", "bound"}
    PROVE  StepsLeft \in Nat /\ StepsLeft >= 1
<1>1. /\ Len(request.volumes) \in Nat /\ index \in Nat /\ Cardinality(table) \in Nat
      /\ pc = "umount" => Cardinality(todo) \in Nat
      /\ pc = "volume" => index \in 1..Len(request.volumes) + 1
      /\ pc \in Commands \union {"finish"} => index \in 1..Len(request.volumes)
      BY StepsLeftNumbers
<1>2. CASE pc \in {"list", "umount", "refs", "metadata", "bind"}
      BY <1>1, <1>2 DEF StepsLeft, Commands
<1>3. CASE pc \in Commands \union {"volume", "finish"}
  <2>1. StepsAfter(pc) \in Nat /\ StepsAfter(pc) >= 1
        BY <1>3 DEF StepsAfter, Commands
  <2>2. StepsLeft = 8 * (Len(request.volumes) + 1 - index) + StepsAfter(pc)
        BY <1>3 DEF StepsLeft, Commands
  <2>3. QED BY <1>1, <1>3, <2>1, <2>2
<1>4. QED BY <1>2, <1>3 DEF Typed, TypeOK, Locations

(* Every step of a run leaves fewer: one case per action.                  *)
LEMMA FewerSteps ==
    ASSUME Typed, Unmounting, LoopBounded, Agent, pc # "idle"
    PROVE  StepsLeft' \in Nat /\ StepsLeft' < StepsLeft
<1> DEFINE n == Len(request.volumes)
<1>1. /\ n \in Nat /\ index \in Nat /\ Cardinality(table) \in Nat
      /\ pc = "umount" => Cardinality(todo) \in Nat
      /\ pc = "volume" => index \in 1..n + 1
      /\ pc \in Commands \union {"finish"} => index \in 1..n
      BY StepsLeftNumbers
<1>2. pc' \in {"failed", "bound"} => StepsLeft' = 0
      BY DEF StepsLeft, Commands
<1>3. CASE CheckReferences \/ Bind \/ MetadataFails
  <2>1. pc' = "metadata" => pc = "refs" /\ request' = request
        BY <1>3 DEF CheckReferences, Bind, MetadataFails, run
  <2>2. pc' = "metadata" => StepsLeft' = 8 * n + 8 /\ StepsLeft = 8 * n + 9
        BY <1>1, <2>1 DEF StepsLeft, Commands
  <2>3. pc' \in {"metadata", "failed", "bound"} /\ pc \in {"refs", "bind", "metadata"}
        BY <1>3 DEF CheckReferences, Bind, MetadataFails
  <2>4. QED BY <1>1, <1>2, <2>2, <2>3, SomethingLeft
<1>4. CASE ListMounts
  <2>1. /\ pc = "list" /\ todo' \subseteq table /\ request' = request
        /\ pc' = IF todo' = {} THEN "refs" ELSE "umount"
        BY <1>4 DEF ListMounts, AfterUmount
  <2>2. Cardinality(todo') \in Nat /\ Cardinality(todo') <= Cardinality(table)
        BY <2>1, FS_Subset, FS_CardinalityType DEF Typed
  <2>3. StepsLeft = 8 * n + 11 + Cardinality(table)
        BY <1>1, <2>1 DEF StepsLeft, Commands
  <2>4. StepsLeft' = IF todo' = {} THEN 8 * n + 9 ELSE 8 * n + 10 + Cardinality(todo')
        BY <1>1, <2>1, <2>2 DEF StepsLeft, Commands
  <2>5. QED BY <1>1, <2>2, <2>3, <2>4
<1>5. CASE ListFails
      BY <1>1, <1>5 DEF ListFails, StepsLeft, Commands
<1>6. ASSUME NEW m \in todo, Umount(m) \/ UmountFails(m)
      PROVE  StepsLeft' \in Nat /\ StepsLeft' < StepsLeft
  <2>1. /\ pc = "umount" /\ todo' = todo \ {m} /\ request' = request
        /\ pc' = IF todo' = {} THEN "refs" ELSE "umount"
        BY <1>6 DEF Umount, UmountFails, AfterUmount
  <2>2. Cardinality(todo') = Cardinality(todo) - 1 /\ Cardinality(todo') \in Nat
        BY <2>1, FS_RemoveElement, FS_CardinalityType DEF Unmounting, Balanced
  <2>3. StepsLeft = 8 * n + 10 + Cardinality(todo)
        BY <1>1, <2>1 DEF StepsLeft, Commands
  <2>4. StepsLeft' = IF todo' = {} THEN 8 * n + 9 ELSE 8 * n + 10 + Cardinality(todo')
        BY <1>1, <2>1, <2>2 DEF StepsLeft, Commands
  <2>5. QED BY <1>1, <2>1, <2>2, <2>3, <2>4
<1>7. CASE ReadMetadata
  <2>1. pc = "metadata" /\ request' = request
        BY <1>7 DEF ReadMetadata
  <2>2. StepsLeft = 8 * n + 8
        BY <2>1 DEF StepsLeft, Commands
  <2>3. CASE pc' = "volume" /\ index' = 1
    <3>1. StepsLeft' = 8 * (n + 1 - 1) + 7
          BY <2>1, <2>3 DEF StepsLeft, StepsAfter, Commands
    <3>2. QED BY <1>1, <2>2, <3>1
  <2>4. CASE pc' = "failed"
        BY <1>1, <1>2, <2>2, <2>4
  <2>5. QED BY <1>7, <2>3, <2>4 DEF ReadMetadata
<1>8. CASE HostPathVolume \/ EmptyDirVolume \/ EmptyDirFails \/ DiskVolume \/ Probe
           \/ Format \/ Fsck \/ MountDisk \/ DiskFails
  <2>1. /\ pc \in Commands \union {"volume"} /\ pc' \in Commands \union {"finish"}
        /\ UNCHANGED <<request, index>>
        BY <1>8
           DEF HostPathVolume, EmptyDirVolume, EmptyDirFails, DiskVolume,
               AfterChecks, Probe, AfterProbe, Format, Fsck, MountDisk,
               DiskFails, Commands, run
  <2>2. index <= n
    <3>1. CASE pc = "volume"
          BY <1>8, <3>1 DEF HostPathVolume, EmptyDirVolume, EmptyDirFails,
             DiskVolume, Probe, Format, Fsck, MountDisk, DiskFails, Commands
    <3>2. CASE pc \in Commands
          BY <1>1, <3>2
    <3>3. QED BY <2>1, <3>1, <3>2
  <2>3. StepsAfter(pc') < StepsAfter(pc)
    <3>1. \/ pc = "volume" /\ pc' = "emptyDir"
          \/ pc = "emptyDir" /\ pc' = "disk"
          \/ pc = "disk" /\ pc' \in {"probe", "mount", "finish"}
          \/ pc = "probe" /\ pc' \in {"format", "fsck", "finish"}
          \/ pc \in {"format", "fsck"} /\ pc' \in {"mount", "finish"}
          \/ pc = "mount" /\ pc' = "finish"
      <4>1. CASE Probe
            BY <4>1 DEF Probe, AfterProbe
      <4>2. CASE ~Probe
            BY <1>8, <4>2
               DEF HostPathVolume, EmptyDirVolume, EmptyDirFails, DiskVolume,
                   AfterChecks, Format, Fsck, MountDisk, DiskFails, Commands
      <4>3. QED BY <4>1, <4>2
    <3>2. QED BY <3>1 DEF StepsAfter
  <2>4. QED BY <2>1, <2>2, <2>3, LaterPlace
<1>9. CASE FinishVolume
  <2>1. pc = "finish" /\ request' = request
        BY <1>9 DEF FinishVolume
  <2>2. StepsLeft = 8 * (n + 1 - index) + 1
        BY <2>1 DEF StepsLeft, StepsAfter, Commands
  <2>3. CASE pc' = "volume" /\ index' = index + 1
    <3>1. StepsLeft' = 8 * (n + 1 - (index + 1)) + 7
          BY <2>1, <2>3 DEF StepsLeft, StepsAfter, Commands
    <3>2. index \in 1..n
          BY <1>1, <2>1
    <3>3. QED
      <4> HIDE DEF n
      <4>1. QED BY <1>1, <2>2, <3>1, <3>2
  <2>4. CASE pc' = "failed"
        BY <1>1, <1>2, <2>1, <2>2, <2>4
  <2>5. QED BY <1>9, <2>3, <2>4 DEF FinishVolume
<1>10. CASE VolumesDone
  <2>1. pc = "volume" /\ pc' = "bind" /\ index = n + 1
        BY <1>1, <1>10 DEF VolumesDone
  <2>2. StepsLeft = 8 * (n + 1 - index) + 7
        BY <2>1 DEF StepsLeft, StepsAfter, Commands
  <2>3. StepsLeft' = 1
        BY <2>1 DEF StepsLeft, Commands
  <2>4. QED BY <1>1, <2>1, <2>2, <2>3
<1>11. QED
  BY <1>3, <1>4, <1>5, <1>6, <1>7, <1>8, <1>9, <1>10 DEF Agent, Begin

Ending == Typed /\ Unmounting /\ LoopBounded

(* What the end of a run is proved from holds in every state.              *)
LEMMA EndingAlways == Spec => []Ending
<1>1. Init => Unmounting /\ LoopBounded
      BY DEF Init, Unmounting, LoopBounded
<1>2. Typed /\ Unmounting /\ LoopBounded <=> Ending
      BY DEF Ending
<1>3. QED BY <1>1, <1>2, TypeInit, TypeStep, UnmountingStep, LoopStep, PTL DEF Spec

(* A run makes at most as many steps as StepsLeft says when it begins: the *)
(* umounts of what is mounted then, and eight for every volume, whatever   *)
(* fails.                                                                  *)
THEOREM RunsEnd == Spec => RunsOut
<1>1. Ending /\ [Next]_vars =>
          [Agent /\ pc # "idle" => StepsLeft' \in Nat /\ StepsLeft' < StepsLeft]_vars
      BY FewerSteps DEF Ending
<1>2. QED BY <1>1, EndingAlways, PTL DEF Spec, RunsOut

----------------------------------------------------------------------------
(* Mounts that are not konlet's.                                           *)

(* What is to be unmounted has the prefix.                                 *)
ListedByPrefix == \A m \in todo : HasManagedPrefix(m.point)

(* Only mounts with the prefix are ever on the list.                       *)
LEMMA ListedStep == ListedByPrefix /\ [Next]_vars => ListedByPrefix'
<1> SUFFICES ASSUME ListedByPrefix, [Next]_vars PROVE ListedByPrefix'
    OBVIOUS
<1>1. CASE ListMounts
      BY <1>1 DEF ListMounts, ListedByPrefix
<1>2. todo' \subseteq todo \/ ListMounts
      BY DEF Next, Agent, Begin, Forget, ListFails, Umount, UmountFails,
         CheckReferences, ReadMetadata, HostPathVolume, EmptyDirVolume,
         EmptyDirFails, DiskVolume, Probe, Format, FormatKilled, Fsck,
         MountDisk, DiskFails, FinishVolume, VolumesDone, Bind, MetadataFails,
         NextRun, Reboot, Fault, vars, run
<1>3. QED BY <1>1, <1>2 DEF ListedByPrefix

(* Without a mount point beside the managed directory that shares its      *)
(* prefix only what konlet has mounted is ever unmounted, which the run    *)
(* siblings shows to be wrong with one.                                    *)
THEOREM OnlyManagedUnmounted ==
    ASSUME \A p \in ForeignPoints : p.dir # "sibling"
    PROVE  Spec => SiblingsStay
<1>1. ASSUME Typed, Unmounting, ListedByPrefix, [Next]_vars,
             NEW n \in table \ table', ~Reboot
      PROVE  n.point.dir = "managed"
  <2>1. PICK m \in todo : Umount(m)
        BY <1>1 DEF Next, Agent, Begin, ListMounts, ListFails, UmountFails,
           CheckReferences, ReadMetadata, HostPathVolume, EmptyDirVolume,
           EmptyDirFails, DiskVolume, Probe, Format, FormatKilled, Fsck,
           MountDisk, DiskFails, FinishVolume, VolumesDone, Bind,
           MetadataFails, NextRun, Fault, Mounted, vars, machine
  <2>2. n = Top(m.point) /\ n.point = m.point
        BY <1>1, <2>1, TopOfTodo DEF Umount, Unmounting, At
  <2>3. n.point \in Points /\ n.point.dir \in {"managed", "sibling"}
        BY <1>1, <2>2 DEF ListedByPrefix, HasManagedPrefix, Typed, TypeOK, Mount
  <2>4. QED BY <2>3, VolumesAssumption DEF Points, ManagedPoints, TmpfsPoint, DiskPoint
<1>2. Typed /\ Unmounting /\ ListedByPrefix /\ [Next]_vars =>
          [\A m \in table \ table' : m.point.dir = "managed" \/ Reboot]_vars
      BY <1>1
<1>3. Init => Unmounting /\ ListedByPrefix
      BY DEF Init, Unmounting, ListedByPrefix
<1>4. QED BY <1>2, <1>3, TypeInit, TypeStep, UnmountingStep, ListedStep, PTL
          DEF Spec, SiblingsStay
=============================================================================

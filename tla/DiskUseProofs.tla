--------------------------- MODULE DiskUseProofs ---------------------------
(***************************************************************************)
(* Volumes implements DiskUse: every step of any run on the mount table    *)
(* and the disks is one that DiskUse allows, or leaves it alone.           *)
(***************************************************************************)
EXTENDS BindsProofs

(* Between the probe and its command a device stays what the probe found:  *)
(* fsck works on a file system of konlet's, and mkfs on a blank device     *)
(* unless devices fail and recover during a run.                           *)
FoundAsProbed ==
    /\ pc = "fsck" => fs[volume.dev] \in {"clean", "dirty"}
    /\ TransientFaults \/ BlankOrUnreadable

(* What was found by the probe is still there when mkfs or fsck runs.      *)
LEMMA FoundStep == FoundAsProbed /\ [Next]_vars => FoundAsProbed'
<1> SUFFICES ASSUME FoundAsProbed, [Next]_vars PROVE FoundAsProbed'
    OBVIOUS
<1>1. TransientFaults \/ BlankOrUnreadable'
      BY BlankStep, VolumesAssumption DEF FoundAsProbed
<1>2. ASSUME pc' = "fsck" PROVE fs'[volume'.dev] \in {"clean", "dirty"}
  <2>1. Probe \/ UNCHANGED <<pc, fs, request, index>>
        BY <1>2
           DEF Next, Agent, Begin, ListMounts, ListFails, Umount, UmountFails,
               AfterUmount, CheckReferences, ReadMetadata, HostPathVolume,
               EmptyDirVolume, EmptyDirFails, DiskVolume, AfterChecks, Format,
               FormatKilled, Fsck, MountDisk, DiskFails, FinishVolume,
               VolumesDone, Bind, MetadataFails, NextRun, Reboot, Fault, vars,
               machine, run
  <2>2. CASE Probe
    <3>1. volume' = volume /\ fs' = fs
          BY <2>2 DEF Probe, machine, volume
    <3>2. Probed(volume.dev) \in {"clean", "dirty"}
          BY <1>2, <2>2 DEF Probe, AfterProbe
    <3>3. QED BY <3>1, <3>2 DEF Probed
  <2>3. CASE UNCHANGED <<pc, fs, request, index>>
        BY <1>2, <2>3 DEF FoundAsProbed, volume
  <2>4. QED BY <2>1, <2>2, <2>3
<1>3. QED BY <1>1, <1>2 DEF FoundAsProbed

----------------------------------------------------------------------------
(* What the steps do to the use of the devices.                            *)
LEMMA UseOfMounted ==
    ASSUME DeviceMountedOnce, NEW d \in Devices
    PROVE  /\ d \notin MountedDevices <=> UseOf(d) = "free"
           /\ \A m \in table : m.dev = d => UseOf(d) = IF m.ro THEN "read" ELSE "write"
           /\ UseOf(d) = "write" <=> \E m \in table : m.dev = d /\ ~m.ro
<1>1. d # Tmpfs
      BY VolumesAssumption
<1>2. d \in MountedDevices <=> \E m \in table : m.dev = d
      BY <1>1 DEF MountedDevices
<1>3. ASSUME NEW m \in table, m.dev = d
      PROVE  UseOf(d) = IF m.ro THEN "read" ELSE "write"
  <2>1. \A n \in table : n.dev = d => n = m
        BY <1>1, <1>3 DEF DeviceMountedOnce
  <2>2. QED BY <1>2, <1>3, <2>1 DEF UseOf
<1>4. QED BY <1>2, <1>3 DEF UseOf

(* A device that comes to be used is one that is mounted, and one that is  *)
(* used no more is one whose mount is gone.                                *)
LEMMA OtherDevices ==
    ASSUME NEW dev,
           \A m : m.dev # dev => (m \in table' <=> m \in table)
    PROVE  \A d \in Devices \ {dev} : UseOf(d)' = UseOf(d)
<1> SUFFICES ASSUME NEW d \in Devices \ {dev} PROVE UseOf(d)' = UseOf(d)
    OBVIOUS
<1>1. d \in MountedDevices' <=> d \in MountedDevices
      BY DEF MountedDevices
<1>2. (\E m \in table' : m.dev = d /\ ~m.ro) <=> (\E m \in table : m.dev = d /\ ~m.ro)
      OBVIOUS
<1>3. QED BY <1>1, <1>2 DEF UseOf

(* A change of the use of one device, said of the function from devices to *)
(* uses.                                                                   *)
LEMMA UseChanges ==
    ASSUME NEW dev \in Devices, NEW how, UseOf(dev)' = how,
           \A d \in Devices \ {dev} : UseOf(d)' = UseOf(d)
    PROVE  [d \in Devices |-> UseOf(d)'] =
               [[d \in Devices |-> UseOf(d)] EXCEPT ![dev] = how]
OBVIOUS

(* A step that mounts and unmounts no device and changes none.             *)
LEMMA NoUse ==
    ASSUME UNCHANGED <<fs, attached>>, \A d \in Devices : UseOf(d)' = UseOf(d)
    PROVE  UNCHANGED Use!vars
BY DEF Use!vars

(* An umount closes the device that was seen at the point.                 *)
LEMMA UmountCloses ==
    ASSUME Typed, Inv, Balanced, NEW m \in todo, Umount(m)
    PROVE  [Use!Next]_(Use!vars)
<1> DEFINE top == Top(m.point)
<1>1. top \in table /\ table' = table \ {top} /\ UNCHANGED <<fs, attached>>
      BY TopOfTodo DEF Umount, At, machine
<1>2. \A d \in Devices \ {top.dev} : UseOf(d)' = UseOf(d)
      BY <1>1, OtherDevices
<1>3. CASE top.dev = Tmpfs
  <2>1. \A d \in Devices : UseOf(d)' = UseOf(d)
        BY <1>2, <1>3, VolumesAssumption
  <2>2. QED BY <1>1, <2>1, NoUse
<1>4. CASE top.dev # Tmpfs
  <2>1. PICK dev \in Devices : dev = top.dev
        BY <1>1, <1>4 DEF Typed, TypeOK, Mount
  <2>2. UseOf(dev) # "free"
        BY <1>1, <2>1, UseOfMounted DEF Inv
  <2>3. UseOf(dev)' = "free"
    <3>1. dev \notin MountedDevices'
          BY <1>1, <1>4, <2>1 DEF Inv, DeviceMountedOnce, MountedDevices
    <3>2. QED BY <3>1 DEF UseOf
  <2>4. [d \in Devices |-> UseOf(d)'] =
            [[d \in Devices |-> UseOf(d)] EXCEPT ![dev] = "free"]
        BY <1>2, <2>1, <2>3, UseChanges
  <2>5. Use!Close(dev)
        BY <1>1, <2>1, <2>2, <2>4 DEF Use!Close
  <2>6. QED BY <2>5 DEF Use!Next
<1>5. QED BY <1>3, <1>4

(* A mount opens a device that was free.                                   *)
LEMMA MountOpens ==
    ASSUME Typed, Inv, MountDisk
    PROVE  [Use!Next]_(Use!vars)
<1>0. PICK dev, how, new :
          /\ dev = volume.dev
          /\ how = IF MountReadOnly THEN "read" ELSE "write"
          /\ new = [dev |-> dev, point |-> DiskPoint(disk), ro |-> MountReadOnly,
                    layer |-> Cardinality(At(DiskPoint(disk))) + 1]
      OBVIOUS
<1>1. /\ dev \in Devices /\ dev \notin MountedDevices /\ AttachedAsNeeded
      /\ fs[dev] \in {"clean", "dirty"} /\ UNCHANGED <<fs, attached>>
      /\ table' = table \union {new} /\ new.dev = dev
      BY <1>0 DEF MountDisk, Typed, Inv, DiskIdle, OnDevice, machine, Mounted
<1>2. \A d \in Devices \ {dev} : UseOf(d)' = UseOf(d)
      BY <1>1, OtherDevices
<1>3. UseOf(dev) = "free"
      BY <1>1, UseOfMounted DEF Inv
<1>4. UseOf(dev)' = how
  <2>1. dev # Tmpfs
        BY <1>1, VolumesAssumption
  <2>2. dev \in MountedDevices'
        BY <1>1, <2>1 DEF MountedDevices
  <2>3. \A m \in table' : m.dev = dev => m = new
        BY <1>1, <2>1 DEF MountedDevices
  <2>4. new \in table' /\ new.dev = dev /\ new.ro = MountReadOnly
        BY <1>0, <1>1
  <2>5. (\E m \in table' : m.dev = dev /\ ~m.ro) <=> ~MountReadOnly
        BY <2>3, <2>4
  <2>6. QED BY <1>0, <2>2, <2>5 DEF UseOf
<1>5. [d \in Devices |-> UseOf(d)'] =
          [[d \in Devices |-> UseOf(d)] EXCEPT ![dev] = how]
      BY <1>1, <1>2, <1>4, UseChanges
<1>6. CASE MountReadOnly
  <2>1. Use!OpenToRead(dev)
        BY <1>0, <1>1, <1>3, <1>5, <1>6 DEF Use!OpenToRead
  <2>2. QED BY <1>1, <2>1 DEF Use!Next
<1>7. CASE ~MountReadOnly
  <2>1. attached[dev[1]] = "READ_WRITE"
        BY <1>0, <1>1, <1>7 DEF MountReadOnly, AttachedAsNeeded, disk
  <2>2. fs[dev] = "clean"
        BY <1>0, <2>1 DEF MountDisk, Inv, CheckedBeforeWritten, disk
  <2>3. Use!OpenToWrite(dev)
        BY <1>0, <1>1, <1>3, <1>5, <1>7, <2>1, <2>2 DEF Use!OpenToWrite, Use!Idle
  <2>4. QED BY <1>1, <2>3 DEF Use!Next
<1>8. QED BY <1>6, <1>7

(* mkfs and fsck find a device that nobody uses.                           *)
LEMMA CommandsOnIdleDevices ==
    ASSUME Typed, Inv, FoundAsProbed, Format \/ FormatKilled \/ Fsck
    PROVE  [Use!Next]_(Use!vars)
<1> DEFINE dev == volume.dev
<1>1. pc \in {"format", "fsck"} /\ UNCHANGED <<table, attached>>
      BY DEF Format, FormatKilled, Fsck
<1>2. /\ dev \in Devices /\ dev \notin MountedDevices
      /\ attached[dev[1]] = "READ_WRITE"
      BY <1>1 DEF Typed, Inv, DiskIdle, WritesAllowed, OnDevice, disk
<1>3. Use!Idle(dev)
      BY <1>2, UseOfMounted DEF Inv, Use!Idle
<1>4. [d \in Devices |-> UseOf(d)'] = [d \in Devices |-> UseOf(d)]
      BY <1>1 DEF UseOf, MountedDevices
<1>5. CASE Format \/ FormatKilled
  <2>1. fs[dev] = "blank" \/ TransientFaults
        BY <1>5 DEF Format, FormatKilled, FoundAsProbed, BlankOrUnreadable
  <2>2. \E c \in {"clean", "dirty"} : fs' = [fs EXCEPT ![dev] = c]
        BY <1>5 DEF Format, FormatKilled
  <2>3. Use!Make(dev)
        BY <1>1, <1>3, <1>4, <2>1, <2>2 DEF Use!Make
  <2>4. QED BY <1>2, <2>3 DEF Use!Next
<1>6. CASE Fsck
  <2>1. fs' = [fs EXCEPT ![dev] = "clean"] /\ fs[dev] \in {"clean", "dirty"}
        BY <1>6 DEF Fsck, FoundAsProbed
  <2>2. CASE fs[dev] = "dirty"
    <3>1. Use!Check(dev)
          BY <1>1, <1>3, <1>4, <2>1, <2>2 DEF Use!Check
    <3>2. QED BY <1>2, <3>1 DEF Use!Next
  <2>3. CASE fs[dev] = "clean"
    <3>1. fs' = fs
          BY <2>1, <2>3 DEF Typed, TypeOK
    <3>2. QED BY <1>1, <1>4, <3>1 DEF Use!vars
  <2>4. QED BY <2>1, <2>2, <2>3
<1>7. QED BY <1>5, <1>6

(* A reboot closes all devices and makes those dirty that were open for    *)
(* writing.                                                                *)
LEMMA RebootFailsPower ==
    ASSUME Typed, Inv, Reboot
    PROVE  Use!PowerFails
<1>1. \A d \in Devices : UseOf(d)' = "free"
      BY DEF Reboot, UseOf, MountedDevices
<1>2. \A d \in Devices : fs'[d] = IF UseOf(d) = "write" /\ fs[d] = "clean"
                                  THEN "dirty" ELSE fs[d]
      BY UseOfMounted DEF Inv, Reboot
<1>3. fs' = [d \in Devices |-> IF UseOf(d) = "write" /\ fs[d] = "clean"
                               THEN "dirty" ELSE fs[d]]
      BY <1>2 DEF Reboot
<1>4. attached' = attached
      BY DEF Reboot
<1>5. [d \in Devices |-> UseOf(d)'] = [d \in Devices |-> "free"]
      BY <1>1
<1>6. QED BY <1>3, <1>4, <1>5 DEF Use!PowerFails

(* Every step is one of DiskUse or a stutter: one case per command that    *)
(* changes a mount or a disk.                                              *)
LEMMA UseStep ==
    Typed /\ Inv /\ Unmounting /\ FoundAsProbed /\ [Next]_vars
        => [Use!Next]_(Use!vars)
<1> SUFFICES ASSUME Typed, Inv, Unmounting, FoundAsProbed, [Next]_vars
             PROVE  [Use!Next]_(Use!vars)
    OBVIOUS
<1>1. ASSUME NEW m \in todo, Umount(m) PROVE [Use!Next]_(Use!vars)
  <2>1. Balanced
        BY <1>1 DEF Umount, Unmounting
  <2>2. QED BY <1>1, <2>1, UmountCloses
<1>2. CASE EmptyDirVolume
  <2>1. UNCHANGED <<fs, attached>>
        BY <1>2 DEF EmptyDirVolume, machine
  <2>2. \A m : m.dev # Tmpfs => (m \in table' <=> m \in table)
        BY <1>2 DEF EmptyDirVolume, Mounted
  <2>3. \A d \in Devices \ {Tmpfs} : UseOf(d)' = UseOf(d)
        BY <2>2, OtherDevices
  <2>4. QED BY <2>1, <2>3, NoUse, VolumesAssumption
<1>3. CASE MountDisk
      BY <1>3, MountOpens
<1>4. CASE Format \/ FormatKilled \/ Fsck
      BY <1>4, CommandsOnIdleDevices
<1>5. CASE Reboot
      BY <1>5, RebootFailsPower DEF Use!Next
<1>6. CASE UNCHANGED <<table, fs, attached>>
      BY <1>6 DEF Use!vars, UseOf, MountedDevices
<1>7. QED
  BY <1>1, <1>2, <1>3, <1>4, <1>5, <1>6
     DEF Next, Agent, Begin, ListMounts, ListFails, UmountFails,
         CheckReferences, ReadMetadata, HostPathVolume, EmptyDirFails,
         DiskVolume, Probe, DiskFails, FinishVolume, VolumesDone, Bind,
         MetadataFails, NextRun, Fault, vars, machine

(* The initial states of Volumes map to initial states of DiskUse.         *)
LEMMA UseInit == Init => Use!Init
<1> SUFFICES ASSUME Init PROVE Use!Init
    OBVIOUS
<1>1. \A d \in Devices : UseOf(d) \in {"free", "read", "write"}
      BY DEF UseOf
<1>2. QED BY <1>1 DEF Init, Use!Init, Use!TypeOK, Use!Content, Use!Use, FileSystem

(* Whatever runs do, fail to do and leave, a disk is only ever made,       *)
(* checked, opened and closed as DiskUse says.                             *)
THEOREM DisksUsed == Spec => ImplementsDiskUse
<1>1. Init => FoundAsProbed /\ Unmounting
      BY DEF Init, FoundAsProbed, BlankOrUnreadable, Unmounting
<1>2. Typed /\ Inv /\ Unmounting /\ FoundAsProbed /\ [Next]_vars
          => [Use!Next]_(Use!vars)
      BY UseStep
<1>3. QED BY <1>1, <1>2, UseInit, FoundStep, TypeStep, UnmountingStep, Invariance,
             TypeInit, PTL
          DEF Spec, ImplementsDiskUse, Use!Spec
=============================================================================

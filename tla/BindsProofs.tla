---------------------------- MODULE BindsProofs ----------------------------
(***************************************************************************)
(* Proofs about what is found at the mount points of Volumes: the layers   *)
(* stacked on a point, the volume a bind reaches, and the number of mounts *)
(* a run leaves behind.                                                    *)
(***************************************************************************)
EXTENDS VolumesProofs

----------------------------------------------------------------------------
(* The layers on a mount point are numbered without a gap on top: what is  *)
(* mounted next gets a number of its own, above all others.                *)
Layered ==
    \A p \in Points :
        /\ \A m, n \in At(p) : m.layer = n.layer => m = n
        /\ \A m \in At(p) : m.layer <= Cardinality(At(p))

NewMount(dev, p, ro) ==
    [dev |-> dev, point |-> p, ro |-> ro, layer |-> Cardinality(At(p)) + 1]

(* There are finitely many mounts on a point, and their layers are         *)
(* numbers.                                                                *)
LEMMA LayerNumbers ==
    ASSUME Typed, NEW p
    PROVE  /\ IsFiniteSet(At(p)) /\ Cardinality(At(p)) \in Nat
           /\ \A m \in At(p) : m.layer \in Nat
<1>1. IsFiniteSet(At(p))
      BY FS_Subset DEF At, Typed
<1>2. \A m \in At(p) : m.layer \in Nat
      BY DEF At, Typed, TypeOK, Mount
<1>3. QED BY <1>1, <1>2, FS_CardinalityType

(* A mount is new, is seen at its point and hides nothing elsewhere.       *)
LEMMA MountOnTop ==
    ASSUME Typed, Layered, NEW dev, NEW p \in Points, NEW ro,
           table' = Mounted(dev, p, ro)
    PROVE  /\ NewMount(dev, p, ro) \notin table
           /\ table' = table \union {NewMount(dev, p, ro)}
           /\ At(p)' = At(p) \union {NewMount(dev, p, ro)}
           /\ Top(p)' = NewMount(dev, p, ro)
           /\ \A q : q # p => At(q)' = At(q) /\ Top(q)' = Top(q)
           /\ Layered'
<1> DEFINE new == NewMount(dev, p, ro)
<1>1. /\ IsFiniteSet(At(p)) /\ Cardinality(At(p)) \in Nat
      /\ \A m \in At(p) : m.layer \in Nat
      BY LayerNumbers
<1>2. new.point = p /\ new.layer = Cardinality(At(p)) + 1
      BY DEF NewMount
<1>3. new \notin At(p)
      BY <1>1, <1>2 DEF Layered
<1>4. new \notin table
      BY <1>2, <1>3 DEF At
<1>5. table' = table \union {new}
      BY DEF Mounted, NewMount
<1> HIDE DEF new
<1>6. At(p)' = At(p) \union {new}
      BY <1>2, <1>5 DEF At
<1>7. \A q : q # p => At(q)' = At(q)
      BY <1>2, <1>5 DEF At
<1>8. Cardinality(At(p)') = Cardinality(At(p)) + 1
      BY <1>1, <1>3, <1>6, FS_AddElement
<1>9. Top(p)' = new
  <2>1. \A n \in At(p)' : n.layer <= new.layer
        BY <1>1, <1>2, <1>6 DEF Layered
  <2>2. ASSUME NEW m \in At(p)', \A n \in At(p)' : n.layer <= m.layer
        PROVE  m = new
    <3>1. new.layer <= m.layer
          BY <1>6, <2>2
    <3>2. QED BY <1>1, <1>2, <1>6, <3>1 DEF Layered
  <2>3. new \in At(p)'
        BY <1>6
  <2>4. Top(p)' = CHOOSE m \in At(p)' : \A n \in At(p)' : n.layer <= m.layer
        BY DEF Top
  <2>5. QED BY <2>1, <2>2, <2>3, <2>4
<1>10. \A q : q # p => Top(q)' = Top(q)
       BY <1>7 DEF Top
<1>11. Layered'
  <2> SUFFICES ASSUME NEW q \in Points
               PROVE  /\ \A m, n \in At(q)' : m.layer = n.layer => m = n
                      /\ \A m \in At(q)' : m.layer <= Cardinality(At(q)')
      BY DEF Layered, Points, ManagedPoints, TmpfsPoint, DiskPoint
  <2>1. CASE q # p
        BY <1>7, <2>1 DEF Layered
  <2>2. CASE q = p
    <3>1. /\ \A m, n \in At(p) : m.layer = n.layer => m = n
          /\ \A m \in At(p) : m.layer <= Cardinality(At(p))
          BY DEF Layered
    <3>2. \A m, n \in At(p)' : m.layer = n.layer => m = n
          BY <1>1, <1>2, <1>6, <3>1
    <3>3. \A m \in At(p)' : m.layer <= Cardinality(At(p)')
          BY <1>1, <1>2, <1>6, <1>8, <3>1
    <3>4. QED BY <2>2, <3>2, <3>3
  <2>3. QED BY <2>1, <2>2
<1>12. QED BY <1>4, <1>5, <1>6, <1>7, <1>9, <1>10, <1>11 DEF new

(* A umount takes the highest number away.                                 *)
LEMMA UmountLayered ==
    ASSUME Typed, Layered, Balanced, NEW m \in todo, Umount(m)
    PROVE  Layered'
<1> DEFINE top == Top(m.point)
<1>1. top \in At(m.point)
      BY TopOfTodo
<1>2. table' = table \ {top}
      BY DEF Umount
<1>3. \A n \in At(m.point) : n.layer <= top.layer
      BY <1>1, TopExists
<1>4. m.point \in Points
      BY DEF Typed, TypeOK, Mount
<1>5. /\ IsFiniteSet(At(m.point)) /\ Cardinality(At(m.point)) \in Nat
      /\ \A n \in At(m.point) : n.layer \in Nat
      BY LayerNumbers
<1> HIDE DEF top
<1>6. SUFFICES ASSUME NEW q \in Points
               PROVE  /\ \A n, k \in At(q)' : n.layer = k.layer => n = k
                      /\ \A n \in At(q)' : n.layer <= Cardinality(At(q)')
      BY DEF Layered, Points, ManagedPoints, TmpfsPoint, DiskPoint
<1>7. CASE q # m.point
  <2>1. At(q)' = At(q)
        BY <1>1, <1>2, <1>7 DEF At
  <2>2. QED BY <2>1 DEF Layered
<1>8. CASE q = m.point
  <2>1. At(q)' = At(q) \ {top}
        BY <1>2, <1>8 DEF At
  <2>2. Cardinality(At(q)') = Cardinality(At(q)) - 1
        BY <1>1, <1>5, <1>8, <2>1, FS_RemoveElement
  <2>3. \A n \in At(q)' : n.layer < top.layer
        BY <1>1, <1>3, <1>4, <1>5, <1>8, <2>1 DEF Layered
  <2>4. top.layer <= Cardinality(At(q))
        BY <1>1, <1>8 DEF Layered
  <2>5. QED BY <1>1, <1>5, <1>8, <2>1, <2>2, <2>3, <2>4 DEF Layered
<1>9. QED BY <1>7, <1>8

(* The steps that change the mount table.                                  *)
LEMMA TableSteps ==
    ASSUME [Next]_vars
    PROVE  \/ UNCHANGED table
           \/ \E m \in todo : Umount(m)
           \/ Reboot
           \/ EmptyDirVolume
           \/ MountDisk
BY DEF Next, Agent, Begin, ListMounts, ListFails, UmountFails, CheckReferences,
       ReadMetadata, HostPathVolume, EmptyDirFails, DiskVolume, Probe, Format,
       FormatKilled, Fsck, DiskFails, FinishVolume, VolumesDone, Bind,
       MetadataFails, NextRun, Fault, vars

(* Where the two steps that mount something mount it.                      *)
LEMMA MountingSteps ==
    ASSUME Typed, EmptyDirVolume \/ MountDisk
    PROVE  \/ UNCHANGED table
           \/ /\ TmpfsPoint(volume.name) \in Points
              /\ table' = Mounted(Tmpfs, TmpfsPoint(volume.name), FALSE)
           \/ /\ DiskPoint(disk) \in Points
              /\ table' = Mounted(volume.dev, DiskPoint(disk), MountReadOnly)
<1>1. pc \in Commands
      BY DEF EmptyDirVolume, MountDisk, Commands
<1>2. volume.name \in Names /\ disk \in Disks
      BY <1>1, CurrentVolume DEF Typed
<1>3. QED BY <1>2, PointsOfVolumes DEF EmptyDirVolume, MountDisk

(* A table without stacked mounts is layered.                              *)
LEMMA LayeredInit == Init => Layered
<1> SUFFICES ASSUME Init, NEW p \in Points
             PROVE  /\ \A m, n \in At(p) : m.layer = n.layer => m = n
                    /\ \A m \in At(p) : m.layer <= Cardinality(At(p))
    BY DEF Layered
<1>1. \A m, n \in At(p) : m = n
      BY VolumesAssumption DEF Init, At
<1>2. \A m \in At(p) : m.layer = 1
      BY VolumesAssumption DEF Init, At
<1>3. ASSUME NEW m \in At(p)
      PROVE  m.layer <= Cardinality(At(p))
  <2>1. At(p) = {m}
        BY <1>1, <1>3
  <2>2. Cardinality(At(p)) = 1
        BY <2>1, FS_Singleton
  <2>3. QED BY <1>2, <1>3, <2>2
<1>4. QED BY <1>1, <1>3

(* A mount comes on top and an umount takes the top away, so that no       *)
(* number in between gets lost.                                            *)
LEMMA LayeredStep == Typed /\ Unmounting /\ Layered /\ [Next]_vars => Layered'
<1> SUFFICES ASSUME Typed, Unmounting, Layered, [Next]_vars PROVE Layered'
    OBVIOUS
<1>1. CASE UNCHANGED table
      BY <1>1 DEF Layered, At
<1>2. ASSUME NEW m \in todo, Umount(m) PROVE Layered'
      BY <1>2, UmountLayered DEF Unmounting, Umount
<1>3. CASE Reboot
      BY <1>3 DEF Reboot, Layered, At
<1>4. CASE EmptyDirVolume \/ MountDisk
      BY <1>1, <1>4, MountingSteps, MountOnTop
<1>5. QED BY <1>1, <1>2, <1>3, <1>4, TableSteps

----------------------------------------------------------------------------
(* What is found at the paths of the volumes processed so far.             *)
Sole(v) == Cardinality(v.defs) = 1

(* A volume with one definition has one of the three.                      *)
LEMMA SoleDefinition ==
    ASSUME NEW v \in Volume, Sole(v)
    PROVE  \/ v.defs = {"hostPath"}
           \/ v.defs = {"emptyDir"}
           \/ v.defs = {"disk"}
<1>1. v.defs \subseteq {"hostPath", "emptyDir", "disk"}
      BY DEF Volume
<1>2. IsFiniteSet({"hostPath", "emptyDir", "disk"})
  <2>1. IsFiniteSet({"hostPath"})
        BY FS_Singleton
  <2>2. IsFiniteSet({"hostPath"} \union {"emptyDir"})
        BY <2>1, FS_AddElement
  <2>3. IsFiniteSet({"hostPath"} \union {"emptyDir"} \union {"disk"})
        BY <2>2, FS_AddElement
  <2>4. QED BY <2>3
<1>3. IsFiniteSet(v.defs)
      BY <1>1, <1>2, FS_Subset
<1>4. PICK x : v.defs = {x}
      BY <1>3, FS_Singleton DEF Sole
<1>5. QED BY <1>1, <1>4

PointOf(v) ==
    IF v.defs = {"hostPath"} THEN HostDirectory
    ELSE IF v.defs = {"emptyDir"} THEN TmpfsPoint(v.name)
    ELSE DiskPoint(v.dev[1])

Found(v, target) == target.point = PointOf(v) /\ Reaches(request, v, target)

EarlierReach ==
    /\ pc \in InLoop \union {"bound"}
    /\ DistinctTargets(request)
    /\ pc \in Commands \union {"finish"} => Sole(volume)
    => \A j \in DOMAIN request.volumes :
           j < index =>
               /\ Sole(request.volumes[j])
               /\ Found(request.volumes[j], paths[request.volumes[j].name])

(* The definition that the current volume has, if it is its only one, has  *)
(* been handled.                                                           *)
Handled ==
    \/ pc = "finish"
    \/ pc = "disk" /\ volume.defs # {"disk"}
    \/ pc = "emptyDir" /\ volume.defs = {"hostPath"}

CurrentReaches ==
    pc \in Commands \union {"finish"} /\ Sole(volume) =>
        /\ pc \in OnDevice => volume.defs = {"disk"}
        /\ Handled /\ result # Failed => Found(volume, result)

LoopEnds == pc \in {"bind", "bound"} => index > Len(request.volumes)

Reaching == EarlierReach /\ CurrentReaches /\ LoopEnds

(* Steps that mount nothing.                                               *)
LEMMA FoundSame ==
    ASSUME UNCHANGED <<table, request>>
    PROVE  \A v, t : Found(v, t)' = Found(v, t)
BY DEF Found, PointOf, Reaches, At, Top, WantsReadWrite

(* What a result leads to does not change with the table and the volume    *)
(* unchanged.                                                              *)
LEMMA FoundCarried ==
    ASSUME UNCHANGED <<table, request, result>>, volume' = volume,
           Found(volume, result)
    PROVE  Found(volume, result)'
<1>1. At(result.point)' = At(result.point)
      BY DEF At
<1>2. Top(result.point)' = Top(result.point)
      BY <1>1 DEF Top
<1>3. PointOf(volume)' = PointOf(volume)
      BY DEF PointOf
<1>4. Reaches(request, volume, result)'
      BY <1>1, <1>2 DEF Found, Reaches, WantsReadWrite
<1>5. QED BY <1>3, <1>4 DEF Found

(* Mounts on other points.                                                 *)
LEMMA FoundBeside ==
    ASSUME UNCHANGED request, NEW v, NEW t, Found(v, t), NEW p, PointOf(v) # p,
           \A q : q # p => At(q)' = At(q) /\ Top(q)' = Top(q)
    PROVE  Found(v, t)'
BY DEF Found, Reaches, WantsReadWrite

(* Two volumes of one declaration that are told apart have two points.     *)
LEMMA TwoPoints ==
    ASSUME NEW r \in Request, DistinctTargets(r), NEW i \in DOMAIN r.volumes,
           NEW j \in DOMAIN r.volumes, i # j, Sole(r.volumes[i]), Sole(r.volumes[j])
    PROVE  /\ r.volumes[i].name # r.volumes[j].name
           /\ \/ PointOf(r.volumes[i]) # PointOf(r.volumes[j])
              \/ PointOf(r.volumes[i]) = HostDirectory
<1>1. r.volumes[i] \in Volume /\ r.volumes[j] \in Volume
      BY DEF Request
<1>2. r.volumes[i].name # r.volumes[j].name
      BY DEF DistinctTargets
<1>3. r.volumes[i].defs = {"disk"} /\ r.volumes[j].defs = {"disk"}
          => r.volumes[i].dev[1] # r.volumes[j].dev[1]
      BY DEF DistinctTargets
<1>4. QED
  BY <1>1, <1>2, <1>3, SoleDefinition
     DEF PointOf, HostDirectory, TmpfsPoint, DiskPoint

(* What one step of the handlers of a volume does to those before it.      *)
LEMMA EarlierStay ==
    ASSUME Typed, EarlierReach, pc \in Commands \union {"volume", "finish"},
           pc' \in Commands \union {"finish"},
           UNCHANGED <<request, index, paths>>,
           DistinctTargets(request) /\ Sole(volume) =>
               \A j \in DOMAIN request.volumes :
                   j < index /\ Sole(request.volumes[j]) =>
                       \A t : Found(request.volumes[j], t) =>
                                Found(request.volumes[j], t)'
    PROVE  EarlierReach'
<1>1. volume' = volume /\ DistinctTargets(request)' = DistinctTargets(request)
      BY DEF volume
<1> SUFFICES ASSUME DistinctTargets(request), Sole(volume),
                    NEW j \in DOMAIN request.volumes, j < index
             PROVE  /\ Sole(request.volumes[j])
                    /\ Found(request.volumes[j], paths[request.volumes[j].name])'
    BY <1>1 DEF EarlierReach, Sole
<1>2. QED BY DEF EarlierReach, InLoop

(* A mount for one volume is on no other one's point.                      *)
LEMMA MountBeside ==
    ASSUME Typed, Layered, pc \in Commands, UNCHANGED request,
           DistinctTargets(request), Sole(volume), volume.defs # {"hostPath"},
           NEW dev, NEW ro, PointOf(volume) \in Points,
           table' = Mounted(dev, PointOf(volume), ro),
           NEW j \in DOMAIN request.volumes, j < index,
           Sole(request.volumes[j]), NEW t, Found(request.volumes[j], t)
    PROVE  Found(request.volumes[j], t)'
<1>1. request \in Request /\ index \in DOMAIN request.volumes /\ index # j
  <2>1. request \in Request /\ index \in DOMAIN request.volumes
        BY CurrentVolume DEF Typed
  <2>2. DOMAIN request.volumes \subseteq Nat
        BY <2>1 DEF Request
  <2>3. QED BY <2>1, <2>2
<1>2. PointOf(volume) # HostDirectory
      BY DEF PointOf, TmpfsPoint, DiskPoint, HostDirectory
<1>3. PointOf(request.volumes[j]) # PointOf(volume)
      BY <1>1, <1>2, TwoPoints DEF volume
<1>4. \A q : q # PointOf(volume) => At(q)' = At(q) /\ Top(q)' = Top(q)
      BY MountOnTop
<1>5. QED BY <1>3, <1>4, FoundBeside

(* What the handlers of the current volume come to.                        *)
LEMMA TmpfsFound ==
    ASSUME Typed, Layered, pc = "emptyDir", UNCHANGED <<request, index>>,
           volume.defs = {"emptyDir"},
           table' = Mounted(Tmpfs, TmpfsPoint(volume.name), FALSE),
           result' = [point |-> TmpfsPoint(volume.name), ro |-> FALSE]
    PROVE  Found(volume, result)'
<1>1. PICK p \in Points : p = TmpfsPoint(volume.name)
      BY CurrentVolume, PointsOfVolumes DEF Typed, Commands
<1>2. /\ At(p)' = At(p) \union {NewMount(Tmpfs, p, FALSE)}
      /\ Top(p)' = NewMount(Tmpfs, p, FALSE)
      BY <1>1, MountOnTop
<1>3. At(p)' # {} /\ Top(p)'.dev = Tmpfs
      BY <1>2 DEF NewMount
<1>4. result'.point = p /\ volume' = volume /\ PointOf(volume) = p
      BY <1>1 DEF volume, PointOf
<1>5. volume'.defs = {"emptyDir"} /\ PointOf(volume)' = p
      BY <1>1, <1>4 DEF PointOf
<1>6. Reaches(request, volume, result)'
      BY <1>3, <1>4, <1>5 DEF Reaches
<1>7. QED BY <1>4, <1>5, <1>6 DEF Found

(* The disk that has just been mounted is seen at its point, as it was     *)
(* mounted.                                                                *)
LEMMA DiskFound ==
    ASSUME Typed, Layered, AttachedAsNeeded, pc = "mount",
           UNCHANGED <<request, index>>, volume.defs = {"disk"},
           table' = Mounted(volume.dev, DiskPoint(disk), MountReadOnly),
           result' = [point |-> DiskPoint(disk), ro |-> MountReadOnly]
    PROVE  Found(volume, result)'
<1>1. PICK p \in Points : p = DiskPoint(disk)
      BY CurrentVolume, PointsOfVolumes DEF Typed, Commands
<1>2. /\ At(p)' = At(p) \union {NewMount(volume.dev, p, MountReadOnly)}
      /\ Top(p)' = NewMount(volume.dev, p, MountReadOnly)
      BY <1>1, MountOnTop
<1>3. /\ At(p)' # {} /\ Top(p)'.dev = volume.dev
      /\ wantsRW => ~Top(p)'.ro
  <2>1. At(p)' # {} /\ Top(p)'.dev = volume.dev /\ Top(p)'.ro = MountReadOnly
        BY <1>2 DEF NewMount
  <2>2. wantsRW => ~MountReadOnly
        BY DEF MountReadOnly, AttachedAsNeeded
  <2>3. QED BY <2>1, <2>2, Zenon
<1>4. result'.point = p /\ volume' = volume /\ PointOf(volume) = p
      BY <1>1 DEF volume, PointOf, disk
<1>5. volume'.defs = {"disk"} /\ PointOf(volume)' = p
      BY <1>1, <1>4 DEF PointOf, disk
<1>6. WantsReadWrite(request, volume.name)' => wantsRW
      BY <1>4 DEF wantsRW, WantsReadWrite
<1>7. Reaches(request, volume, result)'
      BY <1>3, <1>4, <1>5, <1>6 DEF Reaches
<1>8. QED BY <1>4, <1>5, <1>7 DEF Found

(* A step of the handlers that mounts nothing: the current volume has no   *)
(* new target, or the one it had.                                          *)
LEMMA HandlerStep ==
    ASSUME Typed, Reaching, pc \in Commands, pc' \in Commands \union {"finish"},
           UNCHANGED <<table, request, index, paths>>,
           Sole(volume) =>
               /\ pc' \in OnDevice => volume.defs = {"disk"}
               /\ Handled' => result' = Failed \/ (Handled /\ result' = result)
    PROVE  Reaching'
<1>1. volume' = volume
      BY DEF volume
<1>2. \A v, t : Found(v, t)' = Found(v, t)
      BY FoundSame
<1>3. EarlierReach'
      BY <1>2, EarlierStay DEF Reaching
<1>4. CurrentReaches'
  <2> SUFFICES ASSUME Sole(volume), Handled', result' # Failed
               PROVE  Found(volume, result)'
      BY <1>1 DEF CurrentReaches, Sole
  <2>1. Handled /\ result' = result
        OBVIOUS
  <2>2. Found(volume, result)
        BY <2>1 DEF Reaching, CurrentReaches
  <2>3. QED BY <1>1, <2>1, <2>2, FoundCarried
<1>5. LoopEnds'
      BY DEF LoopEnds, Commands
<1>6. QED BY <1>3, <1>4, <1>5 DEF Reaching

(* Every step of the loop keeps the volumes before the index reached at    *)
(* their paths.                                                            *)
LEMMA ReachingStep ==
    ASSUME Typed, Inv, Layered, Reaching, [Next]_vars
    PROVE  Reaching'
<1> USE DEF machine, run
<1>1. CASE pc' \notin InLoop \union {"bound"}
      BY <1>1 DEF Reaching, EarlierReach, CurrentReaches, LoopEnds, InLoop
<1>2. CASE ReadMetadata /\ pc' = "volume"
  <2>1. request' \in Request /\ index' = 1
        BY <1>2, VolumesAssumption DEF ReadMetadata, Typed, TypeOK
  <2>2. \A j \in DOMAIN request'.volumes : ~(j < index')
        BY <2>1 DEF Request
  <2>3. QED
    BY <1>2, <2>2 DEF Reaching, EarlierReach, CurrentReaches, LoopEnds, Commands
<1>3. CASE HostPathVolume
  <2>1. EarlierReach'
        BY <1>3, FoundSame, EarlierStay
           DEF HostPathVolume, Reaching, Commands
  <2>2. CurrentReaches'
    <3> SUFFICES ASSUME Handled', result' # Failed
                 PROVE  Found(volume, result)'
        BY <1>3 DEF CurrentReaches, HostPathVolume, OnDevice
    <3>1. volume' = volume /\ volume.defs = {"hostPath"}
          BY <1>3 DEF HostPathVolume, Handled, volume
    <3>2. result'.point = HostDirectory
          BY <1>3, <3>1 DEF HostPathVolume
    <3>3. PointOf(volume)' = HostDirectory
          BY <3>1 DEF PointOf
    <3>4. QED BY <3>1, <3>2, <3>3 DEF Found, Reaches
  <2>3. QED BY <1>3, <2>1, <2>2 DEF HostPathVolume, Reaching, LoopEnds
<1>4. CASE EmptyDirVolume /\ "emptyDir" \in volume.defs
  <2>1. pc = "emptyDir" /\ volume \in Volume /\ volume' = volume
        BY <1>4, CurrentVolume DEF EmptyDirVolume, Typed, Commands, volume
  <2>2. Sole(volume) => volume.defs = {"emptyDir"}
        BY <1>4, <2>1, SoleDefinition
  <2>3. TmpfsPoint(volume.name) \in Points
        BY <2>1, CurrentVolume, PointsOfVolumes DEF Typed, Commands
  <2>4. Sole(volume) => PointOf(volume) = TmpfsPoint(volume.name)
        BY <2>2 DEF PointOf
  <2>5. EarlierReach'
    <3>1. DistinctTargets(request) /\ Sole(volume) =>
             \A j \in DOMAIN request.volumes :
                 j < index /\ Sole(request.volumes[j]) =>
                     \A t : Found(request.volumes[j], t) =>
                              Found(request.volumes[j], t)'
          BY <1>4, <2>1, <2>2, <2>3, <2>4, MountBeside
             DEF EmptyDirVolume, Commands
    <3>2. QED
      BY <1>4, <3>1, EarlierStay DEF EmptyDirVolume, Reaching, Commands
  <2>6. CurrentReaches'
    <3>1. Sole(volume) => Found(volume, result)'
          BY <1>4, <2>1, <2>2, TmpfsFound DEF EmptyDirVolume
    <3>2. QED BY <1>4, <2>1, <3>1 DEF EmptyDirVolume, CurrentReaches, OnDevice, Sole
  <2>7. QED BY <1>4, <2>5, <2>6 DEF EmptyDirVolume, Reaching, LoopEnds
<1>5. CASE EmptyDirVolume /\ "emptyDir" \notin volume.defs
  <2>1. volume \in Volume /\ volume' = volume
        BY <1>5, CurrentVolume DEF EmptyDirVolume, Typed, Commands, volume
  <2>2. Sole(volume) /\ Handled' => Handled
        BY <1>5, <2>1, SoleDefinition DEF EmptyDirVolume, Handled
  <2>3. QED
    BY <1>5, <2>2, HandlerStep DEF EmptyDirVolume, Commands, OnDevice
<1>6. CASE EmptyDirFails
      BY <1>6, HandlerStep DEF EmptyDirFails, Commands, OnDevice
<1>7. CASE DiskVolume
  <2>1. volume \in Volume /\ volume' = volume
        BY <1>7, CurrentVolume DEF DiskVolume, Typed, Commands, volume
  <2>2. Sole(volume) /\ "disk" \in volume.defs => volume.defs = {"disk"}
        BY <2>1, SoleDefinition
  <2>3. QED
    BY <1>7, <2>1, <2>2, HandlerStep
       DEF DiskVolume, AfterChecks, Commands, OnDevice, Handled
<1>8. CASE Probe \/ Format \/ Fsck \/ (DiskFails /\ pc' = "finish")
  <2>1. pc' \in OnDevice => pc \in OnDevice
        BY <1>8 DEF Probe, Format, Fsck, DiskFails, OnDevice
  <2>2. Sole(volume) /\ pc' \in OnDevice => volume.defs = {"disk"}
        BY <2>1 DEF Reaching, CurrentReaches, OnDevice, Commands
  <2>3. Handled' => result' = Failed
        BY <1>8
           DEF Probe, AfterProbe, Format, Fsck, DiskFails, Handled
  <2>4. QED
    BY <1>8, <2>2, <2>3, HandlerStep
       DEF Probe, AfterProbe, Format, Fsck, DiskFails, Commands
<1>9. CASE MountDisk
  <2>1. pc = "mount" /\ volume \in Volume /\ volume' = volume
        BY <1>9, CurrentVolume DEF MountDisk, Typed, Commands, volume
  <2>2. Sole(volume) => volume.defs = {"disk"}
        BY <2>1 DEF Reaching, CurrentReaches, OnDevice, Commands
  <2>3. DiskPoint(disk) \in Points
        BY <2>1, CurrentVolume, PointsOfVolumes DEF Typed, Commands
  <2>4. Sole(volume) => PointOf(volume) = DiskPoint(disk)
        BY <2>2 DEF PointOf, disk
  <2>5. EarlierReach'
    <3>1. DistinctTargets(request) /\ Sole(volume) =>
             \A j \in DOMAIN request.volumes :
                 j < index /\ Sole(request.volumes[j]) =>
                     \A t : Found(request.volumes[j], t) =>
                              Found(request.volumes[j], t)'
          BY <1>9, <2>1, <2>2, <2>3, <2>4, MountBeside DEF MountDisk, Commands
    <3>2. QED
      BY <1>9, <3>1, EarlierStay DEF MountDisk, Reaching, Commands
  <2>6. CurrentReaches'
    <3>1. AttachedAsNeeded
          BY <2>1 DEF Inv, DiskIdle, OnDevice
    <3>2. Sole(volume) => Found(volume, result)'
          BY <1>9, <2>1, <2>2, <3>1, DiskFound DEF MountDisk
    <3>3. QED BY <1>9, <2>1, <3>2 DEF MountDisk, CurrentReaches, OnDevice, Sole
  <2>7. QED BY <1>9, <2>5, <2>6 DEF MountDisk, Reaching, LoopEnds
<1>10. CASE FinishVolume /\ Processed
  <2>1. pc = "finish" /\ request \in Request /\ index \in DOMAIN request.volumes
        BY <1>10, CurrentVolume DEF FinishVolume, Typed
  <2>2. Sole(volume) /\ Found(volume, result)
        BY <1>10, <2>1
           DEF Reaching, CurrentReaches, Handled, Processed, Sole
  <2>3. EarlierReach'
    <3> SUFFICES ASSUME DistinctTargets(request),
                        NEW j \in DOMAIN request.volumes, j < index + 1
                 PROVE  /\ Sole(request.volumes[j])
                        /\ Found(request.volumes[j], paths[request.volumes[j].name])'
        BY <1>10 DEF FinishVolume, EarlierReach, Sole
    <3>1. paths' = [paths EXCEPT ![volume.name] = result] /\ volume.name \in Names
          BY <1>10, <2>1, CurrentVolume DEF FinishVolume, Typed
    <3>2. /\ paths \in [Names -> Target \union {NoTarget}]
          /\ request.volumes[j].name \in Names
      <4>1. request.volumes[j] \in Volume
            BY <2>1 DEF Request
      <4>2. QED BY <4>1 DEF Typed, TypeOK, Volume
    <3>3. CASE j = index
      <4>1. paths'[request.volumes[j].name] = result
            BY <3>1, <3>2, <3>3 DEF volume
      <4>2. QED BY <1>10, <2>2, <3>3, <4>1, FoundSame DEF FinishVolume, volume
    <3>4. CASE j # index
      <4>1. j < index
        <5>1. DOMAIN request.volumes \subseteq Nat
              BY <2>1 DEF Request
        <5>2. QED BY <2>1, <3>4, <5>1
      <4>2. paths'[request.volumes[j].name] = paths[request.volumes[j].name]
            BY <2>1, <3>1, <3>2, <3>4 DEF volume, DistinctTargets
      <4>3. /\ Sole(request.volumes[j])
            /\ Found(request.volumes[j], paths[request.volumes[j].name])
            BY <2>1, <2>2, <4>1 DEF Reaching, EarlierReach, InLoop
      <4>4. QED BY <1>10, <4>2, <4>3, FoundSame DEF FinishVolume
    <3>5. QED BY <3>3, <3>4
  <2>4. QED
    BY <1>10, <2>3
       DEF FinishVolume, Reaching, CurrentReaches, LoopEnds, Commands
<1>11. CASE VolumesDone \/ (Bind /\ pc' = "bound")
  <2>1. EarlierReach'
        BY <1>11, FoundSame
           DEF VolumesDone, Bind, Reaching, EarlierReach, InLoop, Commands
  <2>2. LoopEnds'
        BY <1>11 DEF VolumesDone, Bind, Reaching, LoopEnds
  <2>3. QED
    BY <1>11, <2>1, <2>2
       DEF VolumesDone, Bind, Reaching, CurrentReaches, Commands
<1>12. CASE UNCHANGED <<table, pc, run>>
  <2>1. volume' = volume
        BY <1>12 DEF volume
  <2>2. EarlierReach' /\ LoopEnds'
        BY <1>12, <2>1, FoundSame DEF Reaching, EarlierReach, Sole, LoopEnds
  <2>3. CurrentReaches'
        BY <1>12, <2>1, FoundCarried DEF Reaching, CurrentReaches, Handled, Sole
  <2>4. QED BY <2>2, <2>3 DEF Reaching
<1>13. QED
  BY <1>1, <1>2, <1>3, <1>4, <1>5, <1>6, <1>7, <1>8, <1>9, <1>10, <1>11, <1>12
     DEF Next, Agent, Begin, ListMounts, ListFails, AfterUmount, Umount,
         UmountFails, CheckReferences, ReadMetadata, DiskFails, FinishVolume,
         Bind, MetadataFails, NextRun, FormatKilled, Reboot, Fault, InLoop,
         Commands, vars

(* What is proved of every reachable state so far.                         *)
Settled == Typed /\ Inv /\ Unmounting /\ Layered /\ Reaching

(* What the proofs about binds start from holds in every state.            *)
LEMMA SettledAlways == Spec => []Settled
<1>1. Init => Settled
  <2>1. Init => Unmounting /\ Reaching
        BY DEF Init, Unmounting, Reaching, EarlierReach, CurrentReaches,
               LoopEnds, InLoop, Commands
  <2>2. QED BY <2>1, TypeInit, InvInit, LayeredInit DEF Settled
<1>2. Settled /\ [Next]_vars => Settled'
      BY TypeStep, InvStep, UnmountingStep, LayeredStep, ReachingStep DEF Settled
<1>3. QED BY <1>1, <1>2, PTL DEF Spec

(* The binds that docker is given lead every volume of the declaration to  *)
(* itself, on top of whatever failed umounts have left there, and to no    *)
(* other one.                                                              *)
THEOREM BindsReach == Spec => []BindsReachTheirVolumes
<1>1. Settled => BindsReachTheirVolumes
  <2> SUFFICES ASSUME Settled, pc = "bound", DistinctTargets(request),
                      NEW i \in DOMAIN request.volumes
               PROVE  LET target == paths[request.volumes[i].name]
                      IN  /\ Reaches(request, request.volumes[i], target)
                          /\ \A j \in DOMAIN request.volumes \ {i} :
                                 target.point # HostDirectory =>
                                     paths[request.volumes[j].name].point # target.point
      BY DEF BindsReachTheirVolumes
  <2>1. request \in Request
        BY VolumesAssumption DEF Settled, Typed, TypeOK
  <2>2. \A j \in DOMAIN request.volumes : j < index
        BY <2>1 DEF Settled, Typed, TypeOK, Reaching, LoopEnds, Request
  <2>3. \A j \in DOMAIN request.volumes :
            /\ Sole(request.volumes[j])
            /\ Found(request.volumes[j], paths[request.volumes[j].name])
        BY <2>2 DEF Settled, Reaching, EarlierReach, InLoop, Commands
  <2>4. Reaches(request, request.volumes[i], paths[request.volumes[i].name])
        BY <2>3 DEF Found
  <2>5. ASSUME NEW j \in DOMAIN request.volumes, j # i,
               paths[request.volumes[i].name].point # HostDirectory
        PROVE  paths[request.volumes[j].name].point #
                   paths[request.volumes[i].name].point
        BY <2>1, <2>3, <2>5, TwoPoints DEF Found
  <2>6. QED BY <2>4, <2>5
<1>2. QED BY <1>1, SettledAlways, PTL

----------------------------------------------------------------------------
(* Where the path of a name comes from: from a volume of the declaration   *)
(* with that name.                                                         *)
PointFor(r, name, point) ==
    \E k \in DOMAIN r.volumes :
        /\ r.volumes[k] \in Volume /\ r.volumes[k].name = name
        /\ Sole(r.volumes[k])
        /\ point = PointOf(r.volumes[k])

PathsOrigin ==
    \A n \in Names : paths[n] # NoTarget => PointFor(request, n, paths[n].point)

(* A path that is kept is the point of the volume just finished.           *)
LEMMA OriginStep == Settled /\ PathsOrigin /\ [Next]_vars => PathsOrigin'
<1> SUFFICES ASSUME Settled, PathsOrigin, [Next]_vars PROVE PathsOrigin'
    OBVIOUS
<1>1. CASE FinishVolume /\ Processed
  <2>1. /\ pc = "finish" /\ request' = request
        /\ paths' = [paths EXCEPT ![volume.name] = result]
        BY <1>1 DEF FinishVolume
  <2>2. volume \in Volume /\ index \in DOMAIN request.volumes
        BY <2>1, CurrentVolume DEF Settled, Typed
  <2>3. Sole(volume) /\ result.point = PointOf(volume)
        BY <1>1, <2>1 DEF Processed, Sole, Settled, Reaching, CurrentReaches,
           Handled, Found
  <2>4. ASSUME NEW n \in Names, paths'[n] # NoTarget
        PROVE  PointFor(request, n, paths'[n].point)
    <3>1. CASE n = volume.name
      <4>1. paths'[n] = result
            BY <2>1, <3>1 DEF Settled, Typed, TypeOK
      <4>2. QED BY <2>2, <2>3, <3>1, <4>1 DEF PointFor, volume
    <3>2. CASE n # volume.name
      <4>1. paths'[n] = paths[n]
            BY <2>1, <3>2 DEF Settled, Typed, TypeOK
      <4>2. paths[n] # NoTarget
            BY <2>4, <4>1
      <4>3. QED BY <4>1, <4>2 DEF PathsOrigin
    <3>3. QED BY <3>1, <3>2
  <2>5. QED BY <2>1, <2>4 DEF PathsOrigin
<1>2. CASE Forget
      BY <1>2 DEF Forget, PathsOrigin
<1>3. CASE UNCHANGED <<request, paths>>
      BY <1>3 DEF PathsOrigin
<1>4. QED
  BY <1>1, <1>2, <1>3
     DEF Next, Agent, Begin, ListMounts, ListFails, Umount, UmountFails,
         CheckReferences, ReadMetadata, HostPathVolume, EmptyDirVolume,
         EmptyDirFails, DiskVolume, Probe, Format, FormatKilled, Fsck,
         MountDisk, DiskFails, FinishVolume, VolumesDone, Bind, MetadataFails,
         NextRun, Reboot, Fault, vars, run

(* Volumes have mount points of their own when no declaration uses two     *)
(* partitions of one disk, or one device under two names, which the run    *)
(* mount_paths shows to be needed; a name that is declared twice does no   *)
(* harm here.                                                              *)
THEOREM OnePointPerVolume ==
    ASSUME \A r \in Requests : \A i, j \in DOMAIN r.volumes :
               /\ r.volumes[i].name # r.volumes[j].name
               /\ r.volumes[i].defs = {"disk"} /\ r.volumes[j].defs = {"disk"}
               => r.volumes[i].dev[1] # r.volumes[j].dev[1]
    PROVE  Spec => []MountPointPerVolume
<1>1. ASSUME Settled, PathsOrigin PROVE MountPointPerVolume
  <2> SUFFICES ASSUME pc = "bound",
                      NEW m \in Names, paths[m] # NoTarget,
                      NEW n \in Names, paths[n] # NoTarget,
                      m # n, paths[m].point # HostDirectory
               PROVE  paths[m].point # paths[n].point
      BY DEF MountPointPerVolume
  <2>1. request \in Requests
        BY <1>1 DEF Settled, Typed, TypeOK
  <2>2. PICK i \in DOMAIN request.volumes :
            /\ request.volumes[i] \in Volume /\ request.volumes[i].name = m
            /\ Sole(request.volumes[i])
            /\ paths[m].point = PointOf(request.volumes[i])
        BY <1>1 DEF PathsOrigin, PointFor
  <2>3. PICK j \in DOMAIN request.volumes :
            /\ request.volumes[j] \in Volume /\ request.volumes[j].name = n
            /\ Sole(request.volumes[j])
            /\ paths[n].point = PointOf(request.volumes[j])
        BY <1>1 DEF PathsOrigin, PointFor
  <2>4. request.volumes[i].defs = {"disk"} /\ request.volumes[j].defs = {"disk"}
            => request.volumes[i].dev[1] # request.volumes[j].dev[1]
        BY <2>1, <2>2, <2>3
  <2>5. QED
    BY <2>2, <2>3, <2>4, SoleDefinition
       DEF PointOf, HostDirectory, TmpfsPoint, DiskPoint
<1>2. Init => PathsOrigin
      BY DEF Init, PathsOrigin
<1>3. QED BY <1>1, <1>2, OriginStep, SettledAlways, PTL DEF Spec

----------------------------------------------------------------------------
(* How many mounts there are in the managed directory.                     *)
Managed == {m \in table : m.point.dir = "managed"}

Needing(k) ==
    {i \in DOMAIN request.volumes :
        i < k /\ request.volumes[i].defs # {"hostPath"}}

(* The run may still succeed ...                                           *)
Promising ==
    pc \in Commands \union {"finish"} =>
        /\ Sole(volume)
        /\ pc = "finish" \/ (pc = "disk" /\ volume.defs = {"emptyDir"})
               => result # Failed

(* ... and the current volume has its mount.                               *)
HasMount ==
    \/ pc = "finish" /\ volume.defs # {"hostPath"}
    \/ pc = "disk" /\ volume.defs = {"emptyDir"}

Counted ==
    left = {} =>
        /\ pc = "metadata" => Managed = {}
        /\ pc \in InLoop \union {"bound"} /\ Promising =>
               Cardinality(Managed) =
                   Cardinality(Needing(index)) + (IF HasMount THEN 1 ELSE 0)

(* A mount in the managed directory adds one to those that are there.      *)
LEMMA ManagedGrows ==
    ASSUME Typed, Layered, NEW dev, NEW p \in Points, NEW ro, p.dir = "managed",
           table' = Mounted(dev, p, ro)
    PROVE  Cardinality(Managed') = Cardinality(Managed) + 1
<1>1. NewMount(dev, p, ro) \notin table /\ table' = table \union {NewMount(dev, p, ro)}
      BY MountOnTop
<1>2. NewMount(dev, p, ro).point = p
      BY DEF NewMount
<1>3. Managed' = Managed \union {NewMount(dev, p, ro)}
      BY <1>1, <1>2 DEF Managed
<1>4. NewMount(dev, p, ro) \notin Managed /\ IsFiniteSet(Managed)
      BY <1>1, FS_Subset DEF Managed, Typed
<1>5. QED BY <1>3, <1>4, FS_AddElement

(* The volumes that need a mount are finitely many.                        *)
LEMMA NeedingNumber ==
    ASSUME NEW r \in Request, request = r, NEW k \in Nat
    PROVE  IsFiniteSet(Needing(k)) /\ Cardinality(Needing(k)) \in Nat
<1>1. Needing(k) \subseteq 1..Len(r.volumes) /\ Len(r.volumes) \in Nat
      BY DEF Needing, Request
<1>2. IsFiniteSet(1..Len(r.volumes))
      BY <1>1, FS_Interval
<1>3. IsFiniteSet(Needing(k))
      BY <1>1, <1>2, FS_Subset
<1>4. QED BY <1>3, FS_CardinalityType

(* One volume more.                                                        *)
LEMMA NeedingGrows ==
    ASSUME request \in Request, index \in DOMAIN request.volumes
    PROVE  Cardinality(Needing(index + 1)) = Cardinality(Needing(index)) +
               (IF volume.defs # {"hostPath"} THEN 1 ELSE 0)
<1>1. DOMAIN request.volumes \subseteq Nat
      BY DEF Request
<1>2. IsFiniteSet(Needing(index)) /\ Cardinality(Needing(index)) \in Nat
      BY <1>1, NeedingNumber
<1>3. index \notin Needing(index)
      BY <1>1 DEF Needing
<1>4. CASE volume.defs # {"hostPath"}
  <2>1. Needing(index + 1) = Needing(index) \union {index}
        BY <1>1, <1>4 DEF Needing, volume
  <2>2. QED BY <1>2, <1>3, <1>4, <2>1, FS_AddElement
<1>5. CASE volume.defs = {"hostPath"}
  <2>1. Needing(index + 1) = Needing(index)
        BY <1>1, <1>5 DEF Needing, volume
  <2>2. QED BY <1>2, <1>5, <2>1
<1>6. QED BY <1>4, <1>5

(* A step inside the loop that mounts nothing.                             *)
LEMMA CountKept ==
    ASSUME Counted, pc \in InLoop, pc' \in InLoop \union {"bound"},
           UNCHANGED <<table, request, index, left>>,
           Promising' => Promising /\ (HasMount' <=> HasMount)
    PROVE  Counted'
<1>1. Managed' = Managed /\ Needing(index)' = Needing(index)
      BY DEF Managed, Needing
<1>2. pc' # "metadata"
      BY DEF InLoop, Commands
<1>3. QED BY <1>1, <1>2 DEF Counted

(* A step that mounts the current volume.                                  *)
LEMMA CountOneMore ==
    ASSUME Typed, Layered, Counted, pc \in Commands, Promising, ~HasMount,
           HasMount', pc' \in Commands \union {"finish"},
           UNCHANGED <<request, index, left>>,
           Cardinality(Managed') = Cardinality(Managed) + 1
    PROVE  Counted'
<1>1. Needing(index)' = Needing(index)
      BY DEF Needing
<1>2. request \in Request /\ index \in Nat
      BY CurrentVolume DEF Typed, TypeOK
<1>3. Cardinality(Needing(index)) \in Nat
      BY <1>2, NeedingNumber
<1>4. QED BY <1>1, <1>3 DEF Counted, InLoop, Commands

(* Volumes done and mounts in the managed directory grow together.         *)
LEMMA CountedStep ==
    ASSUME Settled, Counted, [Next]_vars
    PROVE  Counted'
<1> USE DEF machine, run, Settled
<1>1. CASE pc' \notin InLoop \union {"bound", "metadata"}
      BY <1>1 DEF Counted
<1>2. CASE CheckReferences /\ pc' = "metadata"
  <2>1. \A m \in table : m.point.dir = "managed" => m.point \in left
        BY <1>2, NothingToTreat DEF CheckReferences, Unmounting
  <2>2. QED BY <1>2, <2>1 DEF CheckReferences, Counted, Managed, InLoop, Commands
<1>3. CASE ReadMetadata /\ pc' = "volume"
  <2>1. request \in Request /\ index' = 1 /\ request' = request
        BY <1>3, VolumesAssumption DEF ReadMetadata, Typed, TypeOK
  <2>2. Needing(index)' = {}
        BY <2>1 DEF Needing, Request
  <2>3. left' = {} => Managed' = {}
        BY <1>3 DEF ReadMetadata, Counted, Managed
  <2>4. ~HasMount'
        BY <1>3 DEF HasMount
  <2>5. QED BY <1>3, <2>2, <2>3, <2>4, FS_EmptySet DEF Counted
<1>4. CASE HostPathVolume
      BY <1>4, CountKept
         DEF HostPathVolume, Promising, HasMount, InLoop, Commands
<1>5. CASE EmptyDirVolume
  <2>1. /\ pc = "emptyDir" /\ pc' = "disk" /\ volume \in Volume
        /\ volume' = volume /\ UNCHANGED <<request, index, left>>
        BY <1>5, CurrentVolume DEF EmptyDirVolume, Typed, Commands, volume
  <2>2. CASE ~Promising'
        BY <2>1, <2>2 DEF Counted
  <2>3. CASE Promising' /\ "emptyDir" \in volume.defs
    <3>1. volume.defs = {"emptyDir"}
          BY <2>1, <2>3, SoleDefinition DEF Promising, Sole, Commands
    <3>2. Promising /\ ~HasMount /\ HasMount'
          BY <2>1, <2>3, <3>1 DEF Promising, HasMount, Sole, Commands
    <3>3. PICK p \in Points : p = TmpfsPoint(volume.name)
          BY <2>1, CurrentVolume, PointsOfVolumes DEF Typed, Commands
    <3>4. Cardinality(Managed') = Cardinality(Managed) + 1
          BY <1>5, <2>3, <3>3, ManagedGrows DEF EmptyDirVolume, TmpfsPoint
    <3>5. QED BY <2>1, <3>2, <3>4, CountOneMore DEF Commands
  <2>4. CASE Promising' /\ "emptyDir" \notin volume.defs
    <3>1. Promising /\ ~HasMount /\ ~HasMount'
          BY <2>1, <2>4 DEF Promising, HasMount, Sole, Commands
    <3>2. QED BY <1>5, <2>1, <2>4, <3>1, CountKept DEF EmptyDirVolume, InLoop, Commands
  <2>5. QED BY <2>2, <2>3, <2>4
<1>6. CASE EmptyDirFails
  <2>1. volume \in Volume /\ volume' = volume
        BY <1>6, CurrentVolume DEF EmptyDirFails, Typed, Commands, volume
  <2>2. Sole(volume) => volume.defs = {"emptyDir"}
        BY <1>6, <2>1, SoleDefinition DEF EmptyDirFails
  <2>3. ~Promising'
        BY <1>6, <2>1, <2>2 DEF EmptyDirFails, Promising, Sole, Commands
  <2>4. QED BY <1>6, <2>3 DEF EmptyDirFails, Counted
<1>7. CASE DiskVolume
  <2>1. volume \in Volume /\ volume' = volume
        BY <1>7, CurrentVolume DEF DiskVolume, Typed, Commands, volume
  <2>2. Promising' => Promising /\ (HasMount' <=> HasMount)
        BY <1>7, <2>1, SoleDefinition
           DEF DiskVolume, AfterChecks, Promising, HasMount, Sole, Commands
  <2>3. QED
    BY <1>7, <2>2, CountKept DEF DiskVolume, AfterChecks, InLoop, Commands
<1>8. CASE Probe \/ Format \/ Fsck \/ (DiskFails /\ pc' = "finish")
  <2>1. volume' = volume
        BY <1>8 DEF Probe, Format, Fsck, DiskFails, volume
  <2>2. pc' = "finish" => ~Promising'
        BY <1>8 DEF Probe, AfterProbe, Format, Fsck, DiskFails, Promising
  <2>3. pc' # "finish" => /\ pc \in OnDevice /\ pc' \in OnDevice
                          /\ UNCHANGED <<table, request, index, left>>
        BY <1>8 DEF Probe, AfterProbe, Format, Fsck, DiskFails, OnDevice
  <2>4. pc' # "finish" /\ Promising' => Promising /\ ~HasMount' /\ ~HasMount
        BY <2>1, <2>3 DEF Promising, HasMount, Sole, OnDevice, Commands
  <2>5. CASE pc' = "finish"
        BY <2>2, <2>5 DEF Counted
  <2>6. CASE pc' # "finish"
        BY <2>3, <2>4, <2>6, CountKept DEF OnDevice, InLoop, Commands
  <2>7. QED BY <2>5, <2>6
<1>9. CASE MountDisk
  <2>1. /\ pc = "mount" /\ pc' = "finish" /\ volume' = volume
        /\ UNCHANGED <<request, index, left>>
        BY <1>9 DEF MountDisk, volume
  <2>2. CASE ~Promising'
        BY <2>1, <2>2 DEF Counted
  <2>3. CASE Promising'
    <3>1. Sole(volume) /\ volume.defs = {"disk"}
          BY <2>1, <2>3
             DEF Promising, Sole, Reaching, CurrentReaches, OnDevice, Commands
    <3>2. Promising /\ ~HasMount /\ HasMount'
          BY <2>1, <3>1 DEF Promising, HasMount
    <3>3. PICK p \in Points : p = DiskPoint(disk)
          BY <2>1, CurrentVolume, PointsOfVolumes DEF Typed, Commands
    <3>4. Cardinality(Managed') = Cardinality(Managed) + 1
          BY <1>9, <3>3, ManagedGrows DEF MountDisk, DiskPoint
    <3>5. QED BY <2>1, <3>2, <3>4, CountOneMore DEF Commands
  <2>4. QED BY <2>2, <2>3
<1>10. CASE FinishVolume /\ Processed
  <2>1. pc = "finish" /\ request \in Request /\ index \in DOMAIN request.volumes
        BY <1>10, CurrentVolume DEF FinishVolume, Typed
  <2>2. Promising /\ (HasMount <=> volume.defs # {"hostPath"})
        BY <1>10, <2>1 DEF Processed, Promising, HasMount, Sole
  <2>3. /\ pc' = "volume" /\ index' = index + 1
        /\ UNCHANGED <<table, request, left>>
        BY <1>10 DEF FinishVolume
  <2>4. Managed' = Managed /\ Needing(index)' = Needing(index + 1) /\ ~HasMount'
        BY <2>3 DEF Managed, Needing, HasMount
  <2>5. Cardinality(Needing(index + 1)) \in Nat
    <3>1. index + 1 \in Nat
          BY <2>1 DEF Request
    <3>2. QED BY <2>1, <3>1, NeedingNumber
  <2>6. left = {} =>
            Cardinality(Managed) = Cardinality(Needing(index + 1))
        BY <2>1, <2>2, NeedingGrows DEF Counted, InLoop
  <2>7. QED BY <2>3, <2>4, <2>5, <2>6 DEF Counted
<1>11. CASE VolumesDone \/ (Bind /\ pc' = "bound")
  <2>1. Promising /\ ~HasMount /\ ~HasMount'
        BY <1>11 DEF VolumesDone, Bind, Promising, HasMount, Commands
  <2>2. QED BY <1>11, <2>1, CountKept DEF VolumesDone, Bind, InLoop
<1>12. CASE UNCHANGED <<table, pc, run>>
      BY <1>12 DEF Counted, Managed, Needing, Promising, HasMount, Sole, volume
<1>13. QED
  BY <1>1, <1>2, <1>3, <1>4, <1>5, <1>6, <1>7, <1>8, <1>9, <1>10, <1>11, <1>12
     DEF Next, Agent, Begin, ListMounts, ListFails, AfterUmount, Umount,
         UmountFails, CheckReferences, ReadMetadata, DiskFails, FinishVolume,
         Bind, MetadataFails, NextRun, FormatKilled, Reboot, Fault, InLoop,
         Commands, vars

(* After a run that unmounted everything, the managed directory holds one  *)
(* mount for each volume that needs one: over any number of runs, whatever *)
(* became of them, nothing accumulates.                                    *)
THEOREM NothingPilesUp == Spec => []NothingAccumulates
<1>1. Init => Counted
      BY DEF Init, Counted, InLoop, Commands
<1>2. Settled /\ Counted => NothingAccumulates
  <2> SUFFICES ASSUME Settled, Counted, pc = "bound", left = {}
               PROVE  Cardinality(Managed) =
                      Cardinality({i \in DOMAIN request.volumes :
                                      request.volumes[i].defs # {"hostPath"}})
      BY DEF NothingAccumulates, Managed
  <2>1. request \in Request /\ index \in Nat
        BY VolumesAssumption DEF Settled, Typed, TypeOK
  <2>2. Needing(index) = {i \in DOMAIN request.volumes :
                             request.volumes[i].defs # {"hostPath"}}
        BY <2>1 DEF Needing, Settled, Reaching, LoopEnds, Request
  <2>3. Promising /\ ~HasMount
        BY DEF Promising, HasMount, Commands
  <2>4. Cardinality(Needing(index)) \in Nat
        BY <2>1, NeedingNumber
  <2>5. QED BY <2>2, <2>3, <2>4 DEF Counted
<1>3. QED BY <1>1, <1>2, SettledAlways, CountedStep, PTL DEF Spec
----------------------------------------------------------------------------
(* A run that meets with no failure.                                       *)

(* What the agent does to the disks: it mounts nothing but in the managed  *)
(* directory, and what it writes to a device is a clean file system.       *)
LEMMA AgentOnDisks ==
    ASSUME Typed, Agent
    PROVE  /\ UNCHANGED <<attached, unreadable>>
           /\ \A m \in table' : m \in table \/ m.point.dir = "managed"
           /\ \A d \in Devices : fs'[d] \in {fs[d], "clean"}
<1>1. UNCHANGED <<attached, unreadable>> /\ \A d \in Devices : fs'[d] \in {fs[d], "clean"}
  <2>1. fs \in [Devices -> FileSystem]
        BY DEF Typed, TypeOK
  <2>2. QED
    BY <2>1 DEF Agent, Begin, ListMounts, ListFails, Umount, UmountFails,
       CheckReferences, ReadMetadata, HostPathVolume, EmptyDirVolume,
       EmptyDirFails, DiskVolume, Probe, Format, Fsck, MountDisk, DiskFails,
       FinishVolume, VolumesDone, Bind, MetadataFails, machine
<1>2. \A m \in table' : m \in table \/ m.point.dir = "managed"
  <2>1. CASE UNCHANGED table \/ (\E m \in todo : Umount(m)) \/ Reboot
        BY <2>1 DEF Umount, Reboot
  <2>2. CASE EmptyDirVolume \/ MountDisk
        BY <2>2, MountingSteps DEF Mounted, TmpfsPoint, DiskPoint
  <2>3. QED BY <2>1, <2>2, TableSteps DEF Next
<1>3. QED BY <1>1, <1>2

(* Its steps leave what can be prepared so, and no disk in need of a       *)
(* repair that was not before.                                             *)
LEMMA PreparableStays ==
    ASSUME Typed, Agent, NEW r, Preparable(r)
    PROVE  Preparable(r)' /\ DirtyDisks(r)' \subseteq DirtyDisks(r)
<1>1. /\ UNCHANGED <<attached, unreadable>>
      /\ \A m \in table' : m \in table \/ m.point.dir = "managed"
      /\ \A d \in Devices : fs'[d] \in {fs[d], "clean"}
      BY AgentOnDisks
<1>2. DirtyDisks(r)' \subseteq DirtyDisks(r)
      BY <1>1 DEF DirtyDisks
<1>3. ASSUME NEW k \in DOMAIN r.volumes, r.volumes[k].defs = {"disk"}
      PROVE  LET v == r.volumes[k]
             IN  /\ v.dev \in Devices \ unreadable'
                 /\ \A m \in table' : m.dev = v.dev => m.point.dir = "managed"
                 /\ \/ attached'[v.dev[1]] = "READ_WRITE" /\ fs'[v.dev] # "other"
                    \/ /\ attached'[v.dev[1]] = "READ_ONLY"
                       /\ ~WantsReadWrite(r, v.name)
                       /\ fs'[v.dev] \in {"clean", "dirty"}
      BY <1>1, <1>3 DEF Preparable
<1>4. QED
  BY <1>1, <1>2, <1>3
     DEF Preparable, ReferencesValid, VolumeNames, DistinctTargets, WantsReadWrite

(* A request has finitely many disks to repair.                            *)
LEMMA DirtyDisksFinite ==
    ASSUME NEW r \in Request
    PROVE  IsFiniteSet(DirtyDisks(r))
<1> DEFINE devs == {r.volumes[k].dev : k \in DOMAIN r.volumes}
           f == [k \in DOMAIN r.volumes |-> r.volumes[k].dev]
<1>1. DOMAIN r.volumes = 1..Len(r.volumes) /\ Len(r.volumes) \in Nat
      BY DEF Request
<1>2. IsFiniteSet(DOMAIN r.volumes)
      BY <1>1, FS_Interval
<1>3. f \in Surjection(DOMAIN r.volumes, devs)
      BY DEF Surjection
<1>4. IsFiniteSet(devs)
  <2> HIDE DEF devs, f
  <2>1. QED BY <1>2, <1>3, FS_Surjection
<1>5. DirtyDisks(r) \subseteq devs
      BY DEF DirtyDisks
<1>6. QED BY <1>4, <1>5, FS_Subset

(* The volume being processed, when all can be prepared.                   *)
LEMMA CurrentPreparable ==
    ASSUME Typed, Preparable(request), pc \in Commands \union {"finish"}
    PROVE  /\ volume \in Volume /\ Sole(volume)
           /\ \/ volume.defs = {"hostPath"}
              \/ volume.defs = {"emptyDir"} /\ volume.memory
              \/ /\ volume.defs = {"disk"}
                 /\ volume.dev \in Devices \ unreadable
                 /\ \A m \in table : m.dev = volume.dev => m.point.dir = "managed"
                 /\ \/ attached[disk] = "READ_WRITE" /\ fs[volume.dev] # "other"
                    \/ /\ attached[disk] = "READ_ONLY" /\ ~wantsRW
                       /\ fs[volume.dev] \in {"clean", "dirty"}
<1>1. volume \in Volume /\ index \in DOMAIN request.volumes
      BY CurrentVolume DEF Typed
<1>2. Sole(volume)
      BY <1>1 DEF Preparable, Sole, volume
<1>3. volume.defs = {"emptyDir"} => volume.memory
      BY <1>1 DEF Preparable, volume
<1>4. volume.defs = {"disk"} =>
                 /\ volume.dev \in Devices \ unreadable
                 /\ \A m \in table : m.dev = volume.dev => m.point.dir = "managed"
                 /\ \/ attached[disk] = "READ_WRITE" /\ fs[volume.dev] # "other"
                    \/ /\ attached[disk] = "READ_ONLY" /\ ~wantsRW
                       /\ fs[volume.dev] \in {"clean", "dirty"}
      BY <1>1 DEF Preparable, volume, disk, wantsRW
<1>5. QED BY <1>1, <1>2, <1>3, <1>4, SoleDefinition

(* What has been mounted so far belongs to other volumes: the current one  *)
(* finds its mount point empty and its device unused.                      *)
LEMMA NothingInTheWay ==
    ASSUME Typed, Preparable(request), OnTrack, pc \in Commands,
           pc \notin HandledAt(volume), volume.defs # {"hostPath"}
    PROVE  /\ At(PointOf(volume)) = {} /\ RoomAt(PointOf(volume))
           /\ volume.defs = {"disk"} => NotMounted(volume.dev)
<1>1. /\ request \in Request /\ index \in DOMAIN request.volumes
      /\ volume = request.volumes[index]
      BY CurrentVolume DEF Typed, volume
<1>2. DOMAIN request.volumes \subseteq Nat
      BY <1>1 DEF Request
<1>3. ASSUME NEW m \in table, m.point.dir = "managed"
      PROVE  \E k \in DOMAIN request.volumes \ {index} : MountOf(m, request.volumes[k])
      BY <1>1, <1>2, <1>3 DEF OnTrack
<1>4. ASSUME NEW k \in DOMAIN request.volumes \ {index}, NEW m,
             MountOf(m, request.volumes[k])
      PROVE  /\ m.point # PointOf(volume)
             /\ volume.defs = {"disk"} => m.dev # volume.dev
  <2> DEFINE v == request.volumes[k]
  <2>1. v \in Volume /\ volume \in Volume /\ volume.name # v.name
        BY <1>1 DEF Request, Preparable, DistinctTargets
  <2>2. Sole(v)
        BY DEF Preparable, Sole
  <2>3. v.defs = {"disk"} /\ volume.defs = {"disk"} => v.dev[1] # volume.dev[1]
        BY <1>1 DEF Preparable, DistinctTargets
  <2>4. volume.defs \in {{"emptyDir"}, {"disk"}}
        BY CurrentPreparable
  <2>5. volume.dev # Tmpfs
        BY <2>1, VolumesAssumption DEF Volume
  <2> HIDE DEF v
  <2>6. CASE v.defs = {"disk"}
    <3>1. m.dev = v.dev /\ m.point = DiskPoint(v.dev[1])
          BY <1>4, <2>6 DEF MountOf, v
    <3>2. QED BY <2>3, <2>4, <2>6, <3>1 DEF PointOf, DiskPoint, TmpfsPoint
  <2>7. CASE v.defs # {"disk"}
    <3>1. m.dev = Tmpfs /\ m.point = TmpfsPoint(v.name)
          BY <1>4, <2>7 DEF MountOf, v
    <3>2. QED BY <2>1, <2>4, <2>5, <3>1 DEF PointOf, DiskPoint, TmpfsPoint
  <2>8. QED BY <2>6, <2>7
<1>5. PointOf(volume).dir = "managed"
      BY CurrentPreparable DEF PointOf, TmpfsPoint, DiskPoint
<1>6. At(PointOf(volume)) = {}
      BY <1>3, <1>4, <1>5 DEF At
<1>7. RoomAt(PointOf(volume))
      BY <1>6, FS_EmptySet, VolumesAssumption DEF RoomAt
<1>8. volume.defs = {"disk"} => NotMounted(volume.dev)
      BY <1>3, <1>4, CurrentPreparable DEF NotMounted, MountedDevices
<1>9. QED BY <1>6, <1>7, <1>8

(* A command on a disk that fails could have done its work.                *)
LEMMA CommandsWork ==
    ASSUME Settled, Preparable(request), OnTrack,
           pc \in Commands \ {"emptyDir"}, pc = "disk" => "disk" \in volume.defs
    PROVE  CommandWorks
<1>1. /\ volume.defs = {"disk"} /\ volume.dev \in Devices \ unreadable
      /\ \/ attached[disk] = "READ_WRITE" /\ fs[volume.dev] # "other"
         \/ /\ attached[disk] = "READ_ONLY" /\ ~wantsRW
            /\ fs[volume.dev] \in {"clean", "dirty"}
  <2>1. "disk" \in volume.defs
        BY DEF OnTrack
  <2>2. QED BY <2>1, CurrentPreparable DEF Settled
<1>2. CASE pc = "disk"
  <2>1. pc \notin HandledAt(volume)
        BY <1>1, <1>2 DEF HandledAt
  <2>2. NotMounted(volume.dev)
        BY <1>1, <2>1, NothingInTheWay DEF Settled
  <2>3. QED BY <1>1, <1>2, <2>2 DEF CommandWorks, DiskUsable, AttachedAsNeeded
<1>3. CASE pc = "probe"
  <2>1. attached[disk] = "READ_WRITE" /\ fs[volume.dev] \in FileSystem
        BY <1>1, <1>3 DEF Settled, Inv, WritesAllowed, Typed, TypeOK
  <2>2. Probed(volume.dev) \in {"blank", "clean", "dirty"}
        BY <1>1, <2>1 DEF Probed, FileSystem
  <2>3. QED BY <1>3, <2>2 DEF CommandWorks, AfterProbe
<1>4. CASE pc \in {"format", "fsck"}
      BY <1>1, <1>4 DEF CommandWorks
<1>5. CASE pc = "mount"
  <2>1. pc \notin HandledAt(volume) /\ PointOf(volume) = DiskPoint(disk)
        BY <1>1, <1>5 DEF HandledAt, PointOf, disk
  <2>2. RoomAt(DiskPoint(disk))
        BY <1>1, <2>1, NothingInTheWay DEF Settled
  <2>3. fs[volume.dev] \in {"clean", "dirty"}
        BY <1>5 DEF OnTrack
  <2>4. QED BY <1>1, <1>5, <2>2, <2>3 DEF CommandWorks
<1>6. QED BY <1>2, <1>3, <1>4, <1>5 DEF Commands

(* A step inside the handlers of a volume that mounts nothing.             *)
LEMMA TrackInVolume ==
    ASSUME OnTrack, pc \in Commands \union {"volume"},
           pc' \in Commands \union {"finish"},
           UNCHANGED <<table, request, index>>, result' # Failed,
           pc \in HandledAt(volume) => pc' \in HandledAt(volume),
           pc' \in Commands \ {"emptyDir", "disk"} => "disk" \in volume.defs,
           pc' = "mount" => fs'[volume.dev] \in {"clean", "dirty"}
    PROVE  OnTrack'
<1>1. volume' = volume
      BY DEF volume
<1>2. HandledAt(volume)' = HandledAt(volume)
      BY <1>1 DEF HandledAt
<1>3. \A m, k : MountOf(m, request.volumes[k])' <=> MountOf(m, request.volumes[k])
      BY DEF MountOf, DiskPoint, TmpfsPoint, Tmpfs
<1>4. \A m \in table' : m.point.dir = "managed" =>
          \E k \in DOMAIN request'.volumes :
              /\ k < index' \/ (k = index' /\ pc' \in HandledAt(volume)')
              /\ MountOf(m, request.volumes[k])'
      BY <1>2, <1>3 DEF OnTrack
<1>5. QED BY <1>1, <1>4 DEF OnTrack, Commands

(* A step that mounts the volume.                                          *)
LEMMA TrackMounts ==
    ASSUME Typed, OnTrack, pc \in Commands, volume.defs # {"hostPath"},
           UNCHANGED <<request, index>>, result' # Failed,
           pc' \in {"disk", "finish"}, pc' \in HandledAt(volume),
           NEW dev, NEW ro, table' = Mounted(dev, PointOf(volume), ro),
           \/ volume.defs = {"disk"} /\ dev = volume.dev
           \/ volume.defs = {"emptyDir"} /\ dev = Tmpfs
    PROVE  OnTrack'
<1>1. volume' = volume /\ index \in DOMAIN request.volumes
      BY CurrentVolume DEF volume, Typed
<1>2. HandledAt(volume)' = HandledAt(volume)
      BY <1>1 DEF HandledAt
<1>3. \A m, k : MountOf(m, request.volumes[k])' <=> MountOf(m, request.volumes[k])
      BY DEF MountOf, DiskPoint, TmpfsPoint, Tmpfs
<1>4. \A m \in table' : m \in table \/ MountOf(m, request.volumes[index])
      BY DEF Mounted, MountOf, PointOf, volume
<1>5. ASSUME NEW m \in table', m.point.dir = "managed"
      PROVE  \E k \in DOMAIN request'.volumes :
                 /\ k < index' \/ (k = index' /\ pc' \in HandledAt(volume)')
                 /\ MountOf(m, request.volumes[k])'
  <2>1. CASE MountOf(m, request.volumes[index])
        BY <1>1, <1>2, <1>3, <2>1
  <2>2. CASE m \in table
    <3>1. PICK k \in DOMAIN request.volumes :
              k <= index /\ MountOf(m, request.volumes[k])
      <4>1. index <= index
            BY DEF Typed, TypeOK
      <4>2. PICK k \in DOMAIN request.volumes :
                /\ k < index \/ k = index
                /\ MountOf(m, request.volumes[k])
            BY <1>5, <2>2 DEF OnTrack
      <4>3. request \in Request
            BY CurrentVolume DEF Typed
      <4>4. k <= index
            BY <4>1, <4>2, <4>3 DEF Request, Typed, TypeOK
      <4>5. QED BY <4>2, <4>4
    <3>2. QED
      <4>1. request \in Request
            BY CurrentVolume DEF Typed
      <4>2. k < index \/ k = index
            BY <3>1, <4>1 DEF Request, Typed, TypeOK
      <4>3. QED BY <1>2, <1>3, <3>1, <4>2
  <2>3. QED BY <1>4, <2>1, <2>2
<1>6. QED BY <1>1, <1>5 DEF OnTrack, Commands

(* A run that has met with no failure goes on so, as long as nothing fails *)
(* that could work, unless it repairs a disk.                              *)
LEMMA TrackKept ==
    ASSUME Settled, Preparable(request), OnTrack, Agent, pc # "idle", ~Unlucky
    PROVE  \/ OnTrack'
           \/ \E d \in DirtyDisks(request) : fs'[d] = "clean"
<1> USE DEF machine, run
<1>1. Typed /\ result # Failed
      BY DEF Settled, OnTrack
<1>2. CASE ListMounts \/ \E m \in todo : Umount(m)
      BY <1>2 DEF ListMounts, Umount, AfterUmount, OnTrack, Commands
<1>3. CASE CheckReferences
  <2>1. pc' = "metadata"
        BY <1>3 DEF CheckReferences, Preparable
  <2>2. \A m \in table : m.point.dir # "managed"
        BY <1>1, <1>3, NothingToTreat DEF CheckReferences, Settled, Unmounting, OnTrack
  <2>3. QED BY <1>3, <2>1, <2>2 DEF CheckReferences, OnTrack, Commands
<1>4. CASE ReadMetadata
  <2>1. pc = "metadata" /\ pc' = "volume"
        BY <1>4 DEF ReadMetadata, Preparable
  <2>2. QED BY <1>4, <2>1 DEF ReadMetadata, OnTrack, Commands
<1>5. CASE HostPathVolume
  <2>1. result' # Failed
    <3>1. [point |-> HostDirectory, ro |-> FALSE] \in Target
          BY DEF Target
    <3>2. QED BY <1>5, <3>1, VolumesAssumption DEF HostPathVolume
  <2>2. QED
    BY <1>5, <2>1, TrackInVolume DEF HostPathVolume, HandledAt, Commands
<1>6. CASE EmptyDirVolume
  <2>1. pc \in Commands \union {"finish"} /\ pc \notin HandledAt(volume)
        BY <1>6 DEF EmptyDirVolume, HandledAt, Commands
  <2>2. CASE "emptyDir" \in volume.defs
    <3>1. volume.defs = {"emptyDir"}
          BY <1>1, <2>1, <2>2, CurrentPreparable
    <3>2. PointOf(volume) = TmpfsPoint(volume.name)
          BY <3>1 DEF PointOf
    <3>3. result' # Failed
      <4>1. TmpfsPoint(volume.name) \in Points
            BY <1>1, <2>1, CurrentVolume, PointsOfVolumes DEF Typed
      <4>2. [point |-> TmpfsPoint(volume.name), ro |-> FALSE] \in Target
            BY <4>1 DEF Target
      <4>3. QED BY <1>6, <2>2, <4>2, VolumesAssumption DEF EmptyDirVolume
    <3>4. pc' \in HandledAt(volume) /\ pc' = "disk"
          BY <1>6, <3>1 DEF EmptyDirVolume, HandledAt
    <3>5. table' = Mounted(Tmpfs, PointOf(volume), FALSE)
          BY <1>6, <2>2, <3>2 DEF EmptyDirVolume
    <3>6. UNCHANGED <<request, index>> /\ pc \in Commands
          BY <1>6 DEF EmptyDirVolume, Commands
    <3>7. QED BY <1>1, <3>1, <3>3, <3>4, <3>5, <3>6, TrackMounts
  <2>3. CASE "emptyDir" \notin volume.defs
        BY <1>1, <1>6, <2>1, <2>3, TrackInVolume DEF EmptyDirVolume, Commands
  <2>4. QED BY <2>2, <2>3
<1>7. CASE EmptyDirFails
  <2>1. /\ pc \in Commands /\ pc \notin HandledAt(volume)
        /\ "emptyDir" \in volume.defs
        BY <1>7 DEF EmptyDirFails, HandledAt, Commands
  <2>2. volume.defs = {"emptyDir"} /\ volume.memory
        BY <1>1, <2>1, CurrentPreparable
  <2>3. PointOf(volume) = TmpfsPoint(volume.name)
        BY <2>2 DEF PointOf
  <2>4. RoomAt(TmpfsPoint(volume.name))
        BY <1>1, <2>1, <2>2, <2>3, NothingInTheWay
  <2>5. QED BY <1>7, <2>2, <2>4 DEF Unlucky
<1>8. CASE DiskVolume
  <2>1. pc = "disk" /\ pc \in Commands \union {"finish"}
        BY <1>8 DEF DiskVolume, Commands
  <2>2. CASE "disk" \in volume.defs
    <3>1. /\ volume.defs = {"disk"}
          /\ pc' = "mount" => fs[volume.dev] \in {"clean", "dirty"}
          BY <1>1, <1>8, <2>1, <2>2, CurrentPreparable DEF DiskVolume, AfterChecks
    <3>2. pc \notin HandledAt(volume) /\ pc' \in {"mount", "probe"}
          BY <1>8, <2>1, <2>2 DEF HandledAt, DiskVolume, AfterChecks
    <3>3. QED
      BY <1>1, <1>8, <2>1, <2>2, <3>1, <3>2, TrackInVolume DEF DiskVolume, Commands
  <2>3. CASE "disk" \notin volume.defs
        BY <1>1, <1>8, <2>1, <2>3, TrackInVolume DEF DiskVolume, HandledAt, Commands
  <2>4. QED BY <2>2, <2>3
<1>9. CASE Probe \/ Format \/ Fsck
  <2>1. /\ pc \in {"probe", "format", "fsck"} /\ pc \in Commands \ {"emptyDir", "disk"}
        /\ "disk" \in volume.defs /\ pc \notin HandledAt(volume)
        BY <1>9 DEF Probe, Format, Fsck, OnTrack, Commands, HandledAt
  <2>2. volume.defs = {"disk"} /\ volume.dev \in Devices
        BY <1>1, <2>1, CurrentPreparable
  <2>3. fs \in [Devices -> FileSystem]
        BY <1>1 DEF Typed, TypeOK
  <2>4. CASE Probe
    <3>1. AfterProbe(Probed(volume.dev)) # "finish"
          BY <2>1, <2>4, CommandsWork DEF Probe, CommandWorks
    <3>2. pc' \in {"format", "fsck"} /\ result' = result
          BY <2>4, <3>1 DEF Probe, AfterProbe
    <3>3. QED BY <1>1, <2>1, <2>4, <3>2, TrackInVolume DEF Probe, Commands
  <2>5. CASE (Format \/ Fsck) /\ pc' = "mount"
    <3>1. fs'[volume.dev] = "clean"
          BY <2>2, <2>3, <2>5 DEF Format, Fsck
    <3>2. UNCHANGED <<table, request, index, result>>
          BY <2>5 DEF Format, Fsck
    <3>3. QED BY <1>1, <2>1, <2>5, <3>1, <3>2, TrackInVolume DEF Commands
  <2>6. CASE Fsck /\ pc' # "mount"
    <3>1. fs[volume.dev] = "dirty" /\ fs'[volume.dev] = "clean"
          BY <2>2, <2>3, <2>6 DEF Fsck
    <3>2. index \in DOMAIN request.volumes
          BY <1>1, <2>1, CurrentVolume DEF Typed
    <3>3. volume.dev \in DirtyDisks(request)
          BY <2>2, <3>1, <3>2 DEF DirtyDisks, volume
    <3>4. QED BY <3>1, <3>3
  <2>7. QED BY <1>9, <2>4, <2>5, <2>6 DEF Format
<1>10. CASE MountDisk
  <2>1. pc = "mount" /\ pc \in Commands \ {"emptyDir", "disk"}
        BY <1>10 DEF MountDisk, Commands
  <2>2. volume.defs = {"disk"}
        BY <1>1, <2>1, CurrentPreparable DEF OnTrack
  <2>3. result' \in Target /\ PointOf(volume) = DiskPoint(disk)
    <3>1. MountReadOnly \in BOOLEAN
          BY DEF MountReadOnly
    <3>2. DiskPoint(disk) \in Points
          BY <1>1, <2>1, CurrentVolume, PointsOfVolumes DEF Typed
    <3>3. QED BY <1>10, <2>2, <3>1, <3>2 DEF MountDisk, Target, PointOf, disk
  <2>4. pc' = "finish" /\ pc' \in HandledAt(volume)
        BY <1>10 DEF MountDisk, HandledAt
  <2>5. QED
    BY <1>1, <1>10, <2>1, <2>2, <2>3, <2>4, TrackMounts, VolumesAssumption
       DEF MountDisk
<1>11. CASE DiskFails
       BY <1>11, CommandsWork DEF DiskFails, Unlucky
<1>12. CASE FinishVolume
  <2>1. pc = "finish" /\ Sole(volume) /\ index \in DOMAIN request.volumes
        BY <1>1, <1>12, CurrentPreparable, CurrentVolume DEF FinishVolume, Typed
  <2>2. pc' = "volume" /\ index' = index + 1 /\ UNCHANGED <<table, request, result>>
        BY <1>1, <1>12, <2>1 DEF FinishVolume, Processed, Sole
  <2>3. DOMAIN request.volumes \subseteq Nat
        BY <1>1, <2>1, CurrentVolume DEF Typed, Request
  <2>4. \A k \in DOMAIN request.volumes : k < index \/ k = index => k < index'
        BY <2>1, <2>2, <2>3
  <2>5. \A m, k : MountOf(m, request.volumes[k])' <=> MountOf(m, request.volumes[k])
        BY <2>2 DEF MountOf, DiskPoint, TmpfsPoint, Tmpfs
  <2>6. \A m \in table' : m.point.dir = "managed" =>
            \E k \in DOMAIN request'.volumes :
                k < index' /\ MountOf(m, request.volumes[k])'
        BY <2>1, <2>2, <2>4, <2>5 DEF OnTrack
  <2>7. QED BY <1>1, <2>2, <2>6 DEF OnTrack, Commands
<1>13. CASE VolumesDone
       BY <1>1, <1>13 DEF VolumesDone, OnTrack, Commands
<1>14. CASE Bind
  <2>1. pc' = "bound"
        BY <1>14, NothingRefused DEF Settled, Bind, BindNeverRefused
  <2>2. QED BY <1>1, <1>14, <2>1 DEF Bind, OnTrack, Commands
<1>15. CASE ListFails \/ MetadataFails \/ \E m \in todo : UmountFails(m)
       BY <1>15 DEF Unlucky
<1>16. QED
  BY <1>2, <1>3, <1>4, <1>5, <1>6, <1>7, <1>8, <1>9, <1>10, <1>11, <1>12,
     <1>13, <1>14, <1>15 DEF Agent, Begin
=============================================================================

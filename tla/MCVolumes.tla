----------------------------- MODULE MCVolumes -----------------------------
(* Values for TLC: one disk with two partitions, two volume names, a mount *)
(* point beside the managed directory and one far from it.                 *)
EXTENDS Volumes

CONSTANTS data, a, b

MCNames == {a, b}
MCDisks == {data}
MCDevices == {<<data, 1>>, <<data, 2>>}

Sibling == [dir |-> "sibling", family |-> "none", name |-> "none"]
Elsewhere == [dir |-> "elsewhere", family |-> "none", name |-> "none"]
MCForeignPoints == {Sibling, Elsewhere}

On(dev, point) == {[dev |-> dev, point |-> point, ro |-> FALSE, layer |-> 1]}
MCInitialTables == {{}, On(<<data, 1>>, Elsewhere)}
MCSiblingTables == {On(Tmpfs, Sibling)}
MCInitialModes == [MCDisks -> Mode]

Vol(n, defs, part) ==
    [name |-> n, defs |-> defs, memory |-> TRUE, dev |-> <<data, part>>]
Dir(n) == Vol(n, {"emptyDir"}, 0)
Disk(n, part) == Vol(n, {"disk"}, part)
RW(n) == [name |-> n, ro |-> FALSE]
RO(n) == [name |-> n, ro |-> TRUE]
Req(volumes, mounts) == [volumes |-> volumes, mounts |-> mounts]

MCRequests ==
    {Req(<<>>, {}),
     Req(<<Dir(a), Dir(a)>>, {RW(a)}),
     Req(<<Vol(a, {"hostPath"}, 0), Disk(b, 1)>>, {RW(a), RW(b)}),
     Req(<<Disk(a, 1), Dir(b)>>, {RO(a), RW(a), RW(b)}),
     Req(<<Disk(a, 2), Disk(b, 1)>>, {RW(a), RO(b)}),
     Req(<<Disk(a, 1), Disk(b, 1)>>, {RO(a), RO(b)}),
     Req(<<Vol(a, {"emptyDir", "disk"}, 1)>>, {RW(a)}),
     Req(<<[Dir(a) EXCEPT !.memory = FALSE]>>, {RW(a)}),
     Req(<<Disk(a, 0)>>, {RW(a)}),
     Req(<<Disk(a, 1)>>, {}),
     Req(<<Disk(a, 1)>>, {RW(b)})}
=============================================================================

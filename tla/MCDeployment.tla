---------------------------- MODULE MCDeployment ----------------------------
(* Values for TLC: one disk, declarations that want it for writing beside  *)
(* a tmpfs, and for reading.                                               *)
EXTENDS Deployment

CONSTANTS i1, i2, web, api, img, sA, data, a, b

MCIds == {i1, i2}
MCRawNames == {web, api}
MCImages == {img}
MCSuffixes == {sA}

Web == [name |-> web, image |-> img, policy |-> ""]
Api == [name |-> api, image |-> img, policy |-> "Never"]
MCDeclarations == {Web, Api}

Legacy == [name |-> [klt |-> FALSE, raw |-> web, sfx |-> NoSuffix],
           decl |-> Web, status |-> "running", fresh |-> FALSE]
Earlier == [name |-> [klt |-> TRUE, raw |-> api, sfx |-> sA],
            decl |-> Api, status |-> "exited", fresh |-> FALSE]
Empty == [i \in MCIds |-> NoContainer]
MCInitialHosts == {Empty, [Empty EXCEPT ![i1] = Legacy, ![i2] = Earlier]}

MCNames == {a, b}
MCDisks == {data}
MCDevices == {<<data, 0>>}
MCForeignPoints == {}
MCInitialTables == {{}}
MCInitialModes == {[d \in MCDisks |-> m] : m \in {"READ_WRITE", "READ_ONLY"}}

Tmp == [name |-> a, defs |-> {"emptyDir"}, memory |-> TRUE, dev |-> <<data, 0>>]
Disk == [name |-> b, defs |-> {"disk"}, memory |-> FALSE, dev |-> <<data, 0>>]
WebVolumes ==
    [volumes |-> <<Tmp, Disk>>,
     mounts |-> {[name |-> a, ro |-> FALSE], [name |-> b, ro |-> FALSE]}]
ApiVolumes ==
    [volumes |-> <<Disk>>, mounts |-> {[name |-> b, ro |-> TRUE]}]
MCRequests == {WebVolumes, ApiVolumes}
MCVolumesOf == [d \in MCDeclarations |-> IF d = Api THEN ApiVolumes ELSE WebVolumes]
=============================================================================

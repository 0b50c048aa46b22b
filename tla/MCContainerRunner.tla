------------------------- MODULE MCContainerRunner -------------------------
(* Values for TLC.  A host starts empty, with the legacy container of an   *)
(* earlier agent beside a container of the user, or with the container of  *)
(* an earlier boot and a legacy one.                                       *)
EXTENDS ContainerRunner

CONSTANTS i1, i2, i3, web, api, db, img1, img2, sA, sB

MCIds == {i1, i2, i3}
MCRawNames == {web, api, db}
MCImages == {img1, img2}
MCSuffixes == {sA, sB}

WebAlways == [name |-> web, image |-> img1, policy |-> ""]
ApiNever == [name |-> api, image |-> img2, policy |-> "Never"]
WebEachSunday == [name |-> web, image |-> img1, policy |-> "EachSunday"]
WebOnFailure == [name |-> web, image |-> img2, policy |-> "OnFailure"]

MCDeclarations == {WebAlways, WebOnFailure, ApiNever, WebEachSunday}

Legacy == [name |-> [klt |-> FALSE, raw |-> web, sfx |-> NoSuffix],
           decl |-> WebAlways, status |-> "running", fresh |-> FALSE]
Users == [name |-> [klt |-> FALSE, raw |-> db, sfx |-> NoSuffix],
          decl |-> NoDeclaration, status |-> "running", fresh |-> FALSE]
Earlier == [name |-> [klt |-> TRUE, raw |-> api, sfx |-> sA],
            decl |-> ApiNever, status |-> "exited", fresh |-> FALSE]

Empty == [i \in MCIds |-> NoContainer]

(* Two containers to delete, one declaration that is accepted and one that *)
(* is not.                                                                 *)
SmallDeclarations == {WebAlways, WebEachSunday}
SmallSuffixes == {sA}
SmallHosts ==
    {[Empty EXCEPT ![i1] = Legacy, ![i2] = [Earlier EXCEPT !.decl = WebAlways]]}

MCInitialHosts == {Empty,
                   [Empty EXCEPT ![i1] = Legacy, ![i2] = Users],
                   [Empty EXCEPT ![i1] = Legacy, ![i2] = Earlier]}
=============================================================================

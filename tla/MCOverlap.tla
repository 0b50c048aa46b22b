----------------------------- MODULE MCOverlap -----------------------------
(* Values for TLC.  Two declarations of two names; the host starts empty   *)
(* or with the container of an earlier boot.                               *)
EXTENDS Overlap, TLC

CONSTANTS i1, i2, i3, web, api, img, sA

MCIds == {i1, i2, i3}
MCRawNames == {web, api}
MCImages == {img}
MCSuffixes == {sA}

Web == [name |-> web, image |-> img, policy |-> "Always"]
Api == [name |-> api, image |-> img, policy |-> "Never"]
WebNever == [name |-> web, image |-> img, policy |-> "Never"]
MCDeclarations == {Web, WebNever, Api}

Earlier == [name |-> [klt |-> TRUE, raw |-> web, sfx |-> sA],
            decl |-> Web, status |-> "running", fresh |-> FALSE]
MCInitialHosts ==
    {[i \in MCIds |-> IF i \in only THEN Earlier ELSE NoContainer] :
        only \in {{}} \union {{i} : i \in MCIds}}

(* Nothing tells one ID from another. *)
MCSymmetry == Permutations(MCIds)
=============================================================================

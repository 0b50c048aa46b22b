------------------------------ MODULE Recreate ------------------------------
(***************************************************************************)
(* What the agent promises about the container it manages, whatever fails: *)
(* the machine holds one such container or none, it is replaced only by    *)
(* being deleted first, and the volumes under it change only while there   *)
(* is none.                                                                *)
(***************************************************************************)
CONSTANTS Declarations, Nothing, NoVolumes, PartialVolumes

VARIABLES
    container,   \* Nothing, or what it was created from and in which boot
    volumes      \* whose volumes are mounted

vars == <<container, volumes>>

TypeOK ==
    /\ container \in [decl : Declarations, fresh : BOOLEAN] \union {Nothing}
    /\ volumes \in Declarations \union {NoVolumes, PartialVolumes}

Init ==
    /\ container \in [decl : Declarations, fresh : {FALSE}] \union {Nothing}
    /\ volumes = NoVolumes

Delete ==
    /\ container # Nothing
    /\ container' = Nothing
    /\ UNCHANGED volumes

ChangeVolumes ==
    /\ container = Nothing
    /\ volumes' \in Declarations \union {NoVolumes, PartialVolumes}
    /\ UNCHANGED container

Create ==
    /\ container = Nothing
    /\ volumes \in Declarations
    /\ container' = [decl |-> volumes, fresh |-> TRUE]
    /\ UNCHANGED volumes

Reboot ==
    /\ volumes' = NoVolumes
    /\ container' = IF container = Nothing THEN Nothing
                    ELSE [decl |-> container.decl, fresh |-> FALSE]

Next == Delete \/ ChangeVolumes \/ Create \/ Reboot

Spec == Init /\ [][Next]_vars
=============================================================================

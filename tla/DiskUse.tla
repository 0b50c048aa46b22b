------------------------------ MODULE DiskUse -------------------------------
(***************************************************************************)
(* What the agent promises about every block device, whatever fails and    *)
(* however runs are killed and follow each other: its content changes only *)
(* while nothing uses it, a file system is made only on a device that      *)
(* holds none, and a device is opened for writing only with a file system  *)
(* that was made or checked since the power last failed under a writer.    *)
(***************************************************************************)
CONSTANTS
    Devices,
    Misread   \* may what is on a device be taken for nothing?

VARIABLES
    content,   \* what is on every device
    use,       \* "free", or how it is opened
    writable   \* the devices that may be written to

vars == <<content, use, writable>>

Content == {"blank", "clean", "dirty", "other"}
Use == {"free", "read", "write"}

TypeOK ==
    /\ content \in [Devices -> Content]
    /\ use \in [Devices -> Use]
    /\ writable \subseteq Devices

Init == TypeOK

Idle(d) == d \in writable /\ use[d] = "free"

(* Making a file system may be interrupted. *)
Make(d) ==
    /\ Idle(d)
    /\ content[d] = "blank" \/ Misread
    /\ \E c \in {"clean", "dirty"} : content' = [content EXCEPT ![d] = c]
    /\ UNCHANGED <<use, writable>>

Check(d) ==
    /\ Idle(d)
    /\ content[d] = "dirty"
    /\ content' = [content EXCEPT ![d] = "clean"]
    /\ UNCHANGED <<use, writable>>

OpenToRead(d) ==
    /\ use[d] = "free"
    /\ content[d] \in {"clean", "dirty"}
    /\ use' = [use EXCEPT ![d] = "read"]
    /\ UNCHANGED <<content, writable>>

OpenToWrite(d) ==
    /\ Idle(d)
    /\ content[d] = "clean"
    /\ use' = [use EXCEPT ![d] = "write"]
    /\ UNCHANGED <<content, writable>>

Close(d) ==
    /\ use[d] # "free"
    /\ use' = [use EXCEPT ![d] = "free"]
    /\ UNCHANGED <<content, writable>>

(* What is open for writing needs a check afterwards. *)
PowerFails ==
    /\ use' = [d \in Devices |-> "free"]
    /\ content' = [d \in Devices |->
                     IF use[d] = "write" /\ content[d] = "clean"
                     THEN "dirty" ELSE content[d]]
    /\ UNCHANGED writable

Next ==
    \/ \E d \in Devices :
           Make(d) \/ Check(d) \/ OpenToRead(d) \/ OpenToWrite(d) \/ Close(d)
    \/ PowerFails

Spec == Init /\ [][Next]_vars
=============================================================================

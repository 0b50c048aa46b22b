------------------------------ MODULE Overlap ------------------------------
(***************************************************************************)
(* Two agents at once.  The unit runs the agent by "docker run": when the  *)
(* client is killed, or loses the daemon, systemd sees a failure and       *)
(* starts another agent 30 s later, while the container of the first one   *)
(* lives on.  Nothing in the agent knows of another: both list, delete,    *)
(* mount and create on the same host, one call of the one and one call of  *)
(* the other in any order.                                                 *)
(*                                                                         *)
(* The variables of ContainerRunner are those of the host and of the agent *)
(* the unit waits for; an orphan has a second set of the agent's.  There   *)
(* is at most one orphan at a time.                                        *)
(***************************************************************************)
EXTENDS ContainerRunner

VARIABLES
    opc, ospec, odoomed, ocid,   \* the orphan; "inactive": there was none
    alone,      \* was no orphan running when this run began? (history)
    tampered    \* has a user removed a konlet container since such a run
                \* began? (history)

orphan == <<opc, ospec, odoomed, ocid>>
history == <<alone, tampered>>
overlapVars == <<vars, orphan, history>>

Orphan == INSTANCE ContainerRunner
              WITH pc <- opc, spec <- ospec, doomed <- odoomed, cid <- ocid

OverlapInit ==
    /\ Init
    /\ opc = "inactive" /\ ospec = NoDeclaration /\ odoomed = {} /\ ocid = NoId
    /\ alone = TRUE /\ tampered = FALSE

(* IDs are random: none is given twice while somebody remembers it. *)
NewIdsUnknown ==
    \A i \in Ids : containers[i] = NoContainer /\ containers'[i] # NoContainer =>
        i \notin doomed \union odoomed \union {cid, ocid}

UnitStep ==
    /\ Agent /\ NewIdsUnknown
    /\ UNCHANGED <<orphan, history>>

OrphanStep ==
    /\ Orphan!Agent /\ NewIdsUnknown
    /\ UNCHANGED <<pc, agent, history>>

(* docker run ends without its container. *)
Detach ==
    /\ pc \in Running /\ opc \notin Running
    /\ opc' = pc /\ ospec' = spec /\ odoomed' = doomed /\ ocid' = cid
    /\ pc' = "waiting" /\ Forget
    /\ UNCHANGED <<host, history>>

UnitStarts ==
    /\ ServiceStarts
    /\ alone' = (opc \notin Running)
    /\ tampered' = (tampered /\ ~alone')
    /\ UNCHANGED orphan

OrphanKilled ==
    /\ Orphan!Crash
    /\ UNCHANGED <<pc, agent, history>>

VMReboots ==
    /\ Reboot
    /\ opc' = "inactive" /\ ospec' = NoDeclaration /\ odoomed' = {} /\ ocid' = NoId
    /\ alone' = TRUE /\ tampered' = FALSE

UserTampers(i) ==
    /\ UserRemoves(i)
    /\ tampered' = (tampered \/ containers[i].name.klt)
    /\ UNCHANGED <<orphan, alone>>

OverlapNext ==
    \/ UnitStep
    \/ OrphanStep
    \/ Detach
    \/ UnitStarts
    \/ OrphanKilled
    \/ VMReboots
    \/ \E i \in Ids : UserTampers(i)
    \/ /\ ScriptGivesUp \/ Crash \/ OperatorStarts \/ EditDeclaration
       /\ UNCHANGED <<orphan, history>>

OverlapSpec == OverlapInit /\ [][OverlapNext]_overlapVars

----------------------------------------------------------------------------
(* Properties.                                                             *)

(* The types of ContainerRunner hold for both agents. *)
OverlapTypeOK == TypeOK /\ Orphan!TypeOK /\ alone \in BOOLEAN /\ tampered \in BOOLEAN

(* Agents that overtake one another at any point never make two containers *)
(* for one declared name: the name is the same for every agent of a boot,  *)
(* and the daemon gives it once.                                           *)
OneKonletPerName ==
    \A i, j \in Konlets : containers[i].name.raw = containers[j].name.raw => i = j

(* Whatever two agents made of the host, the first run that has it for     *)
(* itself repairs it: once it is done there is no other container, and its *)
(* volumes are those of the declaration it read.                           *)
LoneRunRepairs ==
    pc = "done" /\ alone =>
        \A i, j \in Konlets :
            i = j /\ containers[i].fresh /\ containers[i].decl = spec /\ volumes = spec

(* Two agents that got in each other's way do not both report success:     *)
(* when both are done and did not leave two containers (of two names), the *)
(* container has its own volumes.                                          *)
NoSilentDamage ==
    /\ pc = "done" /\ opc = "done"
    /\ \A i, j \in Konlets : i = j
    /\ ~tampered
    => \A i \in Konlets : containers[i].fresh /\ volumes = containers[i].decl
=============================================================================

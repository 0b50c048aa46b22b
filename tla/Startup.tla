------------------------------ MODULE Startup ------------------------------
(***************************************************************************)
(* How the unit konlet-startup decides whether the agent runs at all: the  *)
(* script konlet-startup asks get_metadata_value for the declaration and   *)
(* for the version override, curl call by curl call, while the metadata    *)
(* server goes away and comes back, and systemd starts the script again    *)
(* when docker run fails; and what the agent does before RunContainer: its *)
(* own query, the token, the rules of the firewall.  The script passes the *)
(* agent no flag, so that all of them have their defaults.                 *)
(*                                                                         *)
(* Abstracted: the values of the keys (only their presence matters to the  *)
(* script, which hands none of them on), RunContainer (ContainerRunner),   *)
(* how often a rule has been appended.                                     *)
(***************************************************************************)
EXTENDS Naturals, Sequences

CONSTANT MDS_TRIES   \* 100, or the environment variable

ASSUME TriesAssumption == MDS_TRIES \in Nat

Keys == {"declaration", "override"}

Rules == {"INPUT", "FORWARD"} \X {"tcp", "udp", "icmp"}
OpenIptablesForProtocol(protocol) ==
    << <<"INPUT", protocol>>, <<"FORWARD", protocol>> >>
OpenIptables ==
    OpenIptablesForProtocol("tcp") \o OpenIptablesForProtocol("udp")
        \o OpenIptablesForProtocol("icmp")

VARIABLES
    instance, project,  \* the keys that the metadata have
    server,             \* what the metadata server does with a query
    pc,
    key,                \* the key asked for
    count,              \* rounds of queries that could not connect
    code,               \* exit code of the last curl
    version,            \* the agent's image tag
    rules,              \* the ACCEPT rules in the host's firewall
    todo,               \* the rules the agent has still to append
    refused,            \* did a query of this round fail to connect? (history)
    steady              \* has the server been up, and the metadata been the
                        \* same, since the unit was started? (history)

metadata == <<instance, project, server>>
script == <<key, count, code, version, refused>>
firewall == <<rules, todo>>
vars == <<metadata, pc, script, firewall, steady>>

Querying == {"instance", "project", "decide"}
InAgent == {"agent", "token", "iptables", "rules", "run"}
Locations == Querying \union InAgent \union {"boot", "waiting", "inactive", "done"}

(* curl -f: 22 for a status of 400 and more, 7 (or 6) without a connection, *)
(* 28 for an answer that does not arrive.                                   *)
OK == 0
NoConnection == 7
NotFound == 22
TimedOut == 28
Answer(keys) ==
    CASE server = "down" -> NoConnection
      [] server = "slow" -> TimedOut
      [] server = "erring" -> NotFound
      [] OTHER -> IF key \in keys THEN OK ELSE NotFound

Init ==
    /\ instance \in SUBSET Keys /\ project \in SUBSET Keys
    /\ server \in {"up", "down", "slow", "erring"}
    /\ pc = "boot"
    /\ key = "declaration" /\ count = 0 /\ code = OK
    /\ version = "none" /\ refused = FALSE /\ steady = FALSE
    /\ rules = {} /\ todo = << >>

----------------------------------------------------------------------------
StartUnit ==
    /\ pc \in {"boot", "waiting"}
    /\ pc' = "instance"
    /\ key' = "declaration" /\ count' = 0 /\ code' = OK
    /\ version' = "none" /\ refused' = FALSE
    /\ steady' = (server = "up")
    /\ UNCHANGED <<metadata, firewall>>

(* get_metadata_value: the instance, then the project; what counts is the  *)
(* exit code of the last query made.                                       *)
AfterInstance_Final(c) == "decide"
AfterInstance(c) == IF c = OK THEN "decide" ELSE "project"

QueryInstance ==
    /\ pc = "instance"
    /\ code' = Answer(instance)
    /\ refused' = (code' = NoConnection)
    /\ pc' = AfterInstance(code')
    /\ UNCHANGED <<metadata, key, count, version, steady, firewall>>

QueryProject ==
    /\ pc = "project"
    /\ code' = Answer(project)
    /\ refused' = (refused \/ code' = NoConnection)
    /\ pc' = "decide"
    /\ UNCHANGED <<metadata, key, count, version, steady, firewall>>

(* get_metadata_value_with_retries *)
RoundsAfter_NotCounted(n) == n
RoundsAfter(n) == n + 1

TryAgain_OneMore == code = NoConnection /\ count <= MDS_TRIES
TryAgain == code = NoConnection /\ count < MDS_TRIES

QueryAgain ==
    /\ pc = "decide" /\ TryAgain
    /\ count' = RoundsAfter(count) /\ refused' = FALSE
    /\ pc' = "instance"
    /\ UNCHANGED <<metadata, key, code, version, steady, firewall>>

DeclarationFound ==
    /\ pc = "decide" /\ ~TryAgain /\ key = "declaration" /\ code = OK
    /\ key' = "override" /\ count' = 0 /\ refused' = FALSE
    /\ pc' = "instance"
    /\ UNCHANGED <<metadata, code, version, steady, firewall>>

(* The script exits with 0, which is no failure to systemd. *)
ScriptGivesUp ==
    /\ pc = "decide" /\ ~TryAgain /\ key = "declaration" /\ code # OK
    /\ pc' = "inactive"
    /\ UNCHANGED <<metadata, script, steady, firewall>>

Version_AsTold(c) == "override"
Version(c) == IF c = OK THEN "override" ELSE "default"

VersionFound ==
    /\ pc = "decide" /\ ~TryAgain /\ key = "override"
    /\ version' = Version(code)
    /\ pc' = "agent"
    /\ UNCHANGED <<metadata, key, count, code, refused, steady, firewall>>

(* ExecStartup.  The agent asks the server itself, for the key of the      *)
(* instance only; images of some registries need a token.                  *)
AgentReads_Project == project
AgentReads == instance

RetrieveManifest ==
    /\ pc = "agent" /\ server = "up" /\ "declaration" \in AgentReads
    /\ pc' \in {"token", "iptables"}
    /\ UNCHANGED <<metadata, script, steady, firewall>>

RetrieveAuthToken ==
    /\ pc = "token" /\ server = "up"
    /\ pc' = "iptables"
    /\ UNCHANGED <<metadata, script, steady, firewall>>

(* A run appends nothing when an earlier one has begun to. *)
AfterInit_Once == IF rules = {} THEN "rules" ELSE "run"
AfterInit == "rules"

InitIpTables ==
    /\ pc = "iptables"
    /\ todo' = OpenIptables
    /\ pc' = AfterInit
    /\ UNCHANGED <<metadata, script, steady, rules>>

AppendRule ==
    /\ pc = "rules"
    /\ rules' = rules \union {Head(todo)}
    /\ todo' = Tail(todo)
    /\ pc' = IF todo' = << >> THEN "run" ELSE "rules"
    /\ UNCHANGED <<metadata, script, steady>>

RunContainer ==
    /\ pc = "run"
    /\ pc' = "done"
    /\ UNCHANGED <<metadata, script, steady, firewall>>

(* Any of these may fail, or docker run may be killed; systemd sees an     *)
(* exit code other than 0.                                                 *)
AgentFails ==
    /\ pc \in InAgent
    /\ pc' = "waiting"
    /\ todo' = << >>
    /\ UNCHANGED <<metadata, script, steady, rules>>

Unit ==
    \/ StartUnit
    \/ QueryInstance
    \/ QueryProject
    \/ QueryAgain
    \/ DeclarationFound
    \/ ScriptGivesUp
    \/ VersionFound
    \/ RetrieveManifest
    \/ RetrieveAuthToken
    \/ InitIpTables
    \/ AppendRule
    \/ RunContainer
    \/ AgentFails

----------------------------------------------------------------------------
ServerChanges ==
    /\ server' \in {"up", "down", "slow", "erring"} \ {server}
    /\ steady' = FALSE
    /\ UNCHANGED <<instance, project, pc, script, firewall>>

MetadataEdited ==
    /\ instance' \in SUBSET Keys /\ project' \in SUBSET Keys
    /\ <<instance', project'>> # <<instance, project>>
    /\ steady' = FALSE
    /\ UNCHANGED <<server, pc, script, firewall>>

(* The unit is stopped, or has exited, and an operator starts it, or the   *)
(* VM boots: rules do not survive that.                                    *)
StartedAnew ==
    /\ pc' = "boot"
    /\ rules' \in {rules, {}} /\ todo' = << >>
    /\ UNCHANGED <<metadata, script, steady>>

Next ==
    \/ Unit
    \/ ServerChanges
    \/ MetadataEdited
    \/ StartedAnew

Spec == Init /\ [][Next]_vars

(* curl and docker run return, systemd starts the unit again after         *)
(* RestartSec, and a query the server can answer does not fail for ever.   *)
Fairness ==
    /\ WF_vars(Unit)
    /\ SF_vars(RetrieveManifest)
    /\ SF_vars(RetrieveAuthToken)
FairSpec == Spec /\ Fairness

----------------------------------------------------------------------------
(* Properties.                                                             *)

(* Every variable has its type; no more than MDS_TRIES rounds are repeated. *)
TypeOK ==
    /\ instance \subseteq Keys /\ project \subseteq Keys
    /\ server \in {"up", "down", "slow", "erring"}
    /\ pc \in Locations
    /\ key \in Keys
    /\ count \in 0..MDS_TRIES
    /\ code \in {OK, NoConnection, NotFound, TimedOut}
    /\ version \in {"none", "override", "default"}
    /\ rules \subseteq Rules /\ todo \in Seq(Rules)
    /\ refused \in BOOLEAN /\ steady \in BOOLEAN

(* With a server that answers all along, the unit stays away only when     *)
(* neither the instance nor the project has a declaration.                 *)
SteadyGivesUp ==
    pc = "inactive" /\ steady => "declaration" \notin instance \union project

(* With a server that answers all along, the agent that runs is the one    *)
(* the metadata ask for, whatever the query for the declaration left in    *)
(* the script's state.                                                     *)
SteadyVersion ==
    pc \in InAgent /\ steady =>
        (version = "override" <=> "override" \in instance \union project)

(* The container is started, and the unit rests with success, only with    *)
(* all six rules in the firewall, whichever of them earlier runs appended  *)
(* before they failed and whether the VM has been booted since.            *)
PortsOpen == pc \in {"run", "done"} => rules = Rules

(* How many steps the unit has still before it at most: three for every    *)
(* round of each key, then those of the agent.                             *)
StepsOfRound == [instance |-> 3, project |-> 2, decide |-> 1]
StepsOfKey == 3 * (MDS_TRIES + 1)
StepsOfAgent == Len(OpenIptables) + 4
StepsLeft ==
    CASE pc \in Querying ->
             StepsOfAgent + 3 * (MDS_TRIES - count) + StepsOfRound[pc]
                 + IF key = "declaration" THEN StepsOfKey ELSE 0
      [] pc = "agent" -> StepsOfAgent
      [] pc = "token" -> StepsOfAgent - 1
      [] pc = "iptables" -> StepsOfAgent - 2
      [] pc = "rules" -> Len(todo) + 1
      [] pc = "run" -> 1
      [] OTHER -> 0

(* Every step of the script and of the agent brings the unit nearer to its *)
(* end, whatever the server answers and however it changes meanwhile: the  *)
(* retries of the two keys share a counter and an exit code.               *)
UnitAdvances ==
    [][/\ Unit /\ ~StartUnit => StepsLeft' \in Nat /\ StepsLeft' < StepsLeft
       /\ ServerChanges \/ MetadataEdited => StepsLeft' = StepsLeft]_vars

(* Every start of the script comes to an end, also when the server never   *)
(* answers.                                                                *)
ScriptEnds == pc \in Querying ~> pc \notin Querying

OnlyInProject == "declaration" \in project \ instance

(* A command of the host or RunContainer fails. *)
HostFails == AgentFails /\ pc \in {"iptables", "rules", "run"}

(* Once the server stays up, the host does not fail the agent any more and *)
(* nobody edits the metadata or restarts the unit, systemd stops starting  *)
(* it: the agent succeeded or there is no declaration.  A declaration of   *)
(* the project alone is the exception: the script finds it and the agent   *)
(* does not.                                                               *)
UnitSettles ==
    <>[][Unit /\ ~HostFails]_vars /\ <>[](server = "up" /\ ~OnlyInProject)
        => <>[](pc \in {"inactive", "done"})

(* get_metadata_value:63 says that a failure to connect is retried: the    *)
(* script does not give up after a round with such a failure while it has  *)
(* tries left.                                                             *)
ConnectFailuresRetried ==
    [][ScriptGivesUp => ~(refused /\ count < MDS_TRIES)]_vars
=============================================================================

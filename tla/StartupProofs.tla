--------------------------- MODULE StartupProofs ---------------------------
(***************************************************************************)
(* Proofs about Startup, for any number of rounds that the script repeats. *)
(***************************************************************************)
EXTENDS Startup, SequenceTheorems, TLAPS

(* OpenIptables appends every rule once.                                   *)
LEMMA OpenIptablesFacts ==
    /\ OpenIptables \in Seq(Rules) /\ OpenIptables # << >>
    /\ {OpenIptables[i] : i \in 1..Len(OpenIptables)} = Rules
<1> DEFINE P(p) == OpenIptablesForProtocol(p)
           first == P("tcp") \o P("udp")
<1>1. ASSUME NEW p \in {"tcp", "udp", "icmp"}
      PROVE  /\ P(p) \in Seq(Rules) /\ Len(P(p)) = 2
             /\ P(p)[1] = <<"INPUT", p>> /\ P(p)[2] = <<"FORWARD", p>>
      BY DEF OpenIptablesForProtocol, Rules
<1>2. /\ P("tcp") \in Seq(Rules) /\ Len(P("tcp")) = 2
      /\ P("udp") \in Seq(Rules) /\ Len(P("udp")) = 2
      /\ P("icmp") \in Seq(Rules) /\ Len(P("icmp")) = 2
      BY <1>1
<1> HIDE DEF P
<1>3. /\ first \in Seq(Rules) /\ Len(first) = 4
      /\ \A i \in 1..4 : first[i] = IF i <= 2 THEN P("tcp")[i] ELSE P("udp")[i - 2]
      BY <1>2, ConcatProperties
<1> HIDE DEF first
<1>4. OpenIptables = first \o P("icmp")
      BY DEF OpenIptables, first, P
<1>5. /\ OpenIptables \in Seq(Rules) /\ Len(OpenIptables) = 6
      /\ \A i \in 1..6 :
            OpenIptables[i] = IF i <= 4 THEN first[i] ELSE P("icmp")[i - 4]
  <2>1. /\ first \o P("icmp") \in Seq(Rules)
        /\ Len(first \o P("icmp")) = Len(first) + Len(P("icmp"))
        /\ \A i \in 1..Len(first) + Len(P("icmp")) : (first \o P("icmp"))[i] =
              IF i <= Len(first) THEN first[i] ELSE P("icmp")[i - Len(first)]
        BY <1>2, <1>3, ConcatProperties
  <2>2. Len(first) = 4 /\ Len(P("icmp")) = 2
        BY <1>2, <1>3
  <2>3. QED BY <2>1, <2>2, <1>4
<1>6. /\ OpenIptables[1] = <<"INPUT", "tcp">> /\ OpenIptables[2] = <<"FORWARD", "tcp">>
      /\ OpenIptables[3] = <<"INPUT", "udp">> /\ OpenIptables[4] = <<"FORWARD", "udp">>
      /\ OpenIptables[5] = <<"INPUT", "icmp">> /\ OpenIptables[6] = <<"FORWARD", "icmp">>
      BY <1>1, <1>3, <1>5
<1>7. \A r \in Rules : \E i \in 1..6 : OpenIptables[i] = r
      BY <1>6 DEF Rules
<1>8. \A i \in 1..6 : OpenIptables[i] \in Rules
      BY <1>5, ElementOfSeq
<1>9. OpenIptables # << >>
      BY <1>5, EmptySeq
<1>10. QED BY <1>5, <1>7, <1>8, <1>9

(* Appending the head of a sequence of rules leaves those of its tail. *)
LEMMA HeadAndTail ==
    ASSUME NEW S, NEW s \in Seq(S), s # << >>
    PROVE  /\ Head(s) \in S /\ Tail(s) \in Seq(S)
           /\ {s[i] : i \in 1..Len(s)} =
                  {Head(s)} \union {Tail(s)[i] : i \in 1..Len(Tail(s))}
<1>1. /\ Len(s) \in Nat \ {0} /\ Head(s) = s[1] /\ Head(s) \in S
      /\ Tail(s) \in Seq(S) /\ Len(Tail(s)) = Len(s) - 1
      BY HeadTailProperties, LenProperties, EmptySeq
<1>2. \A i \in 1..Len(s) - 1 : Tail(s)[i] = s[i + 1]
      BY HeadTailProperties
<1>3. \A i \in 1..Len(s) : i = 1 \/ (i - 1 \in 1..Len(s) - 1 /\ Tail(s)[i - 1] = s[i])
      BY <1>1, <1>2
<1>4. \A i \in 1..Len(s) - 1 : i + 1 \in 1..Len(s)
      BY <1>1
<1>5. ASSUME NEW i \in 1..Len(s)
      PROVE  s[i] = Head(s) \/ \E j \in 1..Len(Tail(s)) : s[i] = Tail(s)[j]
      BY <1>1, <1>3
<1>6. ASSUME NEW j \in 1..Len(Tail(s))
      PROVE  \E i \in 1..Len(s) : Tail(s)[j] = s[i]
      BY <1>1, <1>2, <1>4
<1>7. Head(s) = s[1] /\ 1 \in 1..Len(s)
      BY <1>1
<1>8. QED BY <1>1, <1>5, <1>6, <1>7

----------------------------------------------------------------------------
(* What a query can tell with a server that has answered since the start.  *)
QueriesRight ==
    steady =>
        /\ server = "up"
        /\ pc = "project" => key \notin instance
        /\ pc = "decide" => (code = OK <=> key \in instance \union project)

(* While rules are appended, those in the firewall and those to come are   *)
(* all there are.                                                          *)
Appending ==
    pc = "rules" =>
        /\ todo # << >>
        /\ rules \union {todo[i] : i \in 1..Len(todo)} = Rules

StartupInv ==
    /\ TypeOK
    /\ QueriesRight /\ SteadyGivesUp /\ SteadyVersion
    /\ Appending /\ PortsOpen

(* The invariant holds before the first start of the unit.                 *)
LEMMA StartupInit == Init => StartupInv
<1> SUFFICES ASSUME Init PROVE StartupInv
    OBVIOUS
<1> USE DEF Init
<1>1. todo \in Seq(Rules)
      BY EmptySeq
<1>2. TypeOK
  <2>1. count \in 0..MDS_TRIES
        BY TriesAssumption
  <2>2. refused \in BOOLEAN /\ steady \in BOOLEAN
        OBVIOUS
  <2>3. QED BY <1>1, <2>1, <2>2 DEF TypeOK, Keys, Locations, OK
<1>3. /\ QueriesRight /\ SteadyGivesUp /\ SteadyVersion
      /\ Appending /\ PortsOpen
      BY DEF QueriesRight, SteadyGivesUp, SteadyVersion, Appending, PortsOpen, InAgent
<1>4. QED BY <1>2, <1>3 DEF StartupInv

(* What an answer is worth: with the server up it tells whether one of the *)
(* keys asked for is there.                                                *)
LEMMA AnswerFacts ==
    ASSUME NEW keys
    PROVE  /\ Answer(keys) \in {OK, NoConnection, NotFound, TimedOut}
           /\ server = "up" => (Answer(keys) = OK <=> key \in keys)
           /\ Answer(keys) = NoConnection <=> server = "down"
BY DEF Answer, OK, NoConnection, NotFound, TimedOut

(* The types, action by action. *)
LEMMA TypesStep == TypeOK /\ Appending /\ Next => TypeOK'
<1> SUFFICES ASSUME TypeOK, Appending, Next PROVE TypeOK'
    OBVIOUS
<1> USE DEF TypeOK, metadata, script, firewall, Locations, Querying, InAgent
<1>1. CASE StartUnit
  <2>1. count' \in 0..MDS_TRIES
        BY <1>1, TriesAssumption DEF StartUnit
  <2>2. refused' \in BOOLEAN /\ steady' \in BOOLEAN
        BY <1>1 DEF StartUnit
  <2>3. QED BY <1>1, <2>1, <2>2 DEF StartUnit, Keys, OK
<1>2. CASE QueryInstance
      BY <1>2, AnswerFacts DEF QueryInstance, AfterInstance
<1>3. CASE QueryProject
      BY <1>3, AnswerFacts DEF QueryProject
<1>4. CASE QueryAgain
  <2>1. count' \in 0..MDS_TRIES
        BY <1>4, TriesAssumption DEF QueryAgain, TryAgain, RoundsAfter
  <2>2. refused' \in BOOLEAN /\ steady' \in BOOLEAN
        BY <1>4 DEF QueryAgain
  <2>3. QED BY <1>4, <2>1, <2>2 DEF QueryAgain, Keys, OK
<1>5. CASE DeclarationFound
  <2>1. count' \in 0..MDS_TRIES
        BY <1>5, TriesAssumption DEF DeclarationFound
  <2>2. refused' \in BOOLEAN /\ steady' \in BOOLEAN
        BY <1>5 DEF DeclarationFound
  <2>3. QED BY <1>5, <2>1, <2>2 DEF DeclarationFound, Keys, OK
<1>6. CASE ScriptGivesUp
      BY <1>6 DEF ScriptGivesUp
<1>7. CASE VersionFound
      BY <1>7 DEF VersionFound, Version
<1>8. CASE RetrieveManifest \/ RetrieveAuthToken
      BY <1>8 DEF RetrieveManifest, RetrieveAuthToken
<1>9. CASE InitIpTables
      BY <1>9, OpenIptablesFacts DEF InitIpTables, AfterInit
<1>10. CASE AppendRule
  <2>1. Head(todo) \in Rules /\ Tail(todo) \in Seq(Rules)
        BY <1>10, HeadAndTail DEF Appending, AppendRule
  <2>2. QED BY <1>10, <2>1 DEF AppendRule
<1>11. CASE RunContainer
      BY <1>11 DEF RunContainer
<1>12. CASE AgentFails
      BY <1>12, EmptySeq DEF AgentFails
<1>13. CASE ServerChanges \/ MetadataEdited
      BY <1>13 DEF ServerChanges, MetadataEdited
<1>14. CASE StartedAnew
      BY <1>14, EmptySeq DEF StartedAnew
<1>15. QED BY <1>1, <1>2, <1>3, <1>4, <1>5, <1>6, <1>7, <1>8, <1>9, <1>10, <1>11,
             <1>12, <1>13, <1>14 DEF Next, Unit

(* What the queries and the agent's state say, action by action. *)
LEMMA QueriesStep ==
    TypeOK /\ QueriesRight /\ SteadyGivesUp /\ SteadyVersion /\ Next =>
        QueriesRight' /\ SteadyGivesUp' /\ SteadyVersion'
<1> SUFFICES ASSUME TypeOK, QueriesRight, SteadyGivesUp, SteadyVersion, Next
             PROVE  QueriesRight' /\ SteadyGivesUp' /\ SteadyVersion'
    OBVIOUS
<1> USE DEF QueriesRight, SteadyGivesUp, SteadyVersion, metadata, script, firewall, InAgent
<1>1. CASE StartUnit
      BY <1>1 DEF StartUnit
<1>2. CASE QueryInstance
      BY <1>2, AnswerFacts DEF QueryInstance, AfterInstance
<1>3. CASE QueryProject
      BY <1>3, AnswerFacts DEF QueryProject
<1>4. CASE QueryAgain \/ DeclarationFound
      BY <1>4 DEF QueryAgain, DeclarationFound
<1>5. CASE ScriptGivesUp
      BY <1>5 DEF ScriptGivesUp
<1>6. CASE VersionFound
      BY <1>6 DEF VersionFound, Version
<1>7. CASE RetrieveManifest \/ RetrieveAuthToken \/ InitIpTables
      BY <1>7 DEF RetrieveManifest, RetrieveAuthToken, InitIpTables, AfterInit
<1>8. CASE AppendRule \/ RunContainer \/ AgentFails
      BY <1>8 DEF AppendRule, RunContainer, AgentFails
<1>9. CASE ServerChanges \/ MetadataEdited
      BY <1>9 DEF ServerChanges, MetadataEdited
<1>10. CASE StartedAnew
      BY <1>10 DEF StartedAnew
<1>11. QED BY <1>1, <1>2, <1>3, <1>4, <1>5, <1>6, <1>7, <1>8, <1>9, <1>10
           DEF Next, Unit

(* The rules: every run appends all of them, whatever is there already.    *)
LEMMA RulesStep ==
    TypeOK /\ Appending /\ PortsOpen /\ Next => Appending' /\ PortsOpen'
<1> SUFFICES ASSUME TypeOK, Appending, PortsOpen, Next
             PROVE  Appending' /\ PortsOpen'
    OBVIOUS
<1> USE DEF Appending, PortsOpen, metadata, script, firewall
<1>1. CASE StartUnit \/ QueryInstance \/ QueryProject \/ QueryAgain
      BY <1>1 DEF StartUnit, QueryInstance, AfterInstance, QueryProject, QueryAgain
<1>2. CASE DeclarationFound \/ ScriptGivesUp \/ VersionFound
      BY <1>2 DEF DeclarationFound, ScriptGivesUp, VersionFound
<1>3. CASE RetrieveManifest \/ RetrieveAuthToken
      BY <1>3 DEF RetrieveManifest, RetrieveAuthToken
<1>4. CASE InitIpTables
      BY <1>4, OpenIptablesFacts DEF InitIpTables, AfterInit, TypeOK
<1>5. CASE AppendRule
  <2>1. /\ todo \in Seq(Rules) /\ todo # << >> /\ rules \subseteq Rules
        /\ rules \union {todo[i] : i \in 1..Len(todo)} = Rules
        BY <1>5 DEF AppendRule, TypeOK
  <2>2. {todo[i] : i \in 1..Len(todo)} =
            {Head(todo)} \union {todo'[i] : i \in 1..Len(todo')}
        BY <1>5, <2>1, HeadAndTail DEF AppendRule
  <2>3. rules' \union {todo'[i] : i \in 1..Len(todo')} = Rules
        BY <1>5, <2>1, <2>2 DEF AppendRule
  <2>4. CASE todo' = << >>
    <3>1. {todo'[i] : i \in 1..Len(todo')} = {}
          BY <2>4
    <3>2. rules' = Rules /\ pc' = "run"
          BY <1>5, <2>3, <2>4, <3>1 DEF AppendRule
    <3>3. QED BY <3>2
  <2>5. CASE todo' # << >>
        BY <1>5, <2>3, <2>5 DEF AppendRule
  <2>6. QED BY <2>4, <2>5
<1>6. CASE RunContainer \/ AgentFails
      BY <1>6 DEF RunContainer, AgentFails
<1>7. CASE ServerChanges \/ MetadataEdited \/ StartedAnew
      BY <1>7 DEF ServerChanges, MetadataEdited, StartedAnew
<1>8. QED BY <1>1, <1>2, <1>3, <1>4, <1>5, <1>6, <1>7 DEF Next, Unit

(* The inductive invariant. *)
LEMMA StartupInductive == Spec => []StartupInv
<1>1. StartupInv /\ [Next]_vars => StartupInv'
  <2>1. CASE Next
        BY <2>1, TypesStep, QueriesStep, RulesStep DEF StartupInv
  <2>2. CASE UNCHANGED vars
        BY <2>2 DEF StartupInv, TypeOK, QueriesRight, SteadyGivesUp, SteadyVersion,
            Appending, PortsOpen, vars, metadata, script, firewall
  <2>3. QED BY <2>1, <2>2
<1>2. QED BY StartupInit, <1>1, PTL DEF Spec

(* Every variable has its type; in particular no more than MDS_TRIES       *)
(* rounds of queries are repeated, however many that are allowed.          *)
THEOREM StartupTypeCorrect == Spec => []TypeOK
<1>1. StartupInv => TypeOK
      BY DEF StartupInv
<1>2. QED BY StartupInductive, <1>1, PTL

(* With a server that answers all along, the unit stays away only when     *)
(* there is no declaration: for any number of rounds, and also 0.          *)
THEOREM GivesUpRightly == Spec => []SteadyGivesUp
<1>1. StartupInv => SteadyGivesUp
      BY DEF StartupInv
<1>2. QED BY StartupInductive, <1>1, PTL

(* With a server that answers all along, the agent's version is the one    *)
(* the metadata ask for.                                                   *)
THEOREM RightVersion == Spec => []SteadyVersion
<1>1. StartupInv => SteadyVersion
      BY DEF StartupInv
<1>2. QED BY StartupInductive, <1>1, PTL

(* No container is started, and no run succeeds, without all the rules of  *)
(* the firewall, whatever failed in the runs before.                       *)
THEOREM AllPortsOpen == Spec => []PortsOpen
<1>1. StartupInv => PortsOpen
      BY DEF StartupInv
<1>2. QED BY StartupInductive, <1>1, PTL

----------------------------------------------------------------------------
(* The unit comes to its end.                                              *)

(* The number of steps left is one, and not 0 before the end.              *)
LEMMA StepsLeftNumber ==
    ASSUME TypeOK
    PROVE  /\ StepsLeft \in Nat
           /\ pc \in Querying \union InAgent => StepsLeft >= 1
           /\ pc \in Querying => StepsLeft > StepsOfAgent
           /\ pc \in Querying /\ key = "declaration" =>
                  StepsLeft > StepsOfAgent + StepsOfKey
<1> USE DEF TypeOK
<1>1. StepsOfKey \in Nat /\ StepsOfAgent \in Nat /\ StepsOfAgent >= 4
      BY TriesAssumption, OpenIptablesFacts, LenProperties DEF StepsOfKey, StepsOfAgent
<1>2. count \in 0..MDS_TRIES /\ MDS_TRIES - count \in Nat
      BY TriesAssumption
<1>3. Len(todo) \in Nat
      BY LenProperties
<1>4. CASE pc \in Querying
  <2>1. StepsOfRound[pc] \in 1..3
        BY <1>4 DEF StepsOfRound, Querying
  <2>2. StepsLeft = StepsOfAgent + 3 * (MDS_TRIES - count) + StepsOfRound[pc]
                        + IF key = "declaration" THEN StepsOfKey ELSE 0
        BY <1>4 DEF StepsLeft, Querying
  <2> HIDE DEF TypeOK
  <2>3. QED BY <1>1, <1>2, <1>4, <2>1, <2>2 DEF Querying, InAgent
<1>5. CASE pc \notin Querying
  <2>1. /\ pc = "agent" => StepsLeft = StepsOfAgent
        /\ pc = "token" => StepsLeft = StepsOfAgent - 1
        /\ pc = "iptables" => StepsLeft = StepsOfAgent - 2
        /\ pc = "rules" => StepsLeft = Len(todo) + 1
        /\ pc = "run" => StepsLeft = 1
        /\ pc \notin Querying \union InAgent => StepsLeft = 0
        BY <1>5 DEF StepsLeft, Querying, InAgent, StepsOfAgent
  <2> HIDE DEF TypeOK
  <2>2. QED BY <1>1, <1>3, <1>5, <2>1 DEF InAgent
<1>6. QED BY <1>4, <1>5

(* The same after a step.                                                  *)
LEMMA StepsLeftLater == TypeOK' => (StepsLeft \in Nat)'
<1>1. TypeOK => StepsLeft \in Nat
      BY StepsLeftNumber
<1>2. QED BY <1>1, PTL

(* What is left while the script asks.                                     *)
LEMMA StepsLeftAsking ==
    /\ pc \in Querying => StepsLeft =
           StepsOfAgent + 3 * (MDS_TRIES - count) + StepsOfRound[pc]
               + IF key = "declaration" THEN StepsOfKey ELSE 0
    /\ pc' \in Querying => StepsLeft' =
           StepsOfAgent + 3 * (MDS_TRIES - count') + StepsOfRound[pc']
               + IF key' = "declaration" THEN StepsOfKey ELSE 0
BY DEF StepsLeft, Querying, StepsOfAgent, StepsOfKey, StepsOfRound

(* Every step of the script and of the agent leaves fewer: one case per    *)
(* action.                                                                 *)
LEMMA FewerSteps ==
    ASSUME TypeOK, TypeOK', Appending, Unit, ~StartUnit
    PROVE  StepsLeft' \in Nat /\ StepsLeft' < StepsLeft
<1>1. StepsLeft \in Nat /\ StepsLeft' \in Nat
      BY StepsLeftNumber, StepsLeftLater
<1>2. /\ StepsOfKey = 3 * MDS_TRIES + 3 /\ StepsOfAgent \in Nat /\ StepsOfAgent >= 4
      /\ MDS_TRIES \in Nat /\ count \in 0..MDS_TRIES
      BY TriesAssumption, OpenIptablesFacts, LenProperties
         DEF StepsOfKey, StepsOfAgent, TypeOK
<1>3. CASE QueryInstance \/ QueryProject
  <2>1. /\ pc \in Querying /\ pc' \in Querying /\ UNCHANGED <<key, count>>
        /\ StepsOfRound[pc'] \in 1..2 /\ StepsOfRound[pc] \in 2..3
        /\ StepsOfRound[pc'] < StepsOfRound[pc]
        BY <1>3 DEF QueryInstance, QueryProject, AfterInstance, Querying, StepsOfRound
  <2>2. QED BY <1>1, <1>2, <2>1, StepsLeftAsking
<1>4. CASE QueryAgain
  <2>1. /\ pc \in Querying /\ pc' \in Querying /\ key' = key /\ count' = count + 1
        /\ StepsOfRound[pc'] = 3 /\ StepsOfRound[pc] = 1
        BY <1>4 DEF QueryAgain, RoundsAfter, Querying, StepsOfRound
  <2>2. QED BY <1>1, <1>2, <2>1, StepsLeftAsking
<1>5. CASE DeclarationFound
  <2>1. /\ pc \in Querying /\ pc' \in Querying /\ count' = 0
        /\ key = "declaration" /\ key' = "override"
        /\ StepsOfRound[pc'] = 3
        BY <1>5 DEF DeclarationFound, Querying, StepsOfRound
  <2>2. StepsLeft > StepsOfAgent + StepsOfKey
        BY <2>1, StepsLeftNumber
  <2>3. StepsLeft' = StepsOfAgent + 3 * (MDS_TRIES - 0) + 3 + 0
        BY <2>1, StepsLeftAsking
  <2>4. QED BY <1>1, <1>2, <2>2, <2>3
<1>6. CASE VersionFound
  <2>1. pc \in Querying /\ pc' = "agent"
        BY <1>6 DEF VersionFound, Querying
  <2>2. StepsLeft > StepsOfAgent
        BY <2>1, StepsLeftNumber
  <2>3. StepsLeft' = StepsOfAgent
        BY <2>1 DEF StepsLeft, Querying, StepsOfAgent
  <2>4. QED BY <1>1, <2>2, <2>3
<1>7. CASE RetrieveManifest \/ RetrieveAuthToken
  <2>1. \/ pc = "agent" /\ pc' \in {"token", "iptables"}
        \/ pc = "token" /\ pc' = "iptables"
        BY <1>7 DEF RetrieveManifest, RetrieveAuthToken
  <2>2. /\ pc = "agent" => StepsLeft = StepsOfAgent
        /\ pc = "token" => StepsLeft = StepsOfAgent - 1
        /\ pc' = "token" => StepsLeft' = StepsOfAgent - 1
        /\ pc' = "iptables" => StepsLeft' = StepsOfAgent - 2
        BY DEF StepsLeft, Querying, StepsOfAgent
  <2>3. QED BY <1>1, <1>2, <2>1, <2>2
<1>8. CASE InitIpTables
  <2>1. pc = "iptables" /\ pc' = "rules" /\ todo' = OpenIptables
        BY <1>8 DEF InitIpTables, AfterInit
  <2>2. StepsLeft = StepsOfAgent - 2 /\ StepsLeft' = Len(OpenIptables) + 1
        BY <2>1 DEF StepsLeft, Querying
  <2>3. QED BY <1>1, <1>2, <2>2, OpenIptablesFacts, LenProperties DEF StepsOfAgent
<1>9. CASE AppendRule
  <2>1. /\ pc = "rules" /\ todo \in Seq(Rules) /\ todo # << >> /\ todo' = Tail(todo)
        /\ pc' = IF todo' = << >> THEN "run" ELSE "rules"
        BY <1>9 DEF AppendRule, Appending, TypeOK
  <2>2. Len(todo) \in Nat \ {0} /\ Len(todo') = Len(todo) - 1
        BY <2>1, HeadTailProperties, LenProperties, EmptySeq
  <2>3. StepsLeft = Len(todo) + 1
        BY <2>1 DEF StepsLeft, Querying
  <2>4. StepsLeft' = IF pc' = "run" THEN 1 ELSE Len(todo') + 1
        BY <2>1 DEF StepsLeft, Querying
  <2>5. QED BY <1>1, <2>2, <2>3, <2>4
<1>10. CASE ScriptGivesUp \/ RunContainer \/ AgentFails
  <2>1. pc \in Querying \union InAgent /\ pc' \in {"inactive", "done", "waiting"}
        BY <1>10 DEF ScriptGivesUp, RunContainer, AgentFails, Querying, InAgent
  <2>2. StepsLeft' = 0
        BY <2>1 DEF StepsLeft, Querying
  <2>3. QED BY <1>1, <2>1, <2>2, StepsLeftNumber
<1>11. QED BY <1>3, <1>4, <1>5, <1>6, <1>7, <1>8, <1>9, <1>10 DEF Unit

(* A started unit makes at most 6 * (MDS_TRIES + 1) steps in the script    *)
(* and ten in the agent before it rests or waits for systemd, whatever the *)
(* server does.                                                            *)
THEOREM UnitEnds == Spec => UnitAdvances
<1>1. ASSUME StartupInv, StartupInv', Next
      PROVE  /\ Unit /\ ~StartUnit => StepsLeft' \in Nat /\ StepsLeft' < StepsLeft
             /\ ServerChanges \/ MetadataEdited => StepsLeft' = StepsLeft
  <2>1. ASSUME ServerChanges \/ MetadataEdited PROVE StepsLeft' = StepsLeft
        BY <2>1 DEF ServerChanges, MetadataEdited, script, firewall, StepsLeft
  <2>2. QED BY <1>1, <2>1, FewerSteps DEF StartupInv
<1>2. StartupInv /\ StartupInv' /\ [Next]_vars =>
          [/\ Unit /\ ~StartUnit => StepsLeft' \in Nat /\ StepsLeft' < StepsLeft
           /\ ServerChanges \/ MetadataEdited => StepsLeft' = StepsLeft]_vars
      BY <1>1
<1>3. QED BY <1>2, StartupInductive, PTL DEF Spec, UnitAdvances

----------------------------------------------------------------------------
(* A round that could not connect is repeated when the server does not     *)
(* come or go between its two queries: the last exit code then tells of    *)
(* both.  The run retries shows what happens otherwise.                    *)
RoundRight ==
    /\ pc = "project" /\ refused => server = "down"
    /\ pc = "decide" /\ refused => code = NoConnection

(* A failure to connect is retried, on machines whose server does not come *)
(* or go during the second query.                                          *)
THEOREM RetriedWhenSteady ==
    Spec /\ [][pc = "project" => server' = server]_vars => ConnectFailuresRetried
<1>1. Init => RoundRight
      BY DEF Init, RoundRight
<1>2. RoundRight /\ [Next]_vars /\ [pc = "project" => server' = server]_vars
          => RoundRight'
  <2> SUFFICES ASSUME RoundRight, [Next]_vars,
                      [pc = "project" => server' = server]_vars
               PROVE  RoundRight'
      OBVIOUS
  <2> USE DEF RoundRight, metadata, script, firewall, vars
  <2>1. CASE QueryInstance
        BY <2>1, AnswerFacts DEF QueryInstance, AfterInstance
  <2>2. CASE QueryProject
        BY <2>2, AnswerFacts DEF QueryProject
  <2>3. CASE ServerChanges
        BY <2>3 DEF ServerChanges
  <2>4. CASE MetadataEdited \/ UNCHANGED vars
        BY <2>4 DEF MetadataEdited
  <2>5. CASE StartUnit \/ QueryAgain \/ DeclarationFound \/ ScriptGivesUp \/ VersionFound
        BY <2>5 DEF StartUnit, QueryAgain, DeclarationFound, ScriptGivesUp, VersionFound
  <2>6. CASE RetrieveManifest \/ RetrieveAuthToken \/ InitIpTables
        BY <2>6 DEF RetrieveManifest, RetrieveAuthToken, InitIpTables, AfterInit
  <2>7. CASE AppendRule \/ RunContainer \/ AgentFails \/ StartedAnew
        BY <2>7 DEF AppendRule, RunContainer, AgentFails, StartedAnew
  <2>8. QED BY <2>1, <2>2, <2>3, <2>4, <2>5, <2>6, <2>7 DEF Next, Unit
<1>3. RoundRight => [ScriptGivesUp => ~(refused /\ count < MDS_TRIES)]_vars
      BY DEF RoundRight, ScriptGivesUp, TryAgain
<1>4. QED BY <1>1, <1>2, <1>3, PTL DEF Spec, ConnectFailuresRetried
=============================================================================

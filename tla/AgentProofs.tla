---------------------------- MODULE AgentProofs ----------------------------
(***************************************************************************)
(* What one agent does to the host, and what it can rely on, whoever else  *)
(* works on it: nothing here assumes that there is only one.  Overlap uses *)
(* these facts for both of its agents.                                     *)
(***************************************************************************)
EXTENDS ContainerRunnerProofs

(* What a step of the agent can do: nothing to the host, something to the  *)
(* volumes, remove a container, create one, or start the one it created.   *)
AgentEffect ==
    \/ /\ UNCHANGED <<containers, volumes>>
       /\ \/ pc' = "failed"
          \/ pc = "failed" /\ pc' = "waiting"
          \/ pc \in {"exec", "pull"} /\ pc' \in {"pull", "list"}
          \/ pc = "succeeded" /\ pc' = "done" /\ UNCHANGED <<spec, cid>>
    \/ /\ pc = "list" /\ UNCHANGED <<containers, volumes>>
       /\ doomed' = {i \in Ids : StartedByKonlet(containers[i], spec.name)}
       /\ pc' = AfterList(doomed')
    \/ /\ pc \in {"unmount", "prepare"} /\ UNCHANGED containers
       /\ \/ pc' \in {"unmount", "prepare", "failed"}
          \/ pc' = "create" /\ volumes' = spec /\ UNCHANGED spec
    \/ /\ pc = "remove" /\ UNCHANGED volumes
       /\ pc' \in {"remove", "unmount", "failed"}
       /\ \E i \in doomed :
             /\ containers' = [containers EXCEPT ![i] = NoContainer]
             /\ pc' # "failed" => doomed' = doomed \ {i}
             /\ pc' = "unmount" => doomed' = {}
    \/ /\ pc = "create" /\ UNCHANGED volumes
       /\ \E i \in Ids :
             /\ containers[i] = NoContainer /\ NameFree(NewName(spec))
             /\ containers' = [containers EXCEPT ![i] = NewContainer(spec)]
             /\ \/ pc' = "failed"
                \/ pc' = "start" /\ cid' = i /\ UNCHANGED spec
    \/ /\ pc = "start" /\ UNCHANGED volumes
       /\ containers[cid] # NoContainer
       /\ containers' = [containers EXCEPT ![cid].status = "running"]
       /\ \/ pc' = "failed"
          \/ pc' = "succeeded" /\ UNCHANGED <<spec, cid>>

(* Every step of the agent is one of these, and none changes the suffix.   *)
LEMMA AgentEffects ==
    ASSUME TypeOK, Agent
    PROVE  AgentEffect /\ UNCHANGED suffix
<1> USE DEF host, agent, Forget, Panic, AgentEffect
<1>1. CASE LoadDeclaration
      BY <1>1 DEF LoadDeclaration
<1>2. ASSUME NEW delivered \in BOOLEAN, PullImage(delivered)
      PROVE  AgentEffect /\ UNCHANGED suffix
      BY <1>2 DEF PullImage
<1>3. CASE ListContainers
      BY <1>3 DEF ListContainers
<1>4. ASSUME NEW i \in Ids, RemoveContainer(i) \/ RemoveReplyLost(i)
      PROVE  AgentEffect /\ UNCHANGED suffix
      BY <1>4 DEF RemoveContainer, RemoveReplyLost, AfterRemove
<1>5. CASE UnmountVolumes \/ WorkOnVolumes \/ PrepareVolumes \/ PrepareFails
      BY <1>5 DEF UnmountVolumes, WorkOnVolumes, PrepareVolumes, PrepareFails
<1>6. ASSUME NEW i \in Ids, NEW replied \in BOOLEAN, CreateContainer(i, replied)
      PROVE  AgentEffect /\ UNCHANGED suffix
      BY <1>6 DEF CreateContainer
<1>7. ASSUME NEW replied \in BOOLEAN, StartContainer(replied)
      PROVE  AgentEffect /\ UNCHANGED suffix
      BY <1>7 DEF StartContainer
<1>8. CASE CallFails \/ Exit
      BY <1>8 DEF CallFails, Exit, AfterRun
<1>9. QED BY <1>1, <1>2, <1>3, <1>4, <1>5, <1>6, <1>7, <1>8 DEF Agent

(* To the others the agent promises: containers keep what they were        *)
(* created with, and a container that appears is of this boot.             *)
Guarantee ==
    \A i \in Ids :
        containers'[i] # NoContainer =>
            IF containers[i] = NoContainer
            THEN containers'[i].fresh
            ELSE /\ containers'[i].name = containers[i].name
                 /\ containers'[i].decl = containers[i].decl
                 /\ containers'[i].fresh = containers[i].fresh

(* The promise is kept.                                                    *)
LEMMA AgentGuarantee ==
    ASSUME TypeOK, Agent
    PROVE  Guarantee
<1>1. AgentEffect
      BY AgentEffects
<1>2. CASE UNCHANGED containers
      BY <1>2 DEF Guarantee
<1>3. ASSUME NEW i \in Ids, containers' = [containers EXCEPT ![i] = NoContainer]
      PROVE  Guarantee
      BY <1>3 DEF Guarantee, TypeOK, Hosts
<1>4. CASE pc = "create"
  <2>1. spec \in Declarations
        BY <1>4 DEF TypeOK
  <2>2. CASE UNCHANGED containers
        BY <2>2 DEF Guarantee
  <2>3. ASSUME NEW i \in Ids, containers[i] = NoContainer,
               containers' = [containers EXCEPT ![i] = NewContainer(spec)]
        PROVE  Guarantee
        BY <2>1, <2>3, NewContainerFacts DEF Guarantee, TypeOK, Hosts
  <2>4. QED BY <1>1, <1>4, <2>2, <2>3 DEF AgentEffect
<1>5. ASSUME containers[cid] # NoContainer,
             containers' = [containers EXCEPT ![cid].status = "running"]
      PROVE  Guarantee
  <2>1. CASE cid \in Ids
        BY <1>5, <2>1, ConstantsAssumption DEF Guarantee, TypeOK, Hosts, Container
  <2>2. CASE cid \notin Ids
        BY <1>5, <2>2 DEF Guarantee, TypeOK, Hosts
  <2>3. QED BY <2>1, <2>2
<1>6. QED BY <1>1, <1>2, <1>3, <1>4, <1>5 DEF AgentEffect, TypeOK

----------------------------------------------------------------------------
NamesUnique ==
    \A i, j \in Konlets : containers[i].name.raw = containers[j].name.raw => i = j

FreshNames == \A i \in Konlets : containers[i].fresh => containers[i].name.sfx = suffix

(* What the agent knows of the containers of earlier boots. *)
OldOnesListed ==
    /\ pc = "remove" => \A i \in Konlets : containers[i].fresh \/ i \in doomed
    /\ pc \in {"unmount", "prepare", "create"} =>
           \A i \in Konlets : containers[i].fresh

(* No step of others takes that knowledge away.                            *)
LEMMA OldOnesStayListed ==
    ASSUME OldOnesListed, Guarantee, UNCHANGED <<pc, doomed>>
    PROVE  OldOnesListed'
BY DEF OldOnesListed, Guarantee, Konlets, GeneratedName

(* Names stay unique as long as containers only disappear. *)
LEMMA NamesStayUnique ==
    ASSUME NamesUnique, FreshNames, UNCHANGED suffix, Guarantee,
           \A i \in Ids : containers[i] = NoContainer => containers'[i] = NoContainer
    PROVE  NamesUnique' /\ FreshNames'
BY DEF NamesUnique, FreshNames, Guarantee, Konlets, GeneratedName

(* The agent keeps the names unique without knowing what others create:    *)
(* when it creates a container, all there are have the suffix of this boot *)
(* in their names, and a second one of its name is refused.                *)
LEMMA AgentKeepsNames ==
    ASSUME TypeOK, NamesUnique, FreshNames, OldOnesListed, Agent
    PROVE  NamesUnique' /\ FreshNames' /\ OldOnesListed'
<1>1. AgentEffect /\ UNCHANGED suffix /\ Guarantee
      BY AgentEffects, AgentGuarantee
<1>2. CASE pc = "create" /\ ~UNCHANGED containers
  <2>1. spec \in Declarations
        BY <1>2 DEF TypeOK
  <2>2. PICK i \in Ids :
            /\ containers[i] = NoContainer /\ NameFree(NewName(spec))
            /\ containers' = [containers EXCEPT ![i] = NewContainer(spec)]
            /\ pc' \in {"failed", "start"}
        BY <1>1, <1>2 DEF AgentEffect
  <2>3. containers'[i] = NewContainer(spec) /\ i \in Ids
        BY <2>2 DEF TypeOK, Hosts
  <2>4. \A j \in Ids \ {i} : containers'[j] = containers[j]
        BY <2>2 DEF TypeOK, Hosts
  <2>5. /\ containers'[i].name.raw = spec.name
        /\ containers'[i].name.sfx = suffix
        BY <2>3 DEF NewContainer, NewName
  <2>6. Konlets' = Konlets \union {i} /\ Konlets \subseteq Ids \ {i}
        BY <2>1, <2>2, <2>3, <2>4, NewContainerFacts DEF Konlets, GeneratedName
  <2>7. ASSUME NEW j \in Konlets PROVE containers[j].name.raw # spec.name
    <3>1. /\ j \in Ids /\ containers[j] \in Container
          /\ containers[j].name.klt = TRUE /\ containers[j] # NoContainer
          BY DEF Konlets, GeneratedName, TypeOK, Hosts, Container, Name
    <3>2. containers[j].name.sfx = suffix
          BY <1>2 DEF OldOnesListed, FreshNames
    <3>3. containers[j].name # NewName(spec)
          BY <2>2, <3>1 DEF NameFree
    <3>4. QED BY <3>1, <3>2, <3>3 DEF NewName, Container, Name
  <2>8. NamesUnique'
        BY <2>4, <2>5, <2>6, <2>7 DEF NamesUnique
  <2>9. FreshNames'
        BY <1>1, <2>4, <2>5, <2>6 DEF FreshNames
  <2>10. QED BY <2>2, <2>8, <2>9 DEF OldOnesListed
<1>3. CASE ~(pc = "create" /\ ~UNCHANGED containers)
  <2>1. \A i \in Ids : containers[i] = NoContainer => containers'[i] = NoContainer
    <3>1. CASE pc = "remove" \/ UNCHANGED containers
          BY <1>1, <3>1 DEF AgentEffect, TypeOK, Hosts
    <3>2. CASE pc = "start" /\ ~UNCHANGED containers
          BY <1>1, <3>2 DEF AgentEffect, TypeOK, Hosts
    <3>3. QED BY <1>1, <1>3, <3>1, <3>2 DEF AgentEffect
  <2>2. NamesUnique' /\ FreshNames'
        BY <1>1, <2>1, NamesStayUnique
  <2>3. OldOnesListed'
    <3>1. CASE pc = "list" /\ pc' # "failed"
      <4>1. /\ doomed' = {i \in Ids : StartedByKonlet(containers[i], spec.name)}
            /\ pc' \in {"remove", "unmount"} /\ UNCHANGED containers
            /\ pc' = "unmount" => doomed' = {}
            BY <1>1, <3>1 DEF AgentEffect, AfterList
      <4>2. Konlets' = Konlets /\ \A i \in Konlets : i \in doomed'
            BY <4>1 DEF Konlets, GeneratedName, StartedByKonlet
      <4>3. QED BY <4>1, <4>2 DEF OldOnesListed
    <3>2. CASE pc = "remove" /\ pc' # "failed"
      <4>1. PICK i \in doomed :
                /\ containers' = [containers EXCEPT ![i] = NoContainer]
                /\ doomed' = doomed \ {i} /\ pc' \in {"remove", "unmount"}
                /\ pc' = "unmount" => doomed' = {}
            BY <1>1, <3>2 DEF AgentEffect
      <4>2. \A j \in Konlets' : j # i /\ j \in Konlets /\ containers'[j] = containers[j]
            BY <4>1 DEF Konlets, GeneratedName, TypeOK, Hosts
      <4>3. QED BY <3>2, <4>1, <4>2 DEF OldOnesListed
    <3>3. CASE pc \in {"unmount", "prepare"}
          BY <1>1, <3>3 DEF AgentEffect, OldOnesListed, Konlets
    <3>4. pc \notin {"list", "remove", "unmount", "prepare"} \/ pc' = "failed" =>
              pc' \notin {"remove", "unmount", "prepare", "create"}
          BY <1>1 DEF AgentEffect
    <3>5. QED BY <3>1, <3>2, <3>3, <3>4 DEF OldOnesListed
  <2>4. QED BY <2>2, <2>3
<1>4. QED BY <1>2, <1>3

----------------------------------------------------------------------------
(* What the success of an agent says of the host when another agent was at *)
(* work, too: the values h and v are those of containers and volumes, the  *)
(* values p, s, c those of an agent's pc, spec and cid.                    *)
KonletsOf(h) == {i \in Ids : GeneratedName(h[i])}

SingleIsGood(h, v) ==
    (\A i, j \in KonletsOf(h) : i = j) =>
        \A i \in KonletsOf(h) : h[i].fresh /\ v = h[i].decl

Succeeded(p) == p \in {"succeeded", "done"}

(* An agent starts nothing but a container of konlet's. *)
StartsKonlet(h, p, c) ==
    p = "start" => c \in Ids /\ (h[c] # NoContainer => h[c].name.klt)

(* With the other agent (at q) done, whatever lets this one succeed leaves *)
(* either a second container or one that has its volumes.                  *)
Claim(h, v, p, s, c, q) ==
    Succeeded(q) =>
        /\ p = "create" => KonletsOf(h) # {} \/ v = s
        /\ p = "start" /\ h[c] # NoContainer => SingleIsGood(h, v)
        /\ Succeeded(p) => SingleIsGood(h, v)

(* What steps do to the containers. *)
Keeps(h, h2) ==
    \A i \in Ids : h[i] # NoContainer /\ h2[i] # NoContainer =>
        /\ h2[i].name = h[i].name /\ h2[i].decl = h[i].decl
        /\ h2[i].fresh = h[i].fresh

Same(h, h2) ==
    Keeps(h, h2) /\ \A i \in Ids : h2[i] = NoContainer <=> h[i] = NoContainer

Adds(h, h2, i, s) ==
    /\ h[i] = NoContainer /\ h2[i] # NoContainer
    /\ h2[i].name.klt /\ h2[i].fresh /\ h2[i].decl = s
    /\ \A j \in Ids \ {i} : h2[j] = h[j]

(* The steps of an agent that matter. *)
Succeeds(h, h2, v, v2, p, p2, s, s2, c, c2) ==
    \/ p2 \notin {"create", "start", "succeeded", "done"}
    \/ p2 = "create" /\ h2 = h /\ v2 = s2
    \/ /\ p = "create" /\ p2 = "start" /\ v2 = v
       /\ c2 \in Ids /\ Adds(h, h2, c2, s)
    \/ /\ p = "start" /\ p2 = "succeeded" /\ Same(h, h2) /\ v2 = v
       /\ c2 = c /\ h[c] # NoContainer
    \/ p = "succeeded" /\ p2 = "done" /\ h2 = h /\ v2 = v

(* Steps that keep the containers keep what the claims speak of. *)
LEMMA SameFacts ==
    ASSUME NEW h, NEW h2, Same(h, h2), NEW v
    PROVE  /\ KonletsOf(h2) = KonletsOf(h)
           /\ SingleIsGood(h, v) <=> SingleIsGood(h2, v)
<1>1. KonletsOf(h2) = KonletsOf(h)
      BY DEF KonletsOf, GeneratedName, Same, Keeps
<1>2. \A i \in KonletsOf(h) : h2[i].fresh = h[i].fresh /\ h2[i].decl = h[i].decl
      BY DEF KonletsOf, GeneratedName, Same, Keeps
<1>3. QED BY <1>1, <1>2 DEF SingleIsGood

(* Such a step of one agent (p, s, c) keeps the claims of both.            *)
LEMMA ClaimsStep ==
    ASSUME NEW h, NEW h2, NEW v, NEW v2,
           NEW p, NEW p2, NEW s, NEW s2, NEW c, NEW c2,
           NEW q, NEW t, NEW d,
           Succeeds(h, h2, v, v2, p, p2, s, s2, c, c2),
           StartsKonlet(h, p, c), StartsKonlet(h, q, d),
           p = "start" /\ q = "start" => c # d,
           Claim(h, v, p, s, c, q), Claim(h, v, q, t, d, p),
           d \in Ids /\ h[d] = NoContainer => h2[d] = NoContainer
    PROVE  Claim(h2, v2, p2, s2, c2, q) /\ Claim(h2, v2, q, t, d, p2)
<1> USE DEF Succeeded
<1>1. CASE p2 \notin {"create", "start", "succeeded", "done"}
      BY <1>1 DEF Claim
<1>2. CASE p2 = "create" /\ h2 = h /\ v2 = s2
      BY <1>2 DEF Claim
<1>3. CASE /\ p = "create" /\ p2 = "start" /\ v2 = v
           /\ c2 \in Ids /\ Adds(h, h2, c2, s)
  <2>1. /\ c2 \in KonletsOf(h2) /\ h2[c2].fresh /\ h2[c2].decl = s
        /\ KonletsOf(h2) = KonletsOf(h) \union {c2} /\ c2 \notin KonletsOf(h)
        BY <1>3 DEF Adds, KonletsOf, GeneratedName
  <2>2. Succeeded(q) => SingleIsGood(h2, v)
        BY <1>3, <2>1 DEF Claim, SingleIsGood
  <2>3. QED BY <1>3, <2>2 DEF Claim
<1>4. CASE /\ p = "start" /\ p2 = "succeeded" /\ Same(h, h2) /\ v2 = v
           /\ c2 = c /\ h[c] # NoContainer
  <2>1. /\ KonletsOf(h2) = KonletsOf(h)
        /\ SingleIsGood(h, v) <=> SingleIsGood(h2, v)
        BY <1>4, SameFacts
  <2>2. c \in KonletsOf(h)
        BY <1>4 DEF StartsKonlet, KonletsOf, GeneratedName
  <2>3. q = "start" /\ h2[d] # NoContainer => d \in KonletsOf(h) /\ c # d
        BY <1>4 DEF StartsKonlet, KonletsOf, GeneratedName
  <2>4. q = "start" /\ h2[d] # NoContainer => SingleIsGood(h2, v)
        BY <2>1, <2>2, <2>3 DEF SingleIsGood
  <2>5. QED BY <1>4, <2>1, <2>2, <2>4 DEF Claim
<1>5. CASE p = "succeeded" /\ p2 = "done" /\ h2 = h /\ v2 = v
      BY <1>5 DEF Claim
<1>6. QED BY <1>1, <1>2, <1>3, <1>4, <1>5 DEF Succeeds

(* The agent's steps are of the kinds above. *)
LEMMA AgentSucceeds ==
    ASSUME TypeOK, Agent
    PROVE  /\ Succeeds(containers, containers', volumes, volumes',
                       pc, pc', spec, spec', cid, cid')
           /\ pc' = "start" => /\ pc = "create" /\ cid' \in Ids
                              /\ containers[cid'] = NoContainer
                              /\ containers'[cid'] # NoContainer
                              /\ containers'[cid'].name.klt
           /\ Guarantee
<1>1. AgentEffect /\ Guarantee
      BY AgentEffects, AgentGuarantee
<1>2. CASE pc = "create" /\ pc' = "start"
  <2>1. spec \in Declarations
        BY <1>2 DEF TypeOK
  <2>2. /\ containers[cid'] = NoContainer /\ cid' \in Ids /\ UNCHANGED volumes
        /\ containers' = [containers EXCEPT ![cid'] = NewContainer(spec)]
        BY <1>1, <1>2 DEF AgentEffect
  <2>3. Adds(containers, containers', cid', spec)
        BY <2>1, <2>2, NewContainerFacts DEF Adds, TypeOK, Hosts
  <2>4. QED BY <1>1, <1>2, <2>2, <2>3 DEF Succeeds, Adds
<1>3. CASE pc = "start" /\ pc' = "succeeded"
  <2>1. /\ containers[cid] # NoContainer /\ UNCHANGED <<volumes, cid>>
        /\ containers' = [containers EXCEPT ![cid].status = "running"]
        BY <1>1, <1>3 DEF AgentEffect
  <2>2. \A i \in Ids : containers'[i] = NoContainer <=> containers[i] = NoContainer
    <3>1. CASE cid \in Ids
          BY <2>1, <3>1, ConstantsAssumption DEF TypeOK, Hosts, Container
    <3>2. CASE cid \notin Ids
          BY <2>1, <3>2 DEF TypeOK, Hosts
    <3>3. QED BY <3>1, <3>2
  <2>3. Same(containers, containers')
        BY <1>1, <2>2 DEF Same, Keeps, Guarantee
  <2>4. QED BY <1>1, <1>3, <2>1, <2>3 DEF Succeeds
<1>4. CASE ~(pc = "create" /\ pc' = "start") /\ ~(pc = "start" /\ pc' = "succeeded")
  <2>1. /\ Succeeds(containers, containers', volumes, volumes',
                    pc, pc', spec, spec', cid, cid')
        /\ pc' # "start"
        BY <1>1, <1>4 DEF AgentEffect, Succeeds, AfterList
  <2>2. QED BY <1>1, <2>1
<1>5. QED BY <1>2, <1>3, <1>4
=============================================================================

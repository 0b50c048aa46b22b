--------------------------- MODULE OverlapProofs ---------------------------
(***************************************************************************)
(* Proofs about Overlap, for any sets of IDs, names, declarations and      *)
(* hosts.  The lemmas of AgentProofs hold for the unit's agent as they     *)
(* stand and for the orphan by substitution.                               *)
(***************************************************************************)
EXTENDS Overlap, AgentProofs

OrphanProofs == INSTANCE AgentProofs
                    WITH pc <- opc, spec <- ospec, doomed <- odoomed, cid <- ocid

(* The two instances of ContainerRunner are one. *)
LEMMA OrphanSame ==
    /\ Orphan!TypeOK <=> OrphanProofs!TypeOK
    /\ Orphan!TypeOK' <=> OrphanProofs!TypeOK'
    /\ Orphan!Agent => OrphanProofs!Agent
<1>1. /\ Orphan!TypeOK <=> OrphanProofs!TypeOK
      /\ Orphan!TypeOK' <=> OrphanProofs!TypeOK'
      BY DEF Orphan!TypeOK, OrphanProofs!TypeOK, Orphan!Hosts,
             OrphanProofs!Hosts, Orphan!Container, OrphanProofs!Container,
             Orphan!Name, OrphanProofs!Name, Orphan!Locations,
             OrphanProofs!Locations, Orphan!Running, OrphanProofs!Running
<1>2. Orphan!Agent => OrphanProofs!Agent
      BY DEF Orphan!Agent, OrphanProofs!Agent, Orphan!Running,
             OrphanProofs!Running, Orphan!host, OrphanProofs!host,
             Orphan!agent, OrphanProofs!agent, Orphan!Forget,
             OrphanProofs!Forget, Orphan!Panic, OrphanProofs!Panic,
             Orphan!LoadDeclaration, OrphanProofs!LoadDeclaration,
             Orphan!PullImage, OrphanProofs!PullImage, Orphan!ListContainers,
             OrphanProofs!ListContainers, Orphan!RemoveContainer,
             OrphanProofs!RemoveContainer, Orphan!RemoveReplyLost,
             OrphanProofs!RemoveReplyLost, Orphan!UnmountVolumes,
             OrphanProofs!UnmountVolumes, Orphan!WorkOnVolumes,
             OrphanProofs!WorkOnVolumes, Orphan!PrepareVolumes,
             OrphanProofs!PrepareVolumes, Orphan!PrepareFails,
             OrphanProofs!PrepareFails, Orphan!CreateContainer,
             OrphanProofs!CreateContainer, Orphan!StartContainer,
             OrphanProofs!StartContainer, Orphan!CallFails,
             OrphanProofs!CallFails, Orphan!Exit, OrphanProofs!Exit,
             Orphan!StartedByKonlet, OrphanProofs!StartedByKonlet,
             Orphan!AfterList, OrphanProofs!AfterList, Orphan!AfterRemove,
             OrphanProofs!AfterRemove, Orphan!NewName, OrphanProofs!NewName,
             Orphan!NewContainer, OrphanProofs!NewContainer, Orphan!NameFree,
             OrphanProofs!NameFree, Orphan!RestartPolicyName,
             OrphanProofs!RestartPolicyName, Orphan!AfterRun,
             OrphanProofs!AfterRun, Orphan!WriteWelcomeScript,
             OrphanProofs!WriteWelcomeScript
<1>3. QED BY <1>1, <1>2

(* What AgentProofs says of an agent, said of the orphan. *)
LEMMA OrphanFacts ==
    ASSUME Orphan!TypeOK, Orphan!Agent
    PROVE  /\ Orphan!TypeOK'
           /\ OrphanProofs!AgentEffect
           /\ Guarantee /\ UNCHANGED suffix
           /\ NamesUnique /\ FreshNames /\ OrphanProofs!OldOnesListed =>
                  NamesUnique' /\ FreshNames' /\ OrphanProofs!OldOnesListed'
<1> USE ConstantsAssumption, HostsAssumption
    DEF OrphanProofs!Declaration, Declaration, OrphanProofs!Policies, Policies,
        OrphanProofs!Container, Container, OrphanProofs!Name, Name,
        OrphanProofs!Hosts, Hosts, OrphanProofs!GeneratedName, GeneratedName
<1>1. OrphanProofs!TypeOK /\ OrphanProofs!Agent
      BY OrphanSame
<1>2. OrphanProofs!TypeOK'
      BY <1>1, OrphanProofs!TypeStep DEF OrphanProofs!Next
<1>3. OrphanProofs!AgentEffect /\ UNCHANGED suffix
      BY <1>1, OrphanProofs!AgentEffects
<1>4. Guarantee
      BY <1>1, OrphanProofs!AgentGuarantee DEF Guarantee, OrphanProofs!Guarantee
<1>5. ASSUME NamesUnique, FreshNames, OrphanProofs!OldOnesListed
      PROVE  NamesUnique' /\ FreshNames' /\ OrphanProofs!OldOnesListed'
      BY <1>1, <1>5, OrphanProofs!AgentKeepsNames
         DEF NamesUnique, OrphanProofs!NamesUnique, FreshNames,
             OrphanProofs!FreshNames, Konlets, OrphanProofs!Konlets
<1>6. Orphan!TypeOK'
      BY <1>2, OrphanSame
<1>7. QED BY <1>2, <1>3, <1>4, <1>5, <1>6

----------------------------------------------------------------------------
(* The types of both agents hold on the first boot.                        *)
LEMMA OverlapTypeInit == OverlapInit => OverlapTypeOK
BY TypeInit DEF OverlapInit, OverlapTypeOK, TypeOK, Orphan!TypeOK,
   Orphan!Hosts, Hosts, Orphan!Container, Container, Orphan!Name, Name,
   Orphan!Locations, Orphan!Running

(* The types of the host and those of an agent. *)
HostTypes ==
    /\ declared \in Declarations \union {NoDeclaration}
    /\ containers \in Hosts
    /\ local \subseteq Images
    /\ volumes \in Declarations \union {NoVolumes, PartialVolumes}
    /\ suffix \in Suffixes
    /\ welcome \in {"none", "succeeded", "failed"}

AgentTypes(p, s, d, c) ==
    /\ p \in Locations
    /\ s \in Declarations \union {NoDeclaration}
    /\ p \in {"pull", "list", "remove", "unmount", "prepare", "create",
             "start", "succeeded", "done"} => s \in Declarations
    /\ d \subseteq Ids
    /\ c \in Ids \union {NoId}

(* Both agents share the first. *)
LEMMA TypesSplit ==
    /\ TypeOK <=> HostTypes /\ AgentTypes(pc, spec, doomed, cid)
    /\ TypeOK' <=> HostTypes' /\ AgentTypes(pc', spec', doomed', cid')
    /\ Orphan!TypeOK <=> HostTypes /\ AgentTypes(opc, ospec, odoomed, ocid)
    /\ Orphan!TypeOK' <=> HostTypes' /\ AgentTypes(opc', ospec', odoomed', ocid')
BY DEF TypeOK, Orphan!TypeOK, HostTypes, AgentTypes, Orphan!Hosts, Hosts,
       Orphan!Container, Container, Orphan!Name, Name, Orphan!Locations,
       Orphan!Running, Locations, Running

(* Every step preserves them: the step of one agent leaves the variables   *)
(* of the other alone, and what it does to the host is well typed.         *)
LEMMA OverlapTypeStep ==
    ASSUME OverlapTypeOK, [OverlapNext]_overlapVars
    PROVE  OverlapTypeOK'
<1> USE TypesSplit DEF OverlapTypeOK, orphan, history
<1>1. CASE UnitStep
  <2>1. TypeOK'
        BY <1>1, TypeStep DEF UnitStep, Next
  <2>2. QED BY <1>1, <2>1 DEF UnitStep
<1>2. CASE OrphanStep
  <2>1. Orphan!TypeOK'
        BY <1>2, OrphanFacts DEF OrphanStep
  <2>2. QED BY <1>2, <2>1 DEF OrphanStep, agent
<1>3. CASE Detach
      BY <1>3 DEF Detach, Forget, host, Locations, Running, HostTypes,
         AgentTypes
<1>4. CASE UnitStarts
  <2>1. TypeOK'
        BY <1>4, TypeStep DEF UnitStarts, Next
  <2>2. alone' \in BOOLEAN /\ tampered' \in BOOLEAN
        BY <1>4 DEF UnitStarts
  <2>3. QED BY <1>4, <2>1, <2>2 DEF UnitStarts
<1>5. CASE OrphanKilled
      BY <1>5 DEF OrphanKilled, Orphan!Crash, Orphan!Forget, Orphan!host,
         agent, Locations, Running, HostTypes, AgentTypes
<1>6. CASE VMReboots
  <2>1. TypeOK'
        BY <1>6, TypeStep DEF VMReboots, Next, Disturbance
  <2>2. QED BY <1>6, <2>1 DEF VMReboots, Locations, AgentTypes
<1>7. ASSUME NEW i \in Ids, UserTampers(i) PROVE OverlapTypeOK'
  <2>1. TypeOK'
        BY <1>7, TypeStep DEF UserTampers, Next, Disturbance
  <2>2. tampered' \in BOOLEAN /\ alone' \in BOOLEAN
        BY <1>7 DEF UserTampers, UserRemoves
  <2>3. QED BY <1>7, <2>1, <2>2 DEF UserTampers
<1>8. CASE /\ ScriptGivesUp \/ Crash \/ OperatorStarts \/ EditDeclaration
           /\ UNCHANGED <<orphan, history>>
  <2>1. TypeOK'
        BY <1>8, TypeStep DEF Next, Disturbance
  <2>2. QED BY <1>8, <2>1
<1>9. CASE UNCHANGED overlapVars
  <2>1. TypeOK'
        BY <1>9, TypeStep DEF overlapVars
  <2>2. QED BY <1>9, <2>1 DEF overlapVars
<1>10. QED
  BY <1>1, <1>2, <1>3, <1>4, <1>5, <1>6, <1>7, <1>8, <1>9 DEF OverlapNext

(* Both agents are well typed, for all values of the constants.            *)
THEOREM OverlapTypeCorrect == OverlapSpec => []OverlapTypeOK
<1>1. QED BY OverlapTypeInit, OverlapTypeStep, PTL DEF OverlapSpec

----------------------------------------------------------------------------
(* Names stay unique because every agent that may create has seen all the  *)
(* containers of earlier boots go.                                         *)
NamesInv ==
    /\ NamesUnique /\ FreshNames
    /\ OldOnesListed /\ OrphanProofs!OldOnesListed

(* It holds on the first boot. *)
LEMMA NamesInit == OverlapInit => NamesInv
BY HostsAssumption
   DEF OverlapInit, Init, NamesInv, NamesUnique, FreshNames, OldOnesListed,
       OrphanProofs!OldOnesListed, Konlets, GeneratedName

(* No step of one agent takes from the other what it knows. *)
LEMMA KnowledgeKept ==
    ASSUME NamesInv, Guarantee
    PROVE  /\ UNCHANGED <<pc, doomed>> => OldOnesListed'
           /\ UNCHANGED <<opc, odoomed>> => OrphanProofs!OldOnesListed'
BY DEF NamesInv, OldOnesListed, OrphanProofs!OldOnesListed, Guarantee, Konlets,
       OrphanProofs!Konlets, GeneratedName, OrphanProofs!GeneratedName

(* Every step preserves it.                                                *)
LEMMA NamesStep ==
    ASSUME OverlapTypeOK, NamesInv, [OverlapNext]_overlapVars
    PROVE  NamesInv'
<1> USE DEF OverlapTypeOK, orphan, history
<1>1. CASE UnitStep
  <2>1. NamesUnique' /\ FreshNames' /\ OldOnesListed' /\ Guarantee
        BY <1>1, AgentKeepsNames, AgentGuarantee DEF UnitStep, NamesInv
  <2>2. QED BY <1>1, <2>1, KnowledgeKept DEF UnitStep, NamesInv
<1>2. CASE OrphanStep
  <2>1. NamesUnique' /\ FreshNames' /\ OrphanProofs!OldOnesListed' /\ Guarantee
        BY <1>2, OrphanFacts DEF OrphanStep, NamesInv
  <2>2. QED BY <1>2, <2>1, KnowledgeKept DEF OrphanStep, NamesInv, agent
<1>3. CASE Detach
      BY <1>3 DEF Detach, host, NamesInv, NamesUnique, FreshNames, OldOnesListed,
         OrphanProofs!OldOnesListed, Konlets, GeneratedName,
         OrphanProofs!Konlets, OrphanProofs!GeneratedName
<1>4. CASE VMReboots
  <2>1. Konlets' = Konlets /\ \A i \in Konlets : ~containers'[i].fresh
                             /\ containers'[i].name = containers[i].name
        BY <1>4, RebootFacts DEF VMReboots, Konlets, GeneratedName
  <2>2. pc' = "boot" /\ opc' = "inactive"
        BY <1>4 DEF VMReboots, Reboot
  <2>3. QED
    BY <2>1, <2>2 DEF NamesInv, NamesUnique, FreshNames, OldOnesListed,
       OrphanProofs!OldOnesListed
<1>5. ASSUME NEW i \in Ids, UserTampers(i) PROVE NamesInv'
  <2>1. Guarantee /\ UNCHANGED <<suffix, pc, doomed, opc, odoomed>>
        /\ \A j \in Ids : containers[j] = NoContainer => containers'[j] = NoContainer
        BY <1>5 DEF UserTampers, UserRemoves, Guarantee, agent, TypeOK, Hosts
  <2>2. QED BY <2>1, KnowledgeKept, NamesStayUnique DEF NamesInv
<1>6. ASSUME UNCHANGED <<containers, suffix, opc, odoomed>>,
             pc' \notin {"remove", "unmount", "prepare", "create"}
      PROVE  NamesInv'
      BY <1>6 DEF NamesInv, NamesUnique, FreshNames, OldOnesListed,
         OrphanProofs!OldOnesListed, Konlets, GeneratedName,
         OrphanProofs!Konlets, OrphanProofs!GeneratedName
<1>7. CASE OrphanKilled
      BY <1>7 DEF OrphanKilled, Orphan!Crash, Orphan!host, agent,
         NamesInv, NamesUnique, FreshNames, OldOnesListed,
         OrphanProofs!OldOnesListed, Konlets, GeneratedName,
         OrphanProofs!Konlets, OrphanProofs!GeneratedName
<1>8. CASE \/ UnitStarts
           \/ /\ ScriptGivesUp \/ Crash \/ OperatorStarts
              /\ UNCHANGED <<orphan, history>>
      BY <1>6, <1>8 DEF UnitStarts, ServiceStarts, ScriptGivesUp, Crash,
         OperatorStarts, host
<1>9. CASE UNCHANGED <<containers, suffix, pc, doomed, opc, odoomed>>
      BY <1>9 DEF NamesInv, NamesUnique, FreshNames, OldOnesListed,
         OrphanProofs!OldOnesListed, Konlets, GeneratedName,
         OrphanProofs!Konlets, OrphanProofs!GeneratedName
<1>10. QED
  BY <1>1, <1>2, <1>3, <1>4, <1>5, <1>7, <1>8, <1>9
     DEF OverlapNext, EditDeclaration, agent, overlapVars, vars, host

(* Two agents never make two containers for one name, whatever they do to  *)
(* each other.                                                             *)
THEOREM OneKonletEach == OverlapSpec => []OneKonletPerName
<1>1. NamesInv => OneKonletPerName
      BY DEF NamesInv, NamesUnique, OneKonletPerName
<1>2. QED
  BY <1>1, NamesInit, NamesStep, OverlapTypeCorrect, PTL DEF OverlapSpec

----------------------------------------------------------------------------
(* A run that has the host for itself, from any state of the host. *)
Repaired ==
    \A i, j \in Konlets :
        i = j /\ containers[i].fresh /\ containers[i].decl = spec /\ volumes = spec

Repairing ==
    /\ pc = "remove" => Konlets \subseteq doomed
    /\ pc \in {"unmount", "prepare", "create"} => Konlets = {}
    /\ pc \in {"create", "start"} => volumes = spec
    /\ pc \in {"start", "succeeded", "done"} => Repaired

(* The agent's own steps lead from one stage of the repair to the next.    *)
LEMMA RepairStep ==
    ASSUME TypeOK, Repairing, Agent
    PROVE  Repairing'
<1>1. AgentEffect
      BY AgentEffects
<1>2. CASE pc' = "failed" \/ pc \in {"exec", "pull", "failed"}
      BY <1>1, <1>2 DEF AgentEffect, Repairing
<1>3. CASE pc = "succeeded" /\ pc' # "failed"
      BY <1>1, <1>3 DEF AgentEffect, Repairing, Repaired, Konlets
<1>4. CASE pc = "list" /\ pc' # "failed"
  <2>1. /\ doomed' = {i \in Ids : StartedByKonlet(containers[i], spec.name)}
        /\ pc' \in {"remove", "unmount"} /\ UNCHANGED containers
        /\ pc' = "unmount" => doomed' = {}
        BY <1>1, <1>4 DEF AgentEffect, AfterList
  <2>2. Konlets' = Konlets /\ Konlets \subseteq doomed'
        BY <2>1 DEF Konlets, GeneratedName, StartedByKonlet
  <2>3. QED BY <2>1, <2>2 DEF Repairing
<1>5. CASE pc = "remove" /\ pc' # "failed"
  <2>1. PICK i \in doomed :
            /\ containers' = [containers EXCEPT ![i] = NoContainer]
            /\ doomed' = doomed \ {i} /\ pc' \in {"remove", "unmount"}
            /\ pc' = "unmount" => doomed' = {}
        BY <1>1, <1>5 DEF AgentEffect
  <2>2. Konlets' \subseteq Konlets \ {i}
        BY <2>1 DEF Konlets, GeneratedName, TypeOK, Hosts
  <2>3. QED BY <1>5, <2>1, <2>2 DEF Repairing
<1>6. CASE pc \in {"unmount", "prepare"} /\ pc' # "failed"
      BY <1>1, <1>6 DEF AgentEffect, Repairing, Konlets
<1>7. CASE pc = "create" /\ pc' # "failed"
  <2>1. spec \in Declarations
        BY <1>7 DEF TypeOK
  <2>2. PICK i \in Ids :
            /\ containers' = [containers EXCEPT ![i] = NewContainer(spec)]
            /\ pc' = "start" /\ UNCHANGED <<spec, volumes>>
        BY <1>1, <1>7 DEF AgentEffect
  <2>3. Konlets' \subseteq {i} /\ containers'[i] = NewContainer(spec)
        BY <1>7, <2>2 DEF Repairing, Konlets, GeneratedName, TypeOK, Hosts
  <2>4. QED BY <1>7, <2>1, <2>2, <2>3, NewContainerFacts DEF Repairing, Repaired
<1>8. CASE pc = "start" /\ pc' # "failed"
  <2>1. Guarantee
        BY AgentGuarantee
  <2>2. /\ pc' = "succeeded" /\ UNCHANGED <<spec, volumes>>
        /\ \A i \in Ids : containers[i] = NoContainer => containers'[i] = NoContainer
        BY <1>1, <1>8 DEF AgentEffect, TypeOK, Hosts
  <2>3. QED
    BY <1>8, <2>1, <2>2 DEF Repairing, Repaired, Guarantee, Konlets, GeneratedName
<1>9. QED
  BY <1>1, <1>2, <1>3, <1>4, <1>5, <1>6, <1>7, <1>8 DEF AgentEffect, TypeOK

(* A lone run stays alone: the run that an orphan would come from is over. *)
LoneInv ==
    alone /\ pc \in Running \union {"done"} => opc \notin Running /\ Repairing

(* Every step preserves that.                                              *)
LEMMA LoneStep ==
    ASSUME OverlapTypeOK, LoneInv, [OverlapNext]_overlapVars
    PROVE  LoneInv'
<1> USE DEF OverlapTypeOK, orphan, history, Running
<1>1. CASE UnitStep
  <2>1. pc \in Running /\ Agent /\ UNCHANGED <<opc, alone>>
        BY <1>1 DEF UnitStep, Agent, LoadDeclaration, PullImage, ListContainers,
           RemoveContainer, RemoveReplyLost, UnmountVolumes, WorkOnVolumes,
           PrepareVolumes, PrepareFails, CreateContainer, StartContainer,
           CallFails, Exit
  <2>2. QED BY <2>1, RepairStep DEF LoneInv
<1>2. CASE OrphanStep
  <2>1. opc \in Running /\ UNCHANGED <<pc, alone>>
        BY <1>2 DEF OrphanStep, Orphan!Agent, Orphan!LoadDeclaration,
           Orphan!PullImage, Orphan!ListContainers, Orphan!RemoveContainer,
           Orphan!RemoveReplyLost, Orphan!UnmountVolumes, Orphan!WorkOnVolumes,
           Orphan!PrepareVolumes, Orphan!PrepareFails, Orphan!CreateContainer,
           Orphan!StartContainer, Orphan!CallFails, Orphan!Exit
  <2>2. QED BY <2>1 DEF LoneInv
<1>3. ASSUME pc' \in {"boot", "waiting", "inactive"}
      PROVE  LoneInv'
      BY <1>3 DEF LoneInv
<1>4. CASE UnitStarts
      BY <1>4 DEF UnitStarts, ServiceStarts, LoneInv, Repairing
<1>5. CASE OrphanKilled
      BY <1>5 DEF OrphanKilled, Orphan!Crash, Orphan!host, agent, LoneInv,
         Repairing, Repaired, Konlets, GeneratedName
<1>6. ASSUME NEW i \in Ids, UserTampers(i) PROVE LoneInv'
  <2>1. /\ UNCHANGED <<volumes, pc, spec, doomed, opc, alone>>
        /\ containers' = [containers EXCEPT ![i] = NoContainer]
        BY <1>6 DEF UserTampers, UserRemoves, agent
  <2>2. \A j \in Konlets' : j \in Konlets /\ containers'[j] = containers[j]
        BY <2>1 DEF Konlets, GeneratedName, TypeOK, Hosts
  <2>3. QED BY <2>1, <2>2 DEF LoneInv, Repairing, Repaired
<1>7. CASE UNCHANGED <<containers, volumes, pc, spec, doomed, opc, alone>>
      BY <1>7 DEF LoneInv, Repairing, Repaired, Konlets, GeneratedName
<1>8. QED
  BY <1>1, <1>2, <1>3, <1>4, <1>5, <1>6, <1>7
     DEF OverlapNext, Detach, VMReboots, Reboot, ScriptGivesUp, Crash,
         OperatorStarts, EditDeclaration, agent, overlapVars, vars, host

(* A run without an orphan beside it repairs what two agents left.         *)
THEOREM LoneRunsRepair == OverlapSpec => []LoneRunRepairs
<1>1. OverlapInit => LoneInv
      BY DEF OverlapInit, Init, LoneInv, Running
<1>2. LoneInv => LoneRunRepairs
      BY DEF LoneInv, Repairing, Repaired, LoneRunRepairs
<1>3. QED
  BY <1>1, <1>2, LoneStep, OverlapTypeCorrect, PTL DEF OverlapSpec

----------------------------------------------------------------------------
DamageInv ==
    /\ StartsKonlet(containers, pc, cid) /\ StartsKonlet(containers, opc, ocid)
    /\ pc = "start" /\ opc = "start" => cid # ocid
    /\ ~tampered =>
           /\ Claim(containers, volumes, pc, spec, cid, opc)
           /\ Claim(containers, volumes, opc, ospec, ocid, pc)

(* The orphan's steps are of the kinds that ClaimsStep knows. *)
LEMMA OrphanSucceeds ==
    ASSUME Orphan!TypeOK, Orphan!Agent
    PROVE  /\ Succeeds(containers, containers', volumes, volumes',
                       opc, opc', ospec, ospec', ocid, ocid')
           /\ opc' = "start" => /\ opc = "create" /\ ocid' \in Ids
                               /\ containers[ocid'] = NoContainer
                               /\ containers'[ocid'] # NoContainer
                               /\ containers'[ocid'].name.klt
<1> USE ConstantsAssumption, HostsAssumption
    DEF OrphanProofs!Declaration, Declaration, OrphanProofs!Policies, Policies,
        OrphanProofs!Container, Container, OrphanProofs!Name, Name,
        OrphanProofs!Hosts, Hosts, OrphanProofs!GeneratedName, GeneratedName
<1>1. OrphanProofs!TypeOK /\ OrphanProofs!Agent
      BY OrphanSame
<1>2. QED
  BY <1>1, OrphanProofs!AgentSucceeds
     DEF Succeeds, OrphanProofs!Succeeds, Adds, OrphanProofs!Adds,
         Same, OrphanProofs!Same, Keeps, OrphanProofs!Keeps

(* Every step preserves the claims.                                        *)
LEMMA DamageStep ==
    ASSUME OverlapTypeOK, DamageInv, [OverlapNext]_overlapVars
    PROVE  DamageInv'
<1> USE DEF OverlapTypeOK, orphan, history
<1>1. CASE UnitStep
  <2>1. /\ Succeeds(containers, containers', volumes, volumes',
                    pc, pc', spec, spec', cid, cid')
        /\ pc' = "start" => /\ pc = "create" /\ cid' \in Ids
                           /\ containers[cid'] = NoContainer
                           /\ containers'[cid'] # NoContainer
                           /\ containers'[cid'].name.klt
        /\ Guarantee /\ NewIdsUnknown
        /\ UNCHANGED <<opc, ospec, odoomed, ocid, tampered>>
        BY <1>1, AgentSucceeds DEF UnitStep
  <2>2. ocid \in Ids /\ containers[ocid] = NoContainer =>
            containers'[ocid] = NoContainer
        BY <2>1 DEF NewIdsUnknown
  <2>3. ~tampered =>
            /\ Claim(containers', volumes', pc', spec', cid', opc)
            /\ Claim(containers', volumes', opc, ospec, ocid, pc')
        BY <2>1, <2>2, ClaimsStep DEF DamageInv
  <2>4. StartsKonlet(containers', opc, ocid)
        BY <2>1, <2>2 DEF DamageInv, StartsKonlet, Guarantee
  <2>5. StartsKonlet(containers', pc', cid')
        BY <2>1 DEF StartsKonlet
  <2>6. pc' = "start" /\ opc = "start" => cid' # ocid
        BY <2>1 DEF NewIdsUnknown
  <2>7. QED BY <2>1, <2>3, <2>4, <2>5, <2>6 DEF DamageInv
<1>2. CASE OrphanStep
  <2>1. /\ Succeeds(containers, containers', volumes, volumes',
                    opc, opc', ospec, ospec', ocid, ocid')
        /\ opc' = "start" => /\ opc = "create" /\ ocid' \in Ids
                            /\ containers[ocid'] = NoContainer
                            /\ containers'[ocid'] # NoContainer
                            /\ containers'[ocid'].name.klt
        /\ Guarantee /\ NewIdsUnknown
        /\ UNCHANGED <<pc, spec, doomed, cid, tampered>>
        BY <1>2, OrphanSucceeds, OrphanFacts DEF OrphanStep, agent
  <2>2. cid \in Ids /\ containers[cid] = NoContainer => containers'[cid] = NoContainer
        BY <2>1 DEF NewIdsUnknown
  <2>3. ~tampered =>
            /\ Claim(containers', volumes', pc, spec, cid, opc')
            /\ Claim(containers', volumes', opc', ospec', ocid', pc)
        BY <2>1, <2>2, ClaimsStep DEF DamageInv
  <2>4. StartsKonlet(containers', pc, cid)
        BY <2>1, <2>2 DEF DamageInv, StartsKonlet, Guarantee
  <2>5. StartsKonlet(containers', opc', ocid')
        BY <2>1 DEF StartsKonlet
  <2>6. pc = "start" /\ opc' = "start" => cid # ocid'
        BY <2>1 DEF NewIdsUnknown
  <2>7. QED BY <2>1, <2>3, <2>4, <2>5, <2>6 DEF DamageInv
<1>3. CASE Detach
      BY <1>3 DEF Detach, Forget, host, DamageInv, Claim, StartsKonlet, Succeeded
<1>4. CASE UnitStarts
      BY <1>4 DEF UnitStarts, ServiceStarts, host, agent, DamageInv, Claim,
         StartsKonlet, Succeeded
<1>5. CASE OrphanKilled
      BY <1>5 DEF OrphanKilled, Orphan!Crash, Orphan!Forget, Orphan!host, agent,
         DamageInv, Claim, StartsKonlet, Succeeded
<1>6. CASE VMReboots
      BY <1>6 DEF VMReboots, Reboot, Forget, DamageInv, Claim, StartsKonlet,
         Succeeded
<1>7. ASSUME NEW i \in Ids, UserTampers(i) PROVE DamageInv'
  <2>1. /\ UNCHANGED <<volumes, pc, spec, cid, opc, ospec, ocid>>
        /\ containers[i] # NoContainer
        /\ containers' = [containers EXCEPT ![i] = NoContainer]
        /\ tampered' = (tampered \/ containers[i].name.klt)
        BY <1>7 DEF UserTampers, UserRemoves, agent
  <2>2. StartsKonlet(containers', pc, cid) /\ StartsKonlet(containers', opc, ocid)
        BY <2>1 DEF DamageInv, StartsKonlet, TypeOK, Hosts
  <2>3. ASSUME ~tampered'
        PROVE  /\ KonletsOf(containers') = KonletsOf(containers)
               /\ \A j \in KonletsOf(containers) : containers'[j] = containers[j]
        BY <2>1, <2>3 DEF KonletsOf, GeneratedName, TypeOK, Hosts
  <2>4. ASSUME ~tampered'
        PROVE  SingleIsGood(containers, volumes) => SingleIsGood(containers', volumes)
        BY <2>3, <2>4 DEF SingleIsGood
  <2>5. \A j \in Ids : containers'[j] # NoContainer => containers[j] # NoContainer
        BY <2>1 DEF TypeOK, Hosts
  <2>6. ASSUME ~tampered'
        PROVE  /\ Claim(containers', volumes, pc, spec, cid, opc)
               /\ Claim(containers', volumes, opc, ospec, ocid, pc)
        BY <2>1, <2>3, <2>4, <2>5, <2>6 DEF DamageInv, Claim, StartsKonlet
  <2>7. QED BY <2>1, <2>2, <2>6 DEF DamageInv
<1>8. CASE /\ ScriptGivesUp \/ Crash \/ OperatorStarts \/ EditDeclaration
           /\ UNCHANGED <<orphan, history>>
      BY <1>8 DEF ScriptGivesUp, Crash, OperatorStarts, EditDeclaration, Forget,
         host, agent, DamageInv, Claim, StartsKonlet, Succeeded
<1>9. CASE UNCHANGED overlapVars
      BY <1>9 DEF overlapVars, vars, host, agent, DamageInv
<1>10. QED
  BY <1>1, <1>2, <1>3, <1>4, <1>5, <1>6, <1>7, <1>8, <1>9 DEF OverlapNext

(* Two agents that both report success did not damage the container of the *)
(* one by the volumes of the other, unless there are two to see.           *)
THEOREM DamageIsReported == OverlapSpec => []NoSilentDamage
<1>1. OverlapInit => DamageInv
      BY DEF OverlapInit, Init, DamageInv, Claim, StartsKonlet, Succeeded
<1>2. DamageInv => NoSilentDamage
      BY DEF DamageInv, Claim, Succeeded, SingleIsGood, KonletsOf, Konlets,
         NoSilentDamage
<1>3. QED
  BY <1>1, <1>2, DamageStep, OverlapTypeCorrect, PTL DEF OverlapSpec
----------------------------------------------------------------------------
(* A machine whose declarations all have one name.                         *)
AllNamed(name) == \A i \in Konlets : containers[i].name.raw = name

(* A container is either kept or created by one of the two agents.         *)
LEMMA KonletOrigins ==
    ASSUME OverlapTypeOK, [OverlapNext]_overlapVars, NEW i \in Konlets'
    PROVE  \/ i \in Konlets /\ containers'[i].name = containers[i].name
           \/ \E d \in Declarations : containers'[i].name.raw = d.name
<1> USE DEF OverlapTypeOK
<1>1. i \in Ids /\ containers'[i] # NoContainer /\ containers'[i].name.klt
      BY DEF Konlets, GeneratedName
<1>2. ASSUME Guarantee, containers[i] # NoContainer
      PROVE  i \in Konlets /\ containers'[i].name = containers[i].name
      BY <1>1, <1>2 DEF Guarantee, Konlets, GeneratedName
<1>3. ASSUME NEW d \in Declarations, NEW j \in Ids,
             containers' = [containers EXCEPT ![j] = NewContainer(d)],
             containers[i] = NoContainer
      PROVE  containers'[i].name.raw = d.name
  <2>1. containers'[i] = NewContainer(d)
        BY <1>1, <1>3 DEF TypeOK, Hosts
  <2>2. NewContainer(d).name.raw = d.name
        BY DEF NewContainer, NewName
  <2>3. QED BY <2>1, <2>2
<1>4. CASE UnitStep /\ containers[i] = NoContainer
  <2>1. AgentEffect
        BY <1>4, AgentEffects DEF UnitStep
  <2>2. pc = "create" => spec \in Declarations
        BY DEF TypeOK
  <2>3. QED BY <1>1, <1>3, <1>4, <2>1, <2>2 DEF AgentEffect, TypeOK, Hosts
<1>5. CASE OrphanStep /\ containers[i] = NoContainer
  <2>1. OrphanProofs!AgentEffect
        BY <1>5, OrphanFacts DEF OrphanStep
  <2>2. opc = "create" => ospec \in Declarations
        BY DEF Orphan!TypeOK
  <2>3. ASSUME NEW d PROVE OrphanProofs!NewContainer(d) = NewContainer(d)
        BY DEF OrphanProofs!NewContainer, NewContainer, OrphanProofs!NewName, NewName
  <2>4. QED BY <1>1, <1>3, <1>5, <2>1, <2>2, <2>3
            DEF OrphanProofs!AgentEffect, TypeOK, Hosts
<1>6. CASE UnitStep \/ OrphanStep
      BY <1>2, <1>4, <1>5, <1>6, AgentGuarantee, OrphanFacts DEF UnitStep, OrphanStep
<1>7. CASE VMReboots
      BY <1>1, <1>7, RebootFacts DEF VMReboots, Konlets, GeneratedName
<1>8. CASE \E j \in Ids : UserTampers(j)
      BY <1>1, <1>8 DEF UserTampers, UserRemoves, TypeOK, Hosts, Konlets, GeneratedName
<1>9. CASE UNCHANGED containers
      BY <1>9 DEF Konlets, GeneratedName
<1>10. QED
  BY <1>6, <1>7, <1>8, <1>9
     DEF OverlapNext, Detach, UnitStarts, ServiceStarts, OrphanKilled, Orphan!Crash,
         Orphan!host, ScriptGivesUp, Crash, OperatorStarts, EditDeclaration,
         overlapVars, vars, host

(* Two agents at once leave one container, and damage none without saying  *)
(* so, on a machine whose declarations all have the same name: the name    *)
(* that changes between their runs is the only way to a second container.  *)
THEOREM OverlapUnderOneName ==
    ASSUME NEW name,
           \A d \in Declarations : d.name = name,
           \A h \in InitialHosts : \A i \in Ids :
               GeneratedName(h[i]) => h[i].name.raw = name
    PROVE  OverlapSpec =>
               /\ []AtMostOneKonlet
               /\ [](pc = "done" /\ opc = "done" /\ ~tampered =>
                        \A i \in Konlets :
                            containers[i].fresh /\ volumes = containers[i].decl)
<1>1. OverlapInit => AllNamed(name)
      BY DEF OverlapInit, Init, AllNamed, Konlets
<1>2. OverlapTypeOK /\ AllNamed(name) /\ [OverlapNext]_overlapVars => AllNamed(name)'
  <2> SUFFICES ASSUME OverlapTypeOK, AllNamed(name), [OverlapNext]_overlapVars,
                      NEW i \in Konlets'
               PROVE  containers'[i].name.raw = name
      BY DEF AllNamed
  <2>1. QED BY KonletOrigins DEF AllNamed
<1>3. OneKonletPerName /\ AllNamed(name) => AtMostOneKonlet
      BY DEF OneKonletPerName, AllNamed, AtMostOneKonlet
<1>4. NoSilentDamage /\ AtMostOneKonlet =>
          (pc = "done" /\ opc = "done" /\ ~tampered =>
               \A i \in Konlets :
                   containers[i].fresh /\ volumes = containers[i].decl)
      BY DEF NoSilentDamage, AtMostOneKonlet
<1>5. QED
  BY <1>1, <1>2, <1>3, <1>4, OneKonletEach, DamageIsReported, OverlapTypeCorrect, PTL
     DEF OverlapSpec
=============================================================================

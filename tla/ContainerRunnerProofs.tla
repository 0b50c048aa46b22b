----------------------- MODULE ContainerRunnerProofs -----------------------
(***************************************************************************)
(* Proofs about ContainerRunner, for any set of container IDs, names,      *)
(* declarations and hosts.                                                 *)
(***************************************************************************)
EXTENDS ContainerRunner, TLAPS

(* What a boot does to one container. *)
LEMMA AfterRebootFacts ==
    ASSUME NEW c \in Container \union {NoContainer}, NEW d \in AfterReboot(c)
    PROVE  /\ d \in Container \union {NoContainer}
           /\ d = NoContainer <=> c = NoContainer
           /\ c # NoContainer =>
                  d.name = c.name /\ d.decl = c.decl /\ ~d.fresh
<1>1. CASE c = NoContainer
      BY <1>1 DEF AfterReboot
<1>2. CASE c # NoContainer
  <2>1. c \in Container
        BY <1>2
  <2>2. PICK s \in {"created", "running", "exited"} :
            d = [c EXCEPT !.fresh = FALSE, !.status = s]
    <3>1. CASE c.status # "running"
          BY <1>2, <2>1, <3>1 DEF AfterReboot, Container
    <3>2. CASE c.status = "running"
      <4>1. CASE c.decl # NoDeclaration
                 /\ RestartPolicyName(c.decl.policy) = "no"
            BY <1>2, <2>1, <3>2, <4>1 DEF AfterReboot
      <4>2. CASE ~(c.decl # NoDeclaration
                   /\ RestartPolicyName(c.decl.policy) = "no")
            BY <1>2, <2>1, <3>2, <4>2 DEF AfterReboot
      <4>3. QED BY <4>1, <4>2
    <3>3. QED BY <3>1, <3>2
  <2>3. d \in Container /\ d.name = c.name /\ d.decl = c.decl /\ d.fresh = FALSE
        BY <2>1, <2>2 DEF Container
  <2>4. d # NoContainer
        BY <2>3, ConstantsAssumption
  <2>5. QED BY <1>2, <2>3, <2>4
<1>3. QED BY <1>1, <1>2

(* What a boot does to all of them. *)
LEMMA RebootFacts ==
    ASSUME TypeOK, Reboot
    PROVE  /\ containers' \in Hosts
           /\ \A i \in Ids :
                  /\ containers'[i] = NoContainer <=> containers[i] = NoContainer
                  /\ containers[i] # NoContainer =>
                         /\ containers'[i].name = containers[i].name
                         /\ containers'[i].decl = containers[i].decl
                         /\ ~containers'[i].fresh
<1>1. \A i \in Ids : containers[i] \in Container \union {NoContainer}
      BY DEF TypeOK, Hosts
<1>2. \A i \in Ids : containers'[i] \in AfterReboot(containers[i])
      BY DEF Reboot
<1>3. containers' = [i \in Ids |-> containers'[i]]
      BY DEF Reboot
<1>4. QED BY <1>1, <1>2, <1>3, AfterRebootFacts DEF Hosts

(* The container that a run creates.                                       *)
LEMMA NewContainerFacts ==
    ASSUME TypeOK, NEW d \in Declarations
    PROVE  /\ NewContainer(d) \in Container
           /\ NewContainer(d) # NoContainer
           /\ NewContainer(d).name.klt = TRUE
           /\ NewContainer(d).fresh = TRUE
           /\ NewContainer(d).decl = d
<1>1. NewContainer(d) \in Container
      BY ConstantsAssumption DEF TypeOK, NewContainer, NewName, Container, Name,
         Declaration
<1>2. QED BY <1>1, ConstantsAssumption DEF NewContainer, NewName

----------------------------------------------------------------------------
(* The initial states are well typed.                                      *)
LEMMA TypeInit == Init => TypeOK
BY ConstantsAssumption, HostsAssumption
   DEF Init, TypeOK, Locations, Running

(* Every step preserves the types: one case per action.                    *)
LEMMA TypeStep == TypeOK /\ [Next]_vars => TypeOK'
<1> SUFFICES ASSUME TypeOK, [Next]_vars PROVE TypeOK'
    OBVIOUS
<1> USE ConstantsAssumption DEF TypeOK, Locations, Running, host, agent, Forget, Panic
<1>1. CASE ServiceStarts
      BY <1>1 DEF ServiceStarts
<1>2. CASE LoadDeclaration
      BY <1>2 DEF LoadDeclaration
<1>3. ASSUME NEW delivered \in BOOLEAN, PullImage(delivered) PROVE TypeOK'
      BY <1>3 DEF PullImage, Declaration
<1>4. CASE ListContainers
      BY <1>4 DEF ListContainers, AfterList
<1>5. ASSUME NEW i \in Ids, RemoveContainer(i) PROVE TypeOK'
      BY <1>5 DEF RemoveContainer, AfterRemove, Hosts
<1>6. ASSUME NEW i \in Ids, RemoveReplyLost(i) PROVE TypeOK'
      BY <1>6 DEF RemoveReplyLost, Hosts
<1>7. CASE UnmountVolumes
      BY <1>7 DEF UnmountVolumes
<1>8. CASE PrepareVolumes
      BY <1>8 DEF PrepareVolumes
<1>9. CASE PrepareFails
      BY <1>9 DEF PrepareFails
<1>10. ASSUME NEW i \in Ids, NEW replied \in BOOLEAN,
              CreateContainer(i, replied)
       PROVE  TypeOK'
  <2>1. NewContainer(spec) \in Container
        BY <1>10, NewContainerFacts DEF CreateContainer
  <2>2. containers' \in Hosts
        BY <1>10, <2>1 DEF CreateContainer, Hosts
  <2>3. QED BY <1>10, <2>2 DEF CreateContainer
<1>11. ASSUME NEW replied \in BOOLEAN, StartContainer(replied) PROVE TypeOK'
  <2>1. CASE cid \in Ids
    <3>1. [containers[cid] EXCEPT !.status = "running"] \in Container
          BY <1>11, <2>1 DEF StartContainer, Hosts, Container
    <3>2. containers' \in Hosts
          BY <1>11, <2>1, <3>1 DEF StartContainer, Hosts
    <3>3. QED BY <1>11, <3>2 DEF StartContainer
  <2>2. CASE cid \notin Ids
        BY <1>11, <2>2 DEF StartContainer, Hosts
  <2>3. QED BY <2>1, <2>2
<1>12. CASE CallFails
       BY <1>12 DEF CallFails
<1>13. CASE Exit
       BY <1>13 DEF Exit, AfterRun, WriteWelcomeScript
<1>14. CASE Crash
       BY <1>14 DEF Crash
<1>15. CASE Reboot
  <2>1. containers' \in Hosts
        BY <1>15, RebootFacts
  <2>2. QED BY <1>15, <2>1 DEF Reboot
<1>16. CASE OperatorStarts
       BY <1>16 DEF OperatorStarts
<1>17. CASE EditDeclaration
       BY <1>17 DEF EditDeclaration
<1>18. ASSUME NEW i \in Ids, UserRemoves(i) PROVE TypeOK'
       BY <1>18 DEF UserRemoves, Hosts
<1>19. ASSUME NEW i \in Ids, ContainerExits(i) PROVE TypeOK'
  <2>1. [containers[i] EXCEPT !.status = "exited"] \in Container
        BY <1>19 DEF ContainerExits, Hosts, Container
  <2>2. QED BY <1>19, <2>1 DEF ContainerExits, Hosts
<1>20. ASSUME NEW i \in Ids, ContainerRestarts(i) PROVE TypeOK'
  <2>1. [containers[i] EXCEPT !.status = "running"] \in Container
        BY <1>20 DEF ContainerRestarts, Hosts, Container
  <2>2. QED BY <1>20, <2>1 DEF ContainerRestarts, Hosts
<1>21. CASE UNCHANGED vars
       BY <1>21 DEF vars
<1>22. CASE ScriptGivesUp
       BY <1>22 DEF ScriptGivesUp
<1>23. CASE WorkOnVolumes
       BY <1>23 DEF WorkOnVolumes
<1>24. QED
  BY <1>1, <1>2, <1>3, <1>4, <1>5, <1>6, <1>7, <1>8, <1>9, <1>10, <1>11,
     <1>12, <1>13, <1>14, <1>15, <1>16, <1>17, <1>18, <1>19, <1>20, <1>21,
     <1>22, <1>23
     DEF Next, Agent, Disturbance, ContainerEvent

(* Every variable keeps its type, for all values of the constants.         *)
THEOREM TypeCorrect == Spec => []TypeOK
<1>1. QED BY TypeInit, TypeStep, PTL DEF Spec

----------------------------------------------------------------------------
(* The inductive invariant: the safety properties, and what connects the   *)
(* program counter to the containers and the volumes between them.         *)

(* konlet made every container that has a generated name. *)
KonletsDeclared == \A i \in Konlets : containers[i].decl \in Declarations

(* Of the containers that exist, exactly konlet's are listed as doomed. *)
Listed ==
    pc = "remove" =>
        \A i \in Ids : containers[i] # NoContainer =>
            (i \in doomed <=> StartedByKonlet(containers[i], spec.name))

Cleared ==
    pc \in {"unmount", "prepare", "create"} =>
        \A i \in Ids : ~StartedByKonlet(containers[i], spec.name)

VolumesReady == pc \in {"create", "start"} => volumes = spec

Inv ==
    /\ AtMostOneKonlet
    /\ KonletsDeclared
    /\ Listed
    /\ Cleared
    /\ VolumesReady
    /\ VolumesOfFreshContainers
    /\ NothingStaleOnceDone

(* The inductive invariant holds on the first boot.                        *)
LEMMA InvInit == Init => Inv
BY HostsAssumption
   DEF Init, Inv, AtMostOneKonlet, KonletsDeclared, Listed, Cleared,
       VolumesReady, VolumesOfFreshContainers, NothingStaleOnceDone, Konlets,
       GeneratedName, Hosts, Container

(* A step that changes no container and no volumes and stays clear of the  *)
(* locations the invariant speaks of, or stays where it was.               *)
LEMMA QuietStep ==
    ASSUME Inv, UNCHANGED <<containers, volumes>>,
           \/ pc' \in {"boot", "waiting", "inactive", "exec", "pull", "list", "failed"}
           \/ UNCHANGED <<pc, spec, doomed>>
    PROVE  Inv'
BY DEF Inv, AtMostOneKonlet, KonletsDeclared, Listed, Cleared,
       VolumesReady, VolumesOfFreshContainers, NothingStaleOnceDone, Konlets

(* A step that only takes a container away, from any location that does    *)
(* not come to rely on more than it did.                                   *)
LEMMA RemovalStep ==
    ASSUME TypeOK, Inv, NEW i \in Ids, UNCHANGED volumes,
           containers' = [containers EXCEPT ![i] = NoContainer],
           \/ pc' = "failed"
           \/ UNCHANGED <<pc, spec, doomed>>
    PROVE  Inv'
<1>1. \A j \in Ids : containers'[j] # NoContainer => containers'[j] = containers[j]
      BY DEF TypeOK, Hosts
<1>2. QED
  BY <1>1 DEF Inv, AtMostOneKonlet, KonletsDeclared, Listed, Cleared,
       VolumesReady, VolumesOfFreshContainers, NothingStaleOnceDone, Konlets,
       GeneratedName, StartedByKonlet

(* A step that only changes the status of a container that exists.         *)
LEMMA StatusStep ==
    ASSUME TypeOK, Inv, NEW i \in Ids, containers[i] # NoContainer,
           UNCHANGED volumes,
           NEW s \in {"created", "running", "exited"},
           containers' = [containers EXCEPT ![i].status = s],
           \/ pc' = "failed"
           \/ UNCHANGED <<pc, spec, doomed>>
           \/ pc = "start" /\ pc' = "succeeded" /\ UNCHANGED <<spec, doomed>>
    PROVE  Inv'
<1>1. containers[i] \in Container
      BY DEF TypeOK, Hosts
<1>2. \A j \in Ids :
        /\ containers'[j] = NoContainer <=> containers[j] = NoContainer
        /\ containers[j] # NoContainer =>
              /\ containers'[j].name = containers[j].name
              /\ containers'[j].decl = containers[j].decl
              /\ containers'[j].fresh = containers[j].fresh
  <2>1. [containers[i] EXCEPT !.status = s] \in Container
        BY <1>1 DEF Container
  <2>2. containers'[i] = [containers[i] EXCEPT !.status = s]
        BY DEF TypeOK, Hosts
  <2>3. /\ containers'[i].name = containers[i].name
        /\ containers'[i].decl = containers[i].decl
        /\ containers'[i].fresh = containers[i].fresh
        BY <1>1, <2>2 DEF Container
  <2>4. containers'[i] # NoContainer
        BY <2>1, <2>2, ConstantsAssumption
  <2>5. \A j \in Ids : j # i => containers'[j] = containers[j]
        BY DEF TypeOK, Hosts
  <2>6. QED BY <2>3, <2>4, <2>5
<1>3. QED
  BY <1>2 DEF Inv, AtMostOneKonlet, KonletsDeclared, Listed, Cleared,
       VolumesReady, VolumesOfFreshContainers, NothingStaleOnceDone, Konlets,
       GeneratedName, StartedByKonlet

(* Before the new container is created there is no other one to protect:   *)
(* the volumes may change.                                                 *)
LEMMA VolumesStep ==
    ASSUME Inv, pc \in {"unmount", "prepare"}, UNCHANGED containers,
           \/ pc' = "failed"
           \/ UNCHANGED <<pc, spec>>
           \/ pc' = "prepare" /\ UNCHANGED spec
           \/ pc' = "create" /\ volumes' = spec /\ UNCHANGED spec
    PROVE  Inv'
<1>1. Konlets = {}
      BY DEF Inv, Cleared, Konlets, GeneratedName, StartedByKonlet
<1>2. Konlets' = {}
      BY <1>1 DEF Konlets
<1>3. Cleared'
      BY DEF Inv, Cleared
<1>4. QED
  BY <1>1, <1>2, <1>3 DEF Inv, AtMostOneKonlet, KonletsDeclared, Listed,
     VolumesReady, VolumesOfFreshContainers, NothingStaleOnceDone

(* Every step preserves the inductive invariant: one case per action.      *)
LEMMA InvStep == TypeOK /\ Inv /\ [Next]_vars => Inv'
<1> SUFFICES ASSUME TypeOK, Inv, [Next]_vars PROVE Inv'
    OBVIOUS
<1> USE DEF host, agent, Forget, Panic
<1>1. CASE ServiceStarts
      BY <1>1, QuietStep DEF ServiceStarts
<1>2. CASE LoadDeclaration
  <2>1. pc' = "pull" /\ UNCHANGED <<containers, volumes>>
        BY <1>2 DEF LoadDeclaration
  <2>2. QED BY <2>1, QuietStep
<1>3. ASSUME NEW delivered \in BOOLEAN, PullImage(delivered) PROVE Inv'
      BY <1>3, QuietStep DEF PullImage
<1>4. CASE ListContainers
  (* The list is complete; an empty one means that nothing is in the way. *)
  <2>1. /\ pc' \in {"unmount", "remove"}
        /\ UNCHANGED <<containers, volumes, spec>>
        /\ \A i \in Ids : StartedByKonlet(containers[i], spec.name) <=> i \in doomed'
        /\ pc' = "unmount" => doomed' = {}
        BY <1>4 DEF ListContainers, AfterList
  <2>2. Listed' /\ Cleared'
        BY <2>1 DEF Listed, Cleared
  <2>3. QED
    BY <2>1, <2>2 DEF Inv, AtMostOneKonlet, KonletsDeclared, VolumesReady,
       VolumesOfFreshContainers, NothingStaleOnceDone, Konlets
<1>5. ASSUME NEW i \in Ids, RemoveContainer(i) PROVE Inv'
  <2>1. /\ pc = "remove" /\ pc' \in {"unmount", "remove"}
        /\ UNCHANGED <<volumes, spec>>
        /\ doomed' = doomed \ {i}
        /\ pc' = "unmount" => doomed' = {}
        BY <1>5 DEF RemoveContainer, AfterRemove
  <2>2. /\ containers'[i] = NoContainer
        /\ \A j \in Ids : j # i => containers'[j] = containers[j]
        BY <1>5 DEF RemoveContainer, TypeOK, Hosts
  <2>3. \A j \in Ids : containers'[j] # NoContainer =>
            (j \in doomed' <=> StartedByKonlet(containers'[j], spec.name))
        BY <2>1, <2>2 DEF Inv, Listed
  <2>4. \A j \in Ids : StartedByKonlet(containers'[j], spec.name) => j \in doomed'
        BY <2>3 DEF StartedByKonlet
  <2>5. Listed' /\ Cleared'
        BY <2>1, <2>3, <2>4 DEF Listed, Cleared
  <2>6. QED
    BY <2>1, <2>2, <2>5 DEF Inv, AtMostOneKonlet, KonletsDeclared, VolumesReady,
       VolumesOfFreshContainers, NothingStaleOnceDone, Konlets, GeneratedName
<1>6. ASSUME NEW i \in Ids, RemoveReplyLost(i) PROVE Inv'
      BY <1>6, RemovalStep DEF RemoveReplyLost
<1>7. CASE UnmountVolumes \/ WorkOnVolumes
      BY <1>7, VolumesStep DEF UnmountVolumes, WorkOnVolumes
<1>8. CASE PrepareVolumes
      BY <1>8, VolumesStep DEF PrepareVolumes
<1>9. CASE PrepareFails
      BY <1>9, VolumesStep DEF PrepareFails
<1>10. ASSUME NEW i \in Ids, NEW replied \in BOOLEAN,
              CreateContainer(i, replied)
       PROVE  Inv'
  <2>1. /\ pc = "create" /\ pc' \in {"start", "failed"}
        /\ pc' = "start" => UNCHANGED spec
        /\ UNCHANGED volumes
        /\ volumes = spec /\ spec \in Declarations
        BY <1>10 DEF CreateContainer, Inv, VolumesReady, TypeOK
  <2>2. /\ containers'[i] = NewContainer(spec)
        /\ \A j \in Ids : j # i => containers'[j] = containers[j]
        BY <1>10 DEF CreateContainer, TypeOK, Hosts
  <2>3. /\ containers'[i] # NoContainer
        /\ containers'[i].name.klt
        /\ containers'[i].fresh /\ containers'[i].decl = spec
        BY <2>1, <2>2, NewContainerFacts
  <2>4. \A j \in Ids : ~StartedByKonlet(containers[j], spec.name)
        BY <2>1 DEF Inv, Cleared
  <2>5. Konlets' = {i}
        BY <2>2, <2>3, <2>4 DEF Konlets, GeneratedName, StartedByKonlet
  <2>6. \A j \in Ids : j # i /\ containers'[j] # NoContainer =>
                           containers'[j].name.raw # spec.name
        BY <2>2, <2>4 DEF StartedByKonlet
  <2>7. NothingStaleOnceDone'
        BY <2>1, <2>3, <2>5, <2>6 DEF NothingStaleOnceDone
  <2>8. QED
    BY <2>1, <2>3, <2>5, <2>7 DEF Inv, AtMostOneKonlet, KonletsDeclared,
       Listed, Cleared, VolumesReady, VolumesOfFreshContainers
<1>11. ASSUME NEW replied \in BOOLEAN, StartContainer(replied) PROVE Inv'
  <2>1. CASE cid \in Ids
    <3>1. \/ pc' = "failed"
          \/ pc = "start" /\ pc' = "succeeded" /\ UNCHANGED <<spec, doomed>>
          BY <1>11 DEF StartContainer
    <3>2. /\ containers[cid] # NoContainer
          /\ containers' = [containers EXCEPT ![cid].status = "running"]
          /\ UNCHANGED volumes
          BY <1>11 DEF StartContainer
    <3>3. QED BY <2>1, <3>1, <3>2, StatusStep
  <2>2. CASE cid \notin Ids
    <3>1. UNCHANGED <<containers, volumes>>
          BY <1>11, <2>2 DEF StartContainer, TypeOK, Hosts
    <3>2. \/ pc' = "failed"
          \/ pc = "start" /\ pc' = "succeeded" /\ UNCHANGED <<spec, doomed>>
          BY <1>11 DEF StartContainer
    <3>3. QED
      BY <3>1, <3>2, QuietStep DEF Inv, AtMostOneKonlet, KonletsDeclared,
         Listed, Cleared, VolumesReady, VolumesOfFreshContainers,
         NothingStaleOnceDone, Konlets
  <2>3. QED BY <2>1, <2>2
<1>12. CASE CallFails
       BY <1>12, QuietStep DEF CallFails
<1>13. CASE Exit
  <2>1. /\ UNCHANGED <<containers, volumes>>
        /\ \/ pc' = "waiting"
           \/ pc = "succeeded" /\ pc' = "done" /\ UNCHANGED <<spec, doomed>>
        BY <1>13 DEF Exit, AfterRun
  <2>2. QED
    BY <2>1, QuietStep DEF Inv, AtMostOneKonlet, KonletsDeclared, Listed,
       Cleared, VolumesReady, VolumesOfFreshContainers, NothingStaleOnceDone,
       Konlets
<1>14. CASE Crash
       BY <1>14, QuietStep DEF Crash
<1>15. CASE Reboot
  <2>1. pc' = "boot"
        BY <1>15 DEF Reboot
  <2>2. QED
    BY <2>1, <1>15, RebootFacts DEF Inv, AtMostOneKonlet, KonletsDeclared,
       Listed, Cleared, VolumesReady, VolumesOfFreshContainers,
       NothingStaleOnceDone, Konlets, GeneratedName
<1>16. CASE OperatorStarts
       BY <1>16, QuietStep DEF OperatorStarts
<1>17. CASE EditDeclaration
       BY <1>17, QuietStep DEF EditDeclaration
<1>18. ASSUME NEW i \in Ids, UserRemoves(i) PROVE Inv'
       BY <1>18, RemovalStep DEF UserRemoves
<1>19. ASSUME NEW i \in Ids, ContainerExits(i) PROVE Inv'
       BY <1>19, StatusStep DEF ContainerExits
<1>20. ASSUME NEW i \in Ids, ContainerRestarts(i) PROVE Inv'
       BY <1>20, StatusStep DEF ContainerRestarts
<1>21. CASE UNCHANGED vars
       BY <1>21, QuietStep DEF vars
<1>22. CASE ScriptGivesUp
       BY <1>22, QuietStep DEF ScriptGivesUp
<1>23. QED
  BY <1>1, <1>2, <1>3, <1>4, <1>5, <1>6, <1>7, <1>8, <1>9, <1>10, <1>11,
     <1>12, <1>13, <1>14, <1>15, <1>16, <1>17, <1>18, <1>19, <1>20, <1>21,
     <1>22
     DEF Next, Agent, Disturbance, ContainerEvent

(* Types and inductive invariant hold in every reachable state.            *)
LEMMA Invariance == Spec => [](TypeOK /\ Inv)
<1>1. Init => TypeOK /\ Inv
      BY TypeInit, InvInit
<1>2. TypeOK /\ Inv /\ [Next]_vars => (TypeOK /\ Inv)'
      BY TypeStep, InvStep
<1>3. QED BY <1>1, <1>2, PTL DEF Spec

(* There are never two containers with a generated name, however many      *)
(* containers, declarations and names there are.                           *)
THEOREM OneKonlet == Spec => []AtMostOneKonlet
<1>1. Inv => AtMostOneKonlet
      BY DEF Inv
<1>2. QED BY <1>1, Invariance, PTL

(* Volumes are unmounted and prepared, and a container is created, only    *)
(* when no container of an earlier run is left and the name is free.       *)
THEOREM ReplacesSafely == Spec => []SafeToReplace
<1>1. TypeOK /\ Inv => SafeToReplace
  <2> SUFFICES ASSUME Inv, pc \in {"unmount", "prepare", "create"}
               PROVE  /\ \A i \in Ids : containers[i] # NoContainer =>
                             /\ ~containers[i].name.klt
                             /\ containers[i].name.raw # spec.name
                      /\ NameFree(NewName(spec))
      BY DEF SafeToReplace
  <2>1. \A i \in Ids : ~StartedByKonlet(containers[i], spec.name)
        BY DEF Inv, Cleared
  <2>2. QED BY <2>1 DEF StartedByKonlet, NameFree, NewName
<1>2. QED BY <1>1, Invariance, PTL

(* A container of this boot keeps its own volumes under it.                *)
THEOREM VolumesStay == Spec => []VolumesOfFreshContainers
<1>1. Inv => VolumesOfFreshContainers
      BY DEF Inv
<1>2. QED BY <1>1, Invariance, PTL

(* After a successful run nothing of an earlier boot or name is left.      *)
THEOREM NothingStale == Spec => []NothingStaleOnceDone
<1>1. Inv => NothingStaleOnceDone
      BY DEF Inv
<1>2. QED BY <1>1, Invariance, PTL

(* An ID list never makes the agent delete a container that is neither its *)
(* own nor under the declared name; only users delete such a one.          *)
THEOREM ForeignSurvive == Spec => ForeignContainersSurvive
<1> DEFINE Owned(i) == \/ containers[i].name.klt
                       \/ /\ spec # NoDeclaration
                          /\ containers[i].name.raw = spec.name
<1>1. ASSUME TypeOK, Inv, [Next]_vars, NEW i \in Ids,
             containers[i] # NoContainer, containers'[i] = NoContainer
      PROVE  UserRemoves(i) \/ Owned(i)
  <2>1. ASSUME NEW j \in Ids, RemoveContainer(j) \/ RemoveReplyLost(j)
        PROVE  Owned(i)
    <3>1. /\ pc = "remove" /\ j \in doomed
          /\ containers' = [containers EXCEPT ![j] = NoContainer]
          BY <2>1 DEF RemoveContainer, RemoveReplyLost
    <3>2. i = j
          BY <1>1, <3>1 DEF TypeOK, Hosts
    <3>3. StartedByKonlet(containers[i], spec.name)
          BY <1>1, <3>1, <3>2 DEF Inv, Listed
    <3>4. spec # NoDeclaration
          BY <1>1, <3>1, ConstantsAssumption DEF TypeOK
    <3>5. QED BY <3>3, <3>4 DEF StartedByKonlet
  <2>2. ASSUME NEW j \in Ids, UserRemoves(j) PROVE UserRemoves(i)
    <3>1. i = j
          BY <1>1, <2>2 DEF UserRemoves, TypeOK, Hosts
    <3>2. QED BY <2>2, <3>1
  <2>3. ASSUME NEW j \in Ids, NEW replied \in BOOLEAN, CreateContainer(j, replied)
        PROVE  FALSE
        BY <1>1, <2>3 DEF CreateContainer, TypeOK, Hosts
  <2>4. ASSUME NEW j, NEW s, containers' = [containers EXCEPT ![j].status = s],
               j \in Ids => containers[j] # NoContainer /\ s \in {"running", "exited"}
        PROVE  FALSE
    <3>1. CASE i = j
      <4>1. [containers[i] EXCEPT !.status = s] \in Container
            BY <1>1, <2>4, <3>1 DEF TypeOK, Hosts, Container
      <4>2. containers'[i] = [containers[i] EXCEPT !.status = s]
            BY <1>1, <2>4, <3>1 DEF TypeOK, Hosts
      <4>3. QED BY <1>1, <4>1, <4>2, ConstantsAssumption
    <3>2. CASE i # j
          BY <1>1, <2>4, <3>2 DEF TypeOK, Hosts
    <3>3. QED BY <3>1, <3>2
  <2>5. ASSUME NEW replied \in BOOLEAN, StartContainer(replied) PROVE FALSE
    <3>1. /\ containers[cid] # NoContainer
          /\ containers' = [containers EXCEPT ![cid].status = "running"]
          BY <2>5 DEF StartContainer
    <3>2. QED BY <2>4, <3>1
  <2>6. ASSUME NEW j \in Ids, ContainerExits(j) \/ ContainerRestarts(j)
        PROVE  FALSE
    <3>1. PICK s \in {"running", "exited"} :
              /\ containers[j] # NoContainer
              /\ containers' = [containers EXCEPT ![j].status = s]
          BY <2>6 DEF ContainerExits, ContainerRestarts
    <3>2. QED BY <2>4, <3>1
  <2>7. CASE Reboot
        BY <1>1, <2>7, RebootFacts
  <2>8. ASSUME UNCHANGED containers PROVE FALSE
        BY <1>1, <2>8
  <2>9. QED
    BY <1>1, <2>1, <2>2, <2>3, <2>5, <2>6, <2>7, <2>8
       DEF Next, Agent, Disturbance, ContainerEvent, ServiceStarts, ScriptGivesUp,
           LoadDeclaration, PullImage, ListContainers, UnmountVolumes,
           WorkOnVolumes, PrepareVolumes, PrepareFails, CallFails, Exit, Crash,
           OperatorStarts, EditDeclaration, host, vars
<1>2. TypeOK /\ Inv /\ [Next]_vars =>
        [\A i \in Ids :
            containers[i] # NoContainer /\ containers'[i] = NoContainer =>
                \/ UserRemoves(i)
                \/ containers[i].name.klt
                \/ spec # NoDeclaration /\ containers[i].name.raw = spec.name]_vars
      BY <1>1
<1>3. QED BY <1>2, Invariance, PTL DEF Spec, ForeignContainersSurvive

(* Where a container comes from: it was there under the same name, or the  *)
(* run has just created it.                                                *)
LEMMA Origins ==
    ASSUME TypeOK, [Next]_vars, NEW i \in Ids, containers'[i] # NoContainer
    PROVE  \/ /\ containers[i] # NoContainer
              /\ containers'[i].name = containers[i].name
              /\ containers'[i].decl = containers[i].decl
           \/ spec \in Declarations /\ containers'[i] = NewContainer(spec)
<1>1. CASE UNCHANGED containers
      BY <1>1
<1>2. ASSUME NEW j \in Ids, containers' = [containers EXCEPT ![j] = NoContainer]
      PROVE  containers[i] # NoContainer /\ containers'[i] = containers[i]
      BY <1>2 DEF TypeOK, Hosts
<1>3. ASSUME NEW j, NEW s, containers[j] # NoContainer,
             containers' = [containers EXCEPT ![j].status = s]
      PROVE  /\ containers[i] # NoContainer
             /\ containers'[i].name = containers[i].name
             /\ containers'[i].decl = containers[i].decl
      BY <1>3 DEF TypeOK, Hosts, Container
<1>4. ASSUME NEW j \in Ids, NEW replied \in BOOLEAN, CreateContainer(j, replied)
      PROVE  \/ containers[i] # NoContainer /\ containers'[i] = containers[i]
             \/ spec \in Declarations /\ containers'[i] = NewContainer(spec)
  <2>1. /\ spec \in Declarations
        /\ containers' = [containers EXCEPT ![j] = NewContainer(spec)]
        BY <1>4 DEF CreateContainer, TypeOK
  <2>2. QED BY <2>1 DEF TypeOK, Hosts
<1>5. CASE Reboot
      BY <1>5, RebootFacts
<1>6. QED
  BY <1>1, <1>2, <1>3, <1>4, <1>5
     DEF Next, Agent, Disturbance, ContainerEvent, ServiceStarts, ScriptGivesUp,
         LoadDeclaration, PullImage, ListContainers, RemoveContainer,
         RemoveReplyLost, UnmountVolumes, WorkOnVolumes, PrepareVolumes,
         PrepareFails, StartContainer, CallFails, Exit, Crash, OperatorStarts,
         EditDeclaration, UserRemoves, ContainerExits, ContainerRestarts, host,
         vars

(* Every container that konlet started on this machine can be told by its  *)
(* name.                                                                   *)
Traceable(name) ==
    \A i \in Ids :
        containers[i] # NoContainer /\ containers[i].decl # NoDeclaration =>
            containers[i].name.klt \/ containers[i].name.raw = name

(* As long as all declarations of a machine have one name, which its       *)
(* legacy containers have too, all containers started by konlet are        *)
(* deleted before the new one is created.  The run old_containers shows    *)
(* what a declaration that was renamed leaves behind.                      *)
THEOREM AllDeletedUnderOneName ==
    ASSUME NEW name,
           \A d \in Declarations : d.name = name,
           \A h \in InitialHosts : \A i \in Ids :
               h[i] # NoContainer /\ h[i].decl # NoDeclaration =>
                   h[i].name.klt \/ h[i].name.raw = h[i].decl.name
    PROVE  Spec => []AllOldContainersDeleted
<1>1. Init => Traceable(name)
  <2> SUFFICES ASSUME Init, NEW i \in Ids, containers[i] # NoContainer,
                      containers[i].decl # NoDeclaration
               PROVE  containers[i].name.klt \/ containers[i].name.raw = name
      BY DEF Traceable
  <2>1. containers \in InitialHosts /\ containers \in Hosts
        BY HostsAssumption DEF Init
  <2>2. containers[i].decl \in Declarations
        BY <2>1 DEF Hosts, Container
  <2>3. QED BY <2>1, <2>2
<1>2. TypeOK /\ Traceable(name) /\ [Next]_vars => Traceable(name)'
  <2> SUFFICES ASSUME TypeOK, Traceable(name), [Next]_vars, NEW i \in Ids,
                      containers'[i] # NoContainer,
                      containers'[i].decl # NoDeclaration
               PROVE  containers'[i].name.klt \/ containers'[i].name.raw = name
      BY DEF Traceable
  <2>1. CASE spec \in Declarations /\ containers'[i] = NewContainer(spec)
        BY <2>1, NewContainerFacts
  <2>2. QED BY <2>1, Origins DEF Traceable
<1>3. TypeOK /\ Inv /\ Traceable(name) => AllOldContainersDeleted
  <2> SUFFICES ASSUME TypeOK, Inv, Traceable(name),
                      pc \in {"unmount", "prepare", "create"},
                      NEW i \in Ids, containers[i] # NoContainer
               PROVE  containers[i].decl = NoDeclaration
      BY DEF AllOldContainersDeleted
  <2>1. ~StartedByKonlet(containers[i], spec.name) /\ spec.name = name
        BY DEF Inv, Cleared, TypeOK
  <2>2. QED BY <2>1 DEF StartedByKonlet, Traceable
<1>4. QED BY <1>1, <1>2, <1>3, Invariance, PTL DEF Spec

----------------------------------------------------------------------------
(* ContainerRunner implements Recreate.                                    *)

(* The refinement mapping where no container has a generated name ...      *)
LEMMA ManagedNone ==
    ASSUME Konlets = {}
    PROVE  Managed = NoContainer
BY DEF Managed

(* ... and where one has.                                                  *)
LEMMA ManagedOne ==
    ASSUME TypeOK, Inv, NEW i \in Konlets
    PROVE  /\ Managed = [decl |-> containers[i].decl, fresh |-> containers[i].fresh]
           /\ Managed \in [decl : Declarations, fresh : BOOLEAN]
           /\ Managed # NoContainer
<1>1. i = CHOOSE j \in Konlets : TRUE
      BY DEF Inv, AtMostOneKonlet
<1>2. Managed = [decl |-> containers[i].decl, fresh |-> containers[i].fresh]
      BY <1>1 DEF Managed
<1>3. containers[i].decl \in Declarations /\ containers[i].fresh \in BOOLEAN
  <2>1. containers[i] \in Container
        BY DEF Konlets, GeneratedName, TypeOK, Hosts
  <2>2. QED BY <2>1 DEF Inv, KonletsDeclared, Container
<1>4. Managed \in [decl : Declarations, fresh : BOOLEAN]
      BY <1>2, <1>3
<1>5. QED BY <1>2, <1>4, ConstantsAssumption

(* Initial states are initial states of Recreate.                          *)
LEMMA RefinesInit == Init => Promise!Init
<1> SUFFICES ASSUME Init PROVE Promise!Init
    OBVIOUS
<1>1. TypeOK /\ Inv
      BY TypeInit, InvInit
<1>2. CASE Konlets = {}
      BY <1>2, ManagedNone DEF Promise!Init, Init
<1>3. ASSUME NEW i \in Konlets PROVE Promise!Init
  <2>1. containers[i].fresh = FALSE
    <3>1. containers[i] \in Container /\ ~containers[i].fresh
          BY <1>1, HostsAssumption DEF Init, Konlets, GeneratedName, TypeOK, Hosts
    <3>2. QED BY <3>1 DEF Container
  <2>2. Managed = [decl |-> containers[i].decl, fresh |-> FALSE]
        BY <1>1, <2>1, ManagedOne
  <2>3. containers[i].decl \in Declarations
        BY <1>1 DEF Inv, KonletsDeclared
  <2>4. Managed \in [decl : Declarations, fresh : {FALSE}]
        BY <2>2, <2>3
  <2>5. QED BY <2>4 DEF Promise!Init, Init
<1>4. QED BY <1>2, <1>3

(* Steps under which the managed container stays what it is. *)
LEMMA ManagedSame ==
    ASSUME Konlets' = Konlets,
           \A i \in Konlets : /\ containers'[i].decl = containers[i].decl
                              /\ containers'[i].fresh = containers[i].fresh
    PROVE  UNCHANGED Managed
<1>1. CASE Konlets = {}
      BY <1>1 DEF Managed
<1>2. CASE Konlets # {}
  <2>1. (CHOOSE i \in Konlets : TRUE) \in Konlets
        BY <1>2
  <2>2. QED BY <1>2, <2>1 DEF Managed
<1>3. QED BY <1>1, <1>2

(* Taking one container away deletes the managed one or does not touch it. *)
LEMMA ManagedRemoval ==
    ASSUME TypeOK, Inv, NEW i \in Ids, UNCHANGED volumes,
           containers' = [containers EXCEPT ![i] = NoContainer]
    PROVE  Promise!Delete \/ UNCHANGED <<Managed, volumes>>
<1>1. /\ containers'[i] = NoContainer
      /\ \A j \in Ids : j # i => containers'[j] = containers[j]
      BY DEF TypeOK, Hosts
<1>2. CASE i \in Konlets
  <2>1. Konlets' = {}
        BY <1>1, <1>2 DEF Inv, AtMostOneKonlet, Konlets, GeneratedName
  <2>2. Managed' = NoContainer
        BY <2>1 DEF Managed
  <2>3. Managed # NoContainer
        BY <1>2, ManagedOne
  <2>4. QED BY <2>2, <2>3 DEF Promise!Delete
<1>3. CASE i \notin Konlets
  <2>1. Konlets' = Konlets
        BY <1>1, <1>3 DEF Konlets, GeneratedName
  <2>2. \A j \in Konlets : containers'[j] = containers[j]
        BY <1>1, <1>3 DEF Konlets
  <2>3. QED BY <2>1, <2>2, ManagedSame
<1>4. QED BY <1>2, <1>3

(* A container that starts or exits is still the same to Recreate. *)
LEMMA ManagedStatus ==
    ASSUME TypeOK, NEW i \in Ids, containers[i] # NoContainer,
           NEW s \in {"created", "running", "exited"},
           containers' = [containers EXCEPT ![i].status = s]
    PROVE  UNCHANGED Managed
<1>1. containers[i] \in Container
      BY DEF TypeOK, Hosts
<1>2. [containers[i] EXCEPT !.status = s] \in Container
      BY <1>1 DEF Container
<1>3. /\ containers'[i] = [containers[i] EXCEPT !.status = s]
      /\ \A j \in Ids : j # i => containers'[j] = containers[j]
      BY DEF TypeOK, Hosts
<1>4. /\ containers'[i] # NoContainer
      /\ containers'[i].name = containers[i].name
      /\ containers'[i].decl = containers[i].decl
      /\ containers'[i].fresh = containers[i].fresh
      BY <1>1, <1>2, <1>3, ConstantsAssumption DEF Container
<1>5. Konlets' = Konlets
      BY <1>3, <1>4 DEF Konlets, GeneratedName
<1>6. QED BY <1>3, <1>4, <1>5, ManagedSame DEF Konlets

(* Every step is a step of Recreate or leaves its variables alone.         *)
LEMMA RefinesNext == TypeOK /\ TypeOK' /\ Inv /\ [Next]_vars => [Promise!Next]_(Promise!vars)
<1> SUFFICES ASSUME TypeOK, TypeOK', Inv, [Next]_vars
             PROVE  Promise!Next \/ UNCHANGED <<Managed, volumes>>
    BY DEF Promise!vars
<1> USE DEF Promise!Next
<1>1. ASSUME UNCHANGED <<containers, volumes>>
      PROVE  UNCHANGED <<Managed, volumes>>
      BY <1>1, ManagedSame DEF Konlets
<1>2. ASSUME NEW i \in Ids, RemoveContainer(i) \/ RemoveReplyLost(i) \/ UserRemoves(i)
      PROVE  Promise!Next \/ UNCHANGED <<Managed, volumes>>
  <2>1. /\ containers' = [containers EXCEPT ![i] = NoContainer]
        /\ UNCHANGED volumes
        BY <1>2 DEF RemoveContainer, RemoveReplyLost, UserRemoves
  <2>2. QED BY <2>1, ManagedRemoval
<1>3. CASE UnmountVolumes \/ WorkOnVolumes \/ PrepareVolumes \/ PrepareFails
  <2>1. pc \in {"unmount", "prepare"} /\ UNCHANGED containers
        BY <1>3 DEF UnmountVolumes, WorkOnVolumes, PrepareVolumes, PrepareFails
  <2>2. Konlets = {} /\ Konlets' = {}
        BY <2>1 DEF Inv, Cleared, Konlets, GeneratedName, StartedByKonlet
  <2>3. Managed = NoContainer /\ Managed' = NoContainer
        BY <2>2 DEF Managed
  <2>4. volumes' \in Declarations \union {NoVolumes, PartialVolumes}
        BY DEF TypeOK
  <2>5. QED BY <2>3, <2>4 DEF Promise!ChangeVolumes
<1>4. ASSUME NEW i \in Ids, NEW replied \in BOOLEAN, CreateContainer(i, replied)
      PROVE  Promise!Create
  <2>1. /\ pc = "create" /\ UNCHANGED volumes
        /\ containers' = [containers EXCEPT ![i] = NewContainer(spec)]
        BY <1>4 DEF CreateContainer
  <2>2. volumes = spec /\ spec \in Declarations
        BY <2>1 DEF Inv, VolumesReady, TypeOK
  <2>3. Konlets = {}
        BY <2>1 DEF Inv, Cleared, Konlets, GeneratedName, StartedByKonlet
  <2>4. /\ containers'[i] = NewContainer(spec)
        /\ \A j \in Ids : j # i => containers'[j] = containers[j]
        BY <2>1 DEF TypeOK, Hosts
  <2>5. /\ containers'[i] # NoContainer
        /\ containers'[i].name.klt = TRUE
        /\ containers'[i].fresh = TRUE
        /\ containers'[i].decl = spec
        BY <2>2, <2>4, NewContainerFacts
  <2>6. Konlets' = {i}
        BY <2>3, <2>4, <2>5 DEF Konlets, GeneratedName
  <2>7. Managed' = [decl |-> spec, fresh |-> TRUE]
    <3>1. i = CHOOSE j \in Konlets' : TRUE
          BY <2>6
    <3>2. QED BY <2>5, <2>6, <3>1 DEF Managed
  <2>8. Managed = NoContainer
        BY <2>3, ManagedNone
  <2>9. QED BY <2>1, <2>2, <2>7, <2>8 DEF Promise!Create
<1>5. ASSUME NEW replied \in BOOLEAN, StartContainer(replied)
      PROVE  UNCHANGED <<Managed, volumes>>
  <2>1. /\ containers[cid] # NoContainer
        /\ containers' = [containers EXCEPT ![cid].status = "running"]
        /\ UNCHANGED volumes
        BY <1>5 DEF StartContainer
  <2>2. CASE cid \in Ids
        BY <2>1, <2>2, ManagedStatus
  <2>3. CASE cid \notin Ids
    <3>1. UNCHANGED containers
          BY <2>1, <2>3 DEF TypeOK, Hosts
    <3>2. QED BY <1>1, <2>1, <3>1
  <2>4. QED BY <2>2, <2>3
<1>6. ASSUME NEW i \in Ids, ContainerExits(i) \/ ContainerRestarts(i)
      PROVE  UNCHANGED <<Managed, volumes>>
  <2>1. PICK s \in {"running", "exited"} :
            /\ containers[i] # NoContainer
            /\ containers' = [containers EXCEPT ![i].status = s]
            /\ UNCHANGED volumes
        BY <1>6 DEF ContainerExits, ContainerRestarts
  <2>2. QED BY <2>1, ManagedStatus
<1>7. CASE Reboot
  <2>1. Konlets' = Konlets
        BY <1>7, RebootFacts DEF Konlets, GeneratedName
  <2>2. volumes' = NoVolumes
        BY <1>7 DEF Reboot
  <2>3. CASE Konlets = {}
    <3>1. Managed = NoContainer /\ Managed' = NoContainer
          BY <2>1, <2>3 DEF Managed
    <3>2. QED BY <2>2, <3>1 DEF Promise!Reboot
  <2>4. ASSUME NEW i \in Konlets PROVE Promise!Reboot
    <3>1. Managed = [decl |-> containers[i].decl, fresh |-> containers[i].fresh]
          /\ Managed # NoContainer
          BY ManagedOne
    <3>2. i = CHOOSE j \in Konlets : TRUE
          BY DEF Inv, AtMostOneKonlet
    <3>3. Managed' = [decl |-> containers'[i].decl, fresh |-> containers'[i].fresh]
          BY <2>1, <3>2 DEF Managed
    <3>4. containers[i] # NoContainer /\ i \in Ids
          BY DEF Konlets, GeneratedName
    <3>5. containers'[i].decl = containers[i].decl /\ ~containers'[i].fresh
          BY <1>7, <3>4, RebootFacts
    <3>6. containers'[i] \in Container
          BY <1>7, <3>4, RebootFacts DEF Hosts
    <3>7. containers'[i].fresh = FALSE
          BY <3>5, <3>6 DEF Container
    <3>8. Managed' = [decl |-> Managed.decl, fresh |-> FALSE]
          BY <3>1, <3>3, <3>5, <3>7
    <3>9. QED BY <2>2, <3>1, <3>8 DEF Promise!Reboot
  <2>5. QED BY <2>3, <2>4
<1>8. QED
  BY <1>1, <1>2, <1>3, <1>4, <1>5, <1>6, <1>7
     DEF Next, Agent, Disturbance, ContainerEvent, ServiceStarts, ScriptGivesUp,
         LoadDeclaration, PullImage, ListContainers, CallFails, Exit, Crash,
         OperatorStarts, EditDeclaration, host, vars

(* Agent, daemon, systemd and users together implement Recreate.           *)
THEOREM Refinement == Spec => ImplementsRecreate
<1>1. QED
  BY RefinesInit, RefinesNext, Invariance, PTL
     DEF Spec, ImplementsRecreate, Promise!Spec
=============================================================================

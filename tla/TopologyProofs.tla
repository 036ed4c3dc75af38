---------------------------- MODULE TopologyProofs ----------------------------
(* What execute remembers agrees with the node, for any number of cards and *)
(* pods, any rings and any faults.                                          *)
EXTENDS Topology, TLAPS

LEMMA LevelsType ==
  ASSUME NEW cards \in SUBSET Card
  PROVE  Levels(cards) \in Annotations
  BY TopologyAssumption DEF Levels, LevelOf, Annotations, Level

LEMMA MergedType ==
  ASSUME TypeOK
  PROVE  Merged(node) \in Annotations
  BY DEF TypeOK, Merged, Annotations

(* Whatever is on the node, merging leaves the numbers of cards that have a *)
(* level.                                                                   *)
LEMMA MergedOffersAnnotation ==
  ASSUME TypeOK
  PROVE  Offered(Merged(node)) = Offered(annotation)
  BY DEF TypeOK, Merged, Offered, Annotations

LEMMA FaultType ==
  ASSUME TypeOK, NEW kind, Fault(kind)
  PROVE  faults' \in 0..MaxFaults
  BY TopologyAssumption DEF TypeOK, Fault

LEMMA ReturnType ==
  ASSUME TypeOK, Return
  PROVE  pc' = "idle" /\ started' \in BOOLEAN /\ events' \subseteq Pod
  BY DEF TypeOK, Return

LEMMA InitEstablishes == Init => IInv
  <1> SUFFICES ASSUME Init PROVE IInv
    OBVIOUS
  <1>1. TypeOK
    <2>1. faults \in 0..MaxFaults
      BY TopologyAssumption DEF Init
    <2>2. node \in Annotations /\ annotation \in Annotations
      BY DEF Init, NoLevels, Annotations
    <2>3. started \in BOOLEAN /\ synced \in BOOLEAN
      BY DEF Init
    <2> QED BY <2>1, <2>2, <2>3 DEF Init, TypeOK
  <1>2. AnnotationIsOfAvailable /\ NodeOffersAvailable
    BY DEF Init, AnnotationIsOfAvailable, NodeOffersAvailable
  <1> QED BY <1>1, <1>2 DEF IInv

(* Pods and kubelet touch neither the node nor what execute remembers.      *)
LEMMA WorldPreserves ==
  ASSUME IInv, NEW p \in Pod, PodStep(p) \/ Forget(p)
  PROVE  IInv'
  <1>1. /\ UNCHANGED <<node, started, pc, available, annotation, synced, faults>>
        /\ events' \subseteq Pod
    BY DEF IInv, TypeOK, PodStep, Forget, Schedule, Admit, Run, Terminate,
           Remove, Notify, process
  <1>2. phase' \in [Pod -> {"none", "pending", "running", "terminating", "gone"}]
    BY DEF IInv, TypeOK, PodStep, Forget, Schedule, Admit, Run, Terminate,
           Remove
  <1>3. holds' \in [Pod -> SUBSET Card]
    BY DEF IInv, TypeOK, PodStep, Forget, Schedule, Admit, Run, Terminate,
           Remove, Free
  <1>4. TypeOK'
    BY <1>1, <1>2, <1>3 DEF IInv, TypeOK
  <1>5. AnnotationIsOfAvailable' /\ NodeOffersAvailable'
    BY <1>1 DEF IInv, AnnotationIsOfAvailable, NodeOffersAvailable, Offered,
                Levels, LevelOf
  <1> QED BY <1>4, <1>5 DEF IInv

(* A new process remembers nothing, so it claims nothing about the node.    *)
LEMMA ProcessPreserves ==
  ASSUME IInv, Crash \/ StartProcess \/ \E p \in Pod : Tombstone(p)
  PROVE  IInv'
  <1>1. CASE StartProcess
    BY <1>1 DEF IInv, TypeOK, StartProcess, world, AnnotationIsOfAvailable,
                NodeOffersAvailable, Offered, Levels, LevelOf
  <1>2. CASE Crash \/ \E p \in Pod : Tombstone(p)
    <2>1. Die /\ UNCHANGED <<world, node>> /\ faults' \in 0..MaxFaults
      BY <1>2, FaultType DEF IInv, Crash, Tombstone
    <2>2. TypeOK'
      BY <2>1 DEF IInv, TypeOK, Die, world, NoLevels, Annotations
    <2>3. AnnotationIsOfAvailable' /\ NodeOffersAvailable'
      BY <2>1 DEF Die, AnnotationIsOfAvailable, NodeOffersAvailable
    <2> QED BY <2>2, <2>3 DEF IInv
  <1> QED BY <1>1, <1>2

LEMMA ExecutePreserves ==
  ASSUME IInv, Resync \/ \E p \in Pod : HandleEvent(p)
  PROVE  IInv'
  <1>1. Execute /\ events' \subseteq Pod /\ UNCHANGED faults
    BY DEF IInv, TypeOK, Resync, HandleEvent
  <1>2. TypeOK'
    BY <1>1 DEF IInv, TypeOK, Execute, world, NoLevels, Annotations
  <1>3. AnnotationIsOfAvailable' /\ NodeOffersAvailable'
    BY <1>1 DEF IInv, Execute, AnnotationIsOfAvailable, NodeOffersAvailable,
                Offered, Levels, LevelOf
  <1> QED BY <1>2, <1>3 DEF IInv

LEMMA FindCardInUsePreserves ==
  ASSUME IInv, FindCardInUse
  PROVE  IInv'
  <1>1. UNCHANGED <<world, node, annotation>> /\ faults' \in 0..MaxFaults
    BY FaultType DEF IInv, TypeOK, FindCardInUse
  <1>2. CASE Return /\ UNCHANGED <<available, synced>>
    <2>1. TypeOK'
      BY <1>1, <1>2, ReturnType DEF IInv, TypeOK, world
    <2>2. AnnotationIsOfAvailable' /\ NodeOffersAvailable'
      BY <1>1, <1>2, ReturnType
         DEF IInv, AnnotationIsOfAvailable, NodeOffersAvailable, Offered,
             Levels, LevelOf
    <2> QED BY <2>1, <2>2 DEF IInv
  <1>3. CASE /\ available' = Free /\ synced' = FALSE /\ pc' = "rings"
             /\ UNCHANGED <<events, started>>
    <2>1. TypeOK'
      BY <1>1, <1>3 DEF IInv, TypeOK, world, Free
    <2>2. AnnotationIsOfAvailable' /\ NodeOffersAvailable'
      BY <1>3 DEF AnnotationIsOfAvailable, NodeOffersAvailable
    <2> QED BY <2>1, <2>2 DEF IInv
  <1> QED BY <1>2, <1>3 DEF FindCardInUse

LEMMA GetTopoPreserves ==
  ASSUME IInv, GetTopo
  PROVE  IInv'
  <1>1. /\ pc = "rings" /\ UNCHANGED <<world, node, available, synced>>
        /\ faults' \in 0..MaxFaults
    BY FaultType DEF IInv, TypeOK, GetTopo
  <1>2. NodeOffersAvailable'
    BY <1>1 DEF IInv, NodeOffersAvailable, Offered, Levels, LevelOf
  <1>3. CASE /\ annotation' = Levels(available) /\ pc' = "get"
             /\ UNCHANGED <<events, started>>
    <2>1. TypeOK'
      BY <1>1, <1>3, LevelsType DEF IInv, TypeOK, world
    <2>2. AnnotationIsOfAvailable'
      BY <1>1, <1>3 DEF AnnotationIsOfAvailable, Levels, LevelOf
    <2> QED BY <1>2, <2>1, <2>2 DEF IInv
  <1>4. CASE Return /\ UNCHANGED annotation
    <2>1. TypeOK'
      BY <1>1, <1>4, ReturnType DEF IInv, TypeOK, world
    <2>2. AnnotationIsOfAvailable'
      BY <1>4, ReturnType DEF IInv, AnnotationIsOfAvailable
    <2> QED BY <1>2, <2>1, <2>2 DEF IInv
  <1> QED BY <1>3, <1>4 DEF GetTopo

(* To get through is to leave a node that offers what is available.         *)
LEMMA DonePreserves ==
  ASSUME IInv, Done, pc \in {"get", "update"}, node' = Merged(node),
         UNCHANGED <<world, available, annotation>>, faults' \in 0..MaxFaults
  PROVE  IInv'
  <1>1. pc' = "idle" /\ synced' = TRUE
    BY DEF Done, Return
  <1>2. TypeOK'
    BY <1>1, ReturnType, MergedType DEF IInv, TypeOK, Done, world
  <1>3. AnnotationIsOfAvailable'
    BY <1>1 DEF AnnotationIsOfAvailable
  <1>4. Offered(node') = Offered(Levels(available))
    BY MergedOffersAnnotation DEF IInv, AnnotationIsOfAvailable
  <1>5. NodeOffersAvailable'
    BY <1>4 DEF NodeOffersAvailable, Offered, Levels, LevelOf
  <1> QED BY <1>2, <1>3, <1>5 DEF IInv

LEMMA FailurePreserves ==
  ASSUME IInv, Return, UNCHANGED <<world, node, available, annotation, synced>>,
         faults' \in 0..MaxFaults
  PROVE  IInv'
  <1>1. TypeOK'
    BY ReturnType DEF IInv, TypeOK, world
  <1>2. AnnotationIsOfAvailable' /\ NodeOffersAvailable'
    BY ReturnType DEF IInv, AnnotationIsOfAvailable, NodeOffersAvailable,
                      Offered, Levels, LevelOf
  <1> QED BY <1>1, <1>2 DEF IInv

LEMMA GetNodePreserves ==
  ASSUME IInv, GetNode
  PROVE  IInv'
  <1>1. /\ pc = "get" /\ UNCHANGED <<world, node, available, annotation>>
        /\ faults' \in 0..MaxFaults
    BY FaultType DEF IInv, TypeOK, GetNode
  <1>2. CASE pc' = "update" /\ UNCHANGED <<events, started, synced>>
    <2>1. TypeOK'
      BY <1>1, <1>2 DEF IInv, TypeOK, world
    <2>2. AnnotationIsOfAvailable' /\ NodeOffersAvailable'
      BY <1>1, <1>2 DEF IInv, AnnotationIsOfAvailable, NodeOffersAvailable,
                        Offered, Levels, LevelOf
    <2> QED BY <2>1, <2>2 DEF IInv
  <1>3. CASE Merged(node) = node /\ Done
    BY <1>1, <1>3, DonePreserves
  <1>4. CASE Return /\ UNCHANGED synced
    BY <1>1, <1>4, FailurePreserves
  <1> QED BY <1>2, <1>3, <1>4 DEF GetNode

LEMMA UpdateNodePreserves ==
  ASSUME IInv, UpdateNode
  PROVE  IInv'
  <1>1. /\ pc = "update" /\ UNCHANGED <<world, available, annotation>>
        /\ faults' \in 0..MaxFaults
    BY FaultType DEF IInv, TypeOK, UpdateNode
  <1>2. CASE node' = Merged(node) /\ Done
    BY <1>1, <1>2, DonePreserves
  <1>3. CASE Return /\ UNCHANGED <<node, synced>>
    BY <1>1, <1>3, FailurePreserves
  <1> QED BY <1>2, <1>3 DEF UpdateNode

(* The node, what is remembered and where execute is: after every step they *)
(* fit together.                                                            *)
THEOREM Inductive == Spec => []IInv
  <1>1. IInv /\ [Next]_vars => IInv'
    <2> SUFFICES ASSUME IInv, [Next]_vars PROVE IInv'
      OBVIOUS
    <2>1. CASE \E p \in Pod : PodStep(p) \/ Forget(p)
      BY <2>1, WorldPreserves
    <2>2. CASE Crash \/ StartProcess \/ \E p \in Pod : Tombstone(p)
      BY <2>2, ProcessPreserves
    <2>3. CASE Resync \/ \E p \in Pod : HandleEvent(p)
      BY <2>3, ExecutePreserves
    <2>4. CASE ExecuteStep
      BY <2>4, FindCardInUsePreserves, GetTopoPreserves, GetNodePreserves,
         UpdateNodePreserves DEF ExecuteStep
    <2>5. CASE UNCHANGED vars
      BY <2>5 DEF vars, IInv, TypeOK, AnnotationIsOfAvailable,
                  NodeOffersAvailable, Offered, Levels, LevelOf
    <2> QED BY <2>1, <2>2, <2>3, <2>4, <2>5 DEF Next
  <1> QED BY <1>1, InitEstablishes, PTL DEF Spec

(* The variables keep their types.                                          *)
THEOREM TypeCorrect == Spec => []TypeOK
  <1>1. IInv => TypeOK
    BY DEF IInv
  <1> QED BY <1>1, Inductive, PTL

(* When execute got through for the cards it remembers, the node offers     *)
(* exactly what they can form, whatever failed or changed in between.       *)
THEOREM NodeAgrees == Spec => []NodeOffersAvailable
  <1>1. IInv => NodeOffersAvailable
    BY DEF IInv
  <1> QED BY <1>1, Inductive, PTL
=============================================================================

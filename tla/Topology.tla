------------------------------- MODULE Topology -------------------------------
(***************************************************************************)
(* The node annotation of mode topology-aware: for each number of cards    *)
(* the scheduler may ask for, whether the free cards of the node form      *)
(* rings for it, and good ones.                                            *)
(*                                                                         *)
(*   pods --informer: add, update, delete, resync--> execute               *)
(*   execute: kubelet's pod-resources -> free cards -> rings -> node       *)
(*                                                                         *)
(* execute runs once before the informer and then in its handlers, one at  *)
(* a time.  It does nothing when the free cards are those it found before. *)
(*                                                                         *)
(* External: the scheduler, the users and the API server (pods), the       *)
(* kubelet, which allocates cards and forgets a pod after its deletion.    *)
(***************************************************************************)
EXTENDS Naturals, FiniteSets

CONSTANTS
    Card,       \* the cards of the node (deviceMaps)
    Pod,        \* pods that ask for cards
    Demand,     \* pod -> number of cards
    topoRule,   \* number of cards -> rings a good combination has
    Rings,      \* GetRings: best NonConflictRingNum, or 0, of a number of
                \* cards out of a set of cards
    Faults,     \* kinds of faults that may happen
    MaxFaults,  \* bound: faults in a behaviour
    None

Size      == DOMAIN topoRule
Level     == {"guaranteed", "restricted"}
FaultKind == {"resources", "rings", "api", "crash", "tombstone"}

ASSUME TopologyAssumption ==
    /\ Size \subseteq Nat
    /\ topoRule \in [Size -> Nat]
    /\ Rings \in [SUBSET Card -> [Size -> Nat]]
    /\ Demand \in [Pod -> Nat \ {0}]
    /\ Faults \subseteq FaultKind
    /\ MaxFaults \in Nat
    /\ None \notin Level

VARIABLES
    phase,      \* API server: the pods
    holds,      \* pod-resources of the kubelet: the cards of each pod
    node,       \* API server: the annotations of the node
    events,     \* pods the informer has still to call a handler for
    started,    \* does the informer run?
    pc,         \* execute: the next call it makes; "down": no process
    available,  \* t.available
    annotation, \* t.annotation
    synced,     \* history: did execute get through for t.available?
    faults      \* faults so far

world   == <<phase, holds>>
process == <<events, started, pc, available, annotation, synced>>
vars    == <<phase, holds, node, events, started, pc, available, annotation,
             synced, faults>>

Annotations == [Size -> Level \cup {None}]
NoLevels    == [size \in Size |-> None]

TypeOK ==
    /\ phase \in [Pod -> {"none", "pending", "running", "terminating", "gone"}]
    /\ holds \in [Pod -> SUBSET Card]
    /\ node \in Annotations
    /\ events \subseteq Pod
    /\ started \in BOOLEAN
    /\ pc \in {"idle", "list", "rings", "get", "update", "down"}
    /\ available \subseteq Card
    /\ annotation \in Annotations
    /\ synced \in BOOLEAN
    /\ faults \in 0..MaxFaults

(* SetTopology calls execute before it starts the informer.                 *)
Init ==
    /\ phase = [p \in Pod |-> "none"]
    /\ holds = [p \in Pod |-> {}]
    /\ node = NoLevels
    /\ events = {}
    /\ started = FALSE
    /\ pc = "list"
    /\ available = {}
    /\ annotation = NoLevels
    /\ synced = FALSE
    /\ faults = 0

-----------------------------------------------------------------------------
Fault(kind) ==
    /\ kind \in Faults
    /\ faults < MaxFaults
    /\ faults' = faults + 1

Free == Card \ UNION {holds[p] : p \in Pod}

(* matchResource: a pod that is pending, and not being deleted, is ignored. *)
Matches(p) == phase[p] \in {"running", "terminating"}

(* The informer learns of p, unless it is still to list the pods.           *)
Notify(p) == events' = IF started THEN events \cup {p} ELSE events

-----------------------------------------------------------------------------
(* The pods (external).                                                     *)

Schedule(p) ==
    /\ phase[p] = "none"
    /\ phase' = [phase EXCEPT ![p] = "pending"]
    /\ UNCHANGED <<holds, node, process, faults>>

(* The kubelet admits the pod and allocates its cards.                      *)
Admit(p) ==
    /\ phase[p] = "pending"
    /\ holds[p] = {}
    /\ \E cards \in SUBSET Free :
          /\ Cardinality(cards) = Demand[p]
          /\ holds' = [holds EXCEPT ![p] = cards]
    /\ UNCHANGED <<phase, node, process, faults>>

(* The status of an admitted pod: running, or any later phase.              *)
Run(p) ==
    /\ phase[p] = "pending"
    /\ holds[p] # {}
    /\ phase' = [phase EXCEPT ![p] = "running"]
    /\ Notify(p)
    /\ UNCHANGED <<holds, node, started, pc, available, annotation, synced,
                   faults>>

(* The pod gets a deletion timestamp.                                       *)
Terminate(p) ==
    /\ phase[p] \in {"pending", "running"}
    /\ phase' = [phase EXCEPT ![p] = "terminating"]
    /\ Notify(p)
    /\ UNCHANGED <<holds, node, started, pc, available, annotation, synced,
                   faults>>

(* The pod is removed, by force without a timestamp.  The last object is    *)
(* what the handler looks at.                                               *)
Remove(p) ==
    /\ phase[p] \in {"pending", "running", "terminating"}
    /\ phase' = [phase EXCEPT ![p] = "gone"]
    /\ IF Matches(p) THEN Notify(p) ELSE UNCHANGED events
    /\ UNCHANGED <<holds, node, started, pc, available, annotation, synced,
                   faults>>

(* The kubelet hears of the removal and frees the cards.                    *)
Forget(p) ==
    /\ phase[p] = "gone"
    /\ holds[p] # {}
    /\ holds' = [holds EXCEPT ![p] = {}]
    /\ UNCHANGED <<phase, node, process, faults>>

-----------------------------------------------------------------------------
(* The process dies, and the DaemonSet starts it again.                     *)
Die ==
    /\ pc' = "down"
    /\ events' = {}
    /\ started' = FALSE
    /\ available' = {}
    /\ annotation' = NoLevels
    /\ synced' = FALSE

Crash ==
    /\ pc # "down"
    /\ Fault("crash")
    /\ Die
    /\ UNCHANGED <<world, node>>

StartProcess ==
    /\ pc = "down"
    /\ pc' = "list"
    /\ UNCHANGED <<world, node, events, started, available, annotation, synced,
                   faults>>

-----------------------------------------------------------------------------
(* The handlers of the informer call execute, which forgets t.annotation.   *)
Execute ==
    /\ pc' = "list"
    /\ annotation' = NoLevels
    /\ UNCHANGED <<world, node, started, available, synced>>

HandleEvent(p) ==
    /\ pc = "idle"
    /\ p \in events
    /\ events' = events \ {p}
    /\ Execute
    /\ UNCHANGED faults

(* A deletion the watch has missed comes as a tombstone, which is not a     *)
(* pod: the type assertion of DeleteFunc panics.                            *)
Tombstone(p) ==
    /\ pc = "idle"
    /\ p \in events
    /\ phase[p] = "gone"
    /\ Fault("tombstone")
    /\ Die
    /\ UNCHANGED <<world, node>>

(* Every 30 s UpdateFunc is called for each pod there is.                   *)
Resync ==
    /\ pc = "idle"
    /\ started
    /\ \E p \in Pod : Matches(p)
    /\ Execute
    /\ UNCHANGED <<events, faults>>

(* execute returns.  After the first time the informer lists the pods.      *)
Return ==
    /\ pc' = "idle"
    /\ started' = TRUE
    /\ events' = IF started THEN events ELSE {p \in Pod : Matches(p)}

(* Mutant: sets of as many cards are taken for the same.                    *)
EqualLength(old, new) == Cardinality(old) = Cardinality(new)

EqualWithoutOrder(old, new) == old = new

(* findCardInUse.  t.available is replaced before anything is done about    *)
(* it.                                                                      *)
FindCardInUse ==
    /\ pc = "list"
    /\ \/ /\ Fault("resources")
          /\ Return
          /\ UNCHANGED <<available, synced>>
       \/ /\ EqualWithoutOrder(available, Free)
          /\ Return
          /\ UNCHANGED <<available, synced, faults>>
       \/ /\ ~EqualWithoutOrder(available, Free)
          /\ available' = Free
          /\ synced' = FALSE
          /\ pc' = "rings"
          /\ UNCHANGED <<events, started, faults>>
    /\ UNCHANGED <<world, node, annotation>>

(* Mutant: a level is written, an empty one, where there is none.           *)
LevelOrEmpty(cards, size) ==
    IF Cardinality(cards) < size \/ Rings[cards][size] = 0 THEN ""
    ELSE IF Rings[cards][size] < topoRule[size] THEN "guaranteed"
    ELSE "restricted"

(* What the cards have to offer for this number of cards.                   *)
LevelOf(cards, size) ==
    IF Cardinality(cards) < size \/ Rings[cards][size] = 0 THEN None
    ELSE IF Rings[cards][size] < topoRule[size] THEN "guaranteed"
    ELSE "restricted"

Levels(cards) == [size \in Size |-> LevelOf(cards, size)]

(* getTopo                                                                  *)
GetTopo ==
    /\ pc = "rings"
    /\ \/ /\ annotation' = Levels(available)
          /\ pc' = "get"
          /\ UNCHANGED <<events, started, faults>>
       \/ /\ Fault("rings")
          /\ Return
          /\ UNCHANGED annotation
    /\ UNCHANGED <<world, node, available, synced>>

(* Mutant: a level that is no longer there is not deleted.                  *)
MergedWithoutDelete(old) ==
    [size \in Size |-> IF old[size] # None THEN old[size] ELSE annotation[size]]

(* The node with the new annotations: what is there and still has a level   *)
(* is left as it is.                                                        *)
Merged(old) ==
    [size \in Size |->
        IF old[size] # None /\ annotation[size] # None THEN old[size]
                                                       ELSE annotation[size]]

(* execute has come through.                                                *)
Done ==
    /\ Return
    /\ synced' = TRUE

(* UpdateNodeAnnotation, first half: read the node and compare.             *)
GetNode ==
    /\ pc = "get"
    /\ \/ /\ Merged(node) # node
          /\ pc' = "update"
          /\ UNCHANGED <<events, started, synced, faults>>
       \/ /\ Merged(node) = node
          /\ Done
          /\ UNCHANGED faults
       \/ /\ Fault("api")
          /\ Return
          /\ UNCHANGED synced
    /\ UNCHANGED <<world, node, available, annotation>>

(* Second half: write it back, unless somebody else has written the node.   *)
UpdateNode ==
    /\ pc = "update"
    /\ \/ /\ node' = Merged(node)
          /\ Done
          /\ UNCHANGED faults
       \/ /\ Fault("api")
          /\ Return
          /\ UNCHANGED <<node, synced>>
    /\ UNCHANGED <<world, available, annotation>>

ExecuteStep == FindCardInUse \/ GetTopo \/ GetNode \/ UpdateNode

PodStep(p) ==
    \/ Schedule(p) \/ Admit(p) \/ Run(p) \/ Terminate(p) \/ Remove(p)

Next ==
    \/ \E p \in Pod : PodStep(p) \/ Forget(p) \/ HandleEvent(p) \/ Tombstone(p)
    \/ Resync
    \/ ExecuteStep
    \/ Crash
    \/ StartProcess

(***************************************************************************)
(* execute runs, the informer resyncs and delivers, the kubelet frees the  *)
(* cards of removed pods, the process is started again.  Nothing makes     *)
(* pods come, go on or leave, and no fault has to happen.                  *)
(***************************************************************************)
Fairness ==
    /\ WF_vars(ExecuteStep)
    /\ WF_vars(Resync)
    /\ \A p \in Pod : WF_vars(HandleEvent(p)) /\ WF_vars(Forget(p))
    /\ WF_vars(StartProcess)

Spec     == Init /\ [][Next]_vars
FairSpec == Spec /\ Fairness

-----------------------------------------------------------------------------
(* Properties *)

Offered(levels) == {size \in Size : levels[size] # None}

(* What execute remembers agrees with the node: when it got through for     *)
(* the free cards it remembers, the node offers exactly the numbers of      *)
(* cards these can form rings of - also after passes in between that failed *)
(* or found nothing new, and whatever an earlier process left on the node.  *)
NodeOffersAvailable ==
    synced => Offered(node) = Offered(Levels(available))

(* Once pods come to rest with one of them in sight, the node offers what   *)
(* the free cards can form - unless execute failed after it had replaced    *)
(* t.available (it does not try again), or all cards were in use when the   *)
(* process started (that looks like no change).                             *)
NodeOffersFree ==
    <>[](\E p \in Pod : Matches(p))
        => <>[](synced => Offered(node) = Offered(Levels(Free)))

(* Where execute is, what it remembers is what it works on.                 *)
AnnotationIsOfAvailable ==
    pc \in {"get", "update"} => annotation = Levels(available)

IInv ==
    /\ TypeOK
    /\ AnnotationIsOfAvailable
    /\ NodeOffersAvailable

(* What the log says (topology.go:243): when the free cards are those of    *)
(* before there is "No change since last sync", so the node offers what     *)
(* they can form.                                                           *)
SameMeansSynced ==
    [][pc = "list" /\ pc' = "idle" /\ faults' = faults
          => Offered(node) = Offered(Levels(Free))]_vars
=============================================================================

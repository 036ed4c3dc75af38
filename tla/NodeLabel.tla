------------------------------ MODULE NodeLabel ------------------------------
(***************************************************************************)
(* The labels of the node: model, CPU type, driver and MCU version.        *)
(*                                                                         *)
(*   Run ("main"):  check once, start the informer, check every 30 s       *)
(*   informer:      store of the node --notifications--> "handler"         *)
(*   check:         labels of the driver against the cached node, and an   *)
(*                  update of the node when they differ                    *)
(*                                                                         *)
(* The cache is filled by the handler and, as long as it is empty, by      *)
(* whoever checks.  A label has its right value or not; a driver upgrade   *)
(* restarts the plugin, so the right values stay while a process lives.    *)
(*                                                                         *)
(* External: the API server, other writers of the node, the driver, the    *)
(* DaemonSet.                                                              *)
(***************************************************************************)
EXTENDS Naturals, Sequences

CONSTANTS
    Key,          \* the labels the driver and the host have a value for
    VersionKey,   \* those that need GetDeviceVersion
    Faults,       \* kinds of faults that may happen
    MaxFaults,    \* bound: faults in a behaviour
    MaxEdits,     \* bound: edits of the node by others
    Steps,        \* attempts of retry.DefaultBackoff (4)
    None

FaultKind == {"driver", "api", "write", "crash"}
Thread    == {"main", "handler"}
Node      == [rev : Nat, labels : SUBSET Key]   \* the labels with a right value
Notice    == [old : Node \cup {None}, new : Node]

ASSUME LabelAssumption ==
    /\ VersionKey \subseteq Key
    /\ Faults \subseteq FaultKind
    /\ MaxFaults \in Nat
    /\ MaxEdits \in Nat
    /\ Steps \in Nat
    /\ None \notin Node

VARIABLES
    node,       \* API server: the node
    store,      \* the informer's store
    notices,    \* notifications the handler has still to see
    running,    \* does the informer run?
    cache,      \* nl.nodeCache
    oneShot,    \* nl.oneShot
    pc,         \* what each thread does next
    want,       \* actualLabels of a thread's check
    got,        \* the node a thread has read from the API server
    tries,      \* attempts RetryOnConflict has left
    handled,    \* history: the newest node the handler was called with
    late,       \* history: did a first read overwrite the handler's node?
    faults,
    edits

api      == <<node, edits>>
informer == <<store, notices, running>>
cached   == <<cache, handled, late>>
thread   == <<pc, want, got, tries>>
vars     == <<api, informer, cached, thread, oneShot, faults>>

TypeOK ==
    /\ node \in Node
    /\ store \in Node \cup {None}
    /\ notices \in Seq(Notice)
    /\ running \in BOOLEAN
    /\ cache \in Node \cup {None}
    /\ oneShot \in BOOLEAN
    /\ pc \in [Thread -> {"idle", "check", "node", "store", "get", "put",
                          "ended", "down"}]
    /\ want \in [Thread -> SUBSET Key]
    /\ got \in [Thread -> Node \cup {None}]
    /\ tries \in [Thread -> 0..Steps]
    /\ handled \in Node \cup {None}
    /\ late \in BOOLEAN
    /\ faults \in 0..MaxFaults
    /\ edits \in 0..MaxEdits

Init ==
    /\ node \in [rev : {0}, labels : SUBSET Key]
    /\ oneShot \in BOOLEAN
    /\ store = None /\ notices = <<>> /\ running = FALSE
    /\ cache = None /\ handled = None /\ late = FALSE
    /\ pc = [t \in Thread |-> IF t = "main" THEN "check" ELSE "idle"]
    /\ want = [t \in Thread |-> {}]
    /\ got = [t \in Thread |-> None]
    /\ tries = [t \in Thread |-> 0]
    /\ faults = 0
    /\ edits = 0

Fault(kind) ==
    /\ kind \in Faults
    /\ faults < MaxFaults
    /\ faults' = faults + 1

(***************************************************************************)
(* checkAndUpdateNodeLabels, by either thread                              *)
(***************************************************************************)
(* A check is over, for whatever reason; errors are logged.                 *)
Return(t) ==
    /\ pc' = [pc EXCEPT ![t] = IF oneShot THEN "ended" ELSE "idle"]
    /\ want' = [want EXCEPT ![t] = {}]
    /\ got' = [got EXCEPT ![t] = None]
    /\ tries' = [tries EXCEPT ![t] = 0]

Goto(t, where) == pc' = [pc EXCEPT ![t] = where]

(* GetDeviceVersion may fail; the check goes on with what there is, unless  *)
(* that is nothing.                                                         *)
GetActualLabels(t) ==
    /\ pc[t] = "check"
    /\ \E labels \in {Key, Key \ VersionKey} :
        /\ IF labels = Key THEN UNCHANGED faults ELSE Fault("driver")
        /\ IF labels = {}
           THEN Return(t)
           ELSE /\ Goto(t, "node")
                /\ want' = [want EXCEPT ![t] = labels]
                /\ UNCHANGED <<got, tries>>
    /\ UNCHANGED <<api, informer, cached, oneShot>>

(* labelsNeedUpdate, and what the check does next.                          *)
Compare(t, current) ==
    IF want[t] \subseteq current.labels
    THEN Return(t)
    ELSE /\ Goto(t, "get")
         /\ tries' = [tries EXCEPT ![t] = Steps]
         /\ got' = [got EXCEPT ![t] = None]
         /\ UNCHANGED want

UseCache(t) ==
    /\ pc[t] = "node"
    /\ cache # None
    /\ Compare(t, cache)
    /\ UNCHANGED <<api, informer, cached, oneShot, faults>>

(* Without a cache the node comes from the API server.                      *)
ReadNode(t) ==
    /\ pc[t] = "node"
    /\ cache = None
    /\ \/ /\ Goto(t, "store")
          /\ got' = [got EXCEPT ![t] = node]
          /\ UNCHANGED <<want, tries, faults>>
       \/ Fault("api") /\ Return(t)
    /\ UNCHANGED <<api, informer, cached, oneShot>>

(* The node read is cached, whatever the handler has cached meanwhile.      *)
StoreNode(t) ==
    /\ pc[t] = "store"
    /\ cache' = got[t]
    /\ late' = (handled # None)
    /\ Compare(t, got[t])
    /\ UNCHANGED <<api, informer, handled, oneShot, faults>>

(* updateNodeLabels: read the node again, and write what is missing.        *)
GetNode(t) ==
    /\ pc[t] = "get"
    /\ \/ /\ want[t] \subseteq node.labels
          /\ Return(t)
          /\ UNCHANGED faults
       \/ /\ ~(want[t] \subseteq node.labels)
          /\ Goto(t, "put")
          /\ got' = [got EXCEPT ![t] = node]
          /\ UNCHANGED <<want, tries, faults>>
       \/ Fault("api") /\ Return(t)
    /\ UNCHANGED <<api, informer, cached, oneShot>>

Written(t) == [rev |-> node.rev + 1, labels |-> got[t].labels \cup want[t]]

(* Mutant: the write carries no resource version.                           *)
UpdateUnconditional(t) ==
    /\ node' = Written(t)
    /\ Return(t)
    /\ UNCHANGED faults

(* The API server takes the node only if nobody wrote it since it was read; *)
(* RetryOnConflict then starts over, Steps times in all.                    *)
Update(t) ==
    /\ got[t].rev = node.rev
    /\ node' = Written(t)
    /\ Return(t)
    /\ UNCHANGED faults

(* Mutant: every conflict is retried.                                       *)
ConflictUnlimited(t) ==
    /\ got[t].rev # node.rev
    /\ Goto(t, "get")
    /\ got' = [got EXCEPT ![t] = None]
    /\ tries' = [tries EXCEPT ![t] = @ - 1]
    /\ UNCHANGED <<want, node, faults>>

Conflict(t) ==
    /\ got[t].rev # node.rev
    /\ IF tries[t] > 1
       THEN /\ Goto(t, "get")
            /\ got' = [got EXCEPT ![t] = None]
            /\ tries' = [tries EXCEPT ![t] = @ - 1]
            /\ UNCHANGED want
       ELSE Return(t)
    /\ UNCHANGED <<node, faults>>

UpdateNode(t) ==
    /\ pc[t] = "put"
    /\ \/ Update(t)
       \/ Conflict(t)
       \/ Fault("write") /\ Return(t) /\ UNCHANGED node
    /\ UNCHANGED <<edits, informer, cached, oneShot>>

Check(t) ==
    \/ GetActualLabels(t) \/ UseCache(t) \/ ReadNode(t) \/ StoreNode(t)
    \/ GetNode(t) \/ UpdateNode(t)

(***************************************************************************)
(* Run: the informer is started after the first check, and the ticker      *)
(* after its store has been filled                                         *)
(***************************************************************************)
InitNodeInformer ==
    /\ pc["main"] = "idle"
    /\ ~running
    /\ running' = TRUE
    /\ UNCHANGED <<api, store, notices, cached, thread, oneShot, faults>>

Tick ==
    /\ pc["main"] = "idle"
    /\ store # None
    /\ Goto("main", "check")
    /\ UNCHANGED <<api, informer, cached, want, got, tries, oneShot, faults>>

(* The informer lists or sees a change; it may skip what lies between.      *)
Inform ==
    /\ running
    /\ pc["main"] # "down"
    /\ store # node
    /\ store' = node
    /\ notices' = Append(notices, [old |-> store, new |-> node])
    /\ UNCHANGED <<api, running, cached, thread, oneShot, faults>>

(* Mutant: only a label that is new counts as a change.                     *)
SameLabelsOrFewer(notice) ==
    notice.old # None /\ notice.new.labels \subseteq notice.old.labels

(* UpdateFunc ignores these; a resync, which repeats the store, is one.     *)
SameLabels(notice) == notice.old # None /\ notice.old.labels = notice.new.labels

(* Mutant: once there is a cache, updates only make the handler check.      *)
HandleKeepsCache ==
    /\ pc["handler"] = "idle"
    /\ notices # <<>>
    /\ notices' = Tail(notices)
    /\ handled' = Head(notices).new
    /\ IF SameLabels(Head(notices))
       THEN UNCHANGED <<cache, pc>>
       ELSE /\ cache' = IF cache = None THEN Head(notices).new ELSE cache
            /\ Goto("handler", "check")
    /\ UNCHANGED <<api, store, running, late, want, got, tries, oneShot, faults>>

(* AddFunc and UpdateFunc, with the check that updateNodeCache ends in.     *)
Handle ==
    /\ pc["handler"] = "idle"
    /\ notices # <<>>
    /\ notices' = Tail(notices)
    /\ handled' = Head(notices).new
    /\ IF SameLabels(Head(notices))
       THEN UNCHANGED <<cache, late, pc>>
       ELSE /\ cache' = Head(notices).new
            /\ late' = FALSE
            /\ Goto("handler", "check")
    /\ UNCHANGED <<api, store, running, want, got, tries, oneShot, faults>>

(***************************************************************************)
(* External: other writers of the node (the kubelet its status, an admin   *)
(* its labels), the end of the process and the DaemonSet                   *)
(***************************************************************************)
Edit ==
    /\ edits < MaxEdits
    /\ edits' = edits + 1
    /\ \E labels \in SUBSET Key : node' = [rev |-> node.rev + 1, labels |-> labels]
    /\ UNCHANGED <<informer, cached, thread, oneShot, faults>>

Crash ==
    /\ pc["main"] # "down"
    /\ Fault("crash")
    /\ pc' = [t \in Thread |-> "down"]
    /\ UNCHANGED <<api, informer, cached, want, got, tries, oneShot>>

StartProcess ==
    /\ pc["main"] = "down"
    /\ store' = None /\ notices' = <<>> /\ running' = FALSE
    /\ cache' = None /\ handled' = None /\ late' = FALSE
    /\ pc' = [t \in Thread |-> IF t = "main" THEN "check" ELSE "idle"]
    /\ want' = [t \in Thread |-> {}]
    /\ got' = [t \in Thread |-> None]
    /\ tries' = [t \in Thread |-> 0]
    /\ UNCHANGED <<api, oneShot, faults>>

Next ==
    \/ \E t \in Thread : Check(t)
    \/ InitNodeInformer \/ Tick \/ Inform \/ Handle
    \/ Edit \/ Crash \/ StartProcess

(* Both threads run, the ticker ticks, the informer delivers, and the       *)
(* DaemonSet restarts the process.  Nobody has to edit, nothing has to fail.*)
Fairness ==
    /\ \A t \in Thread : WF_vars(Check(t))
    /\ WF_vars(InitNodeInformer) /\ WF_vars(Tick)
    /\ WF_vars(Inform) /\ WF_vars(Handle) /\ WF_vars(StartProcess)

Spec     == Init /\ [][Next]_vars
FairSpec == Spec /\ Fairness

(***************************************************************************)
(* Properties                                                              *)
(***************************************************************************)
(* The cached node has the labels of the node the informer showed last:     *)
(* ignoring updates with equal labels loses nothing.  The exception is a    *)
(* first read of the API server that is stored after the handler's node.    *)
CacheFollowsInformer ==
    handled # None /\ ~late => cache # None /\ cache.labels = handled.labels

(* A write of the plugin adds labels and takes away nothing that anybody,   *)
(* its other thread included, has written since it read the node.           *)
OnlyAdds ==
    [][edits' = edits /\ node' # node =>
         node.labels \subseteq node'.labels /\ node.labels # node'.labels]_vars

(* Whatever others do to the labels, in the end they are right, or a late   *)
(* first read has left a cache in which they are: then they stay wrong.     *)
LabelsRepaired ==
    <>[](\/ oneShot
         \/ Key \subseteq node.labels
         \/ late /\ Key \subseteq cache.labels)
=============================================================================

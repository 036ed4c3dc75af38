--------------------------- MODULE NodeLabelProofs ---------------------------
(* The cache follows the informer and a write of the plugin only adds, for  *)
(* any labels, faults and number of edits by others.                        *)
EXTENDS NodeLabel, TLAPS, SequenceTheorems

(* The notifications lead from what the handler has seen to the store, each *)
(* from where the one before it ended.                                      *)
NoticesLead ==
    /\ notices = <<>> => store = handled
    /\ notices # <<>> => notices[1].old = handled
    /\ notices # <<>> => notices[Len(notices)].new = store
    /\ \A i \in 1..Len(notices) :
          i + 1 \in 1..Len(notices) => notices[i].new = notices[i + 1].old

(* A thread about to write has read a node that lacks a label, and it is    *)
(* the node of the API server unless that has a later revision.             *)
PutIsNeeded ==
    \A t \in Thread : pc[t] = "put" =>
        /\ got[t] \in Node
        /\ ~(want[t] \subseteq got[t].labels)
        /\ got[t].rev <= node.rev
        /\ got[t].rev = node.rev => got[t] = node

IInv == TypeOK /\ NoticesLead /\ CacheFollowsInformer /\ PutIsNeeded

LEMMA InitEstablishes == Init => IInv
  <1> SUFFICES ASSUME Init PROVE IInv
    OBVIOUS
  <1>1. TypeOK
    <2>1. faults \in 0..MaxFaults /\ edits \in 0..MaxEdits
      BY LabelAssumption DEF Init
    <2>2. node \in Node /\ oneShot \in BOOLEAN
      BY DEF Init, Node
    <2>3. /\ store \in Node \cup {None} /\ cache \in Node \cup {None}
          /\ handled \in Node \cup {None}
          /\ running \in BOOLEAN /\ late \in BOOLEAN
      BY DEF Init
    <2>4. notices \in Seq(Notice)
      BY DEF Init
    <2>5. pc \in [Thread -> {"idle", "check", "node", "store", "get", "put",
                             "ended", "down"}]
      BY DEF Init
    <2>6. tries \in [Thread -> 0..Steps]
      BY LabelAssumption DEF Init
    <2>7. want \in [Thread -> SUBSET Key] /\ got \in [Thread -> Node \cup {None}]
      BY DEF Init
    <2> QED BY <2>1, <2>2, <2>3, <2>4, <2>5, <2>6, <2>7 DEF TypeOK
  <1>2. NoticesLead /\ CacheFollowsInformer
    BY DEF Init, NoticesLead, CacheFollowsInformer
  <1>3. PutIsNeeded
    BY DEF Init, PutIsNeeded, Thread
  <1> QED BY <1>1, <1>2, <1>3 DEF IInv

LEMMA FaultType ==
  ASSUME TypeOK, NEW kind, Fault(kind)
  PROVE  faults' \in 0..MaxFaults
  BY LabelAssumption DEF TypeOK, Fault

(* The types of what belongs to the threads.                                *)
ThreadType ==
    /\ pc \in [Thread -> {"idle", "check", "node", "store", "get", "put",
                          "ended", "down"}]
    /\ want \in [Thread -> SUBSET Key]
    /\ got \in [Thread -> Node \cup {None}]
    /\ tries \in [Thread -> 0..Steps]

(* What a step of a thread's check leaves to the other thread.              *)
Others(t) == \A u \in Thread : u # t =>
                pc'[u] = pc[u] /\ want'[u] = want[u] /\ got'[u] = got[u]

LEMMA ReturnType ==
  ASSUME TypeOK, NEW t \in Thread, Return(t)
  PROVE  ThreadType' /\ Others(t) /\ pc'[t] # "put"
  <1>1. /\ pc' = [pc EXCEPT ![t] = IF oneShot THEN "ended" ELSE "idle"]
        /\ want' = [want EXCEPT ![t] = {}]
        /\ got' = [got EXCEPT ![t] = None]
        /\ tries' = [tries EXCEPT ![t] = 0]
    BY DEF Return
  <1>2. tries' \in [Thread -> 0..Steps]
    BY <1>1, LabelAssumption DEF TypeOK
  <1>3. /\ pc' \in [Thread -> {"idle", "check", "node", "store", "get", "put",
                               "ended", "down"}]
        /\ want' \in [Thread -> SUBSET Key]
        /\ got' \in [Thread -> Node \cup {None}]
    BY <1>1 DEF TypeOK
  <1> QED BY <1>1, <1>2, <1>3 DEF TypeOK, ThreadType, Others

LEMMA CompareType ==
  ASSUME TypeOK, NEW t \in Thread, NEW current, Compare(t, current)
  PROVE  ThreadType' /\ Others(t) /\ pc'[t] # "put"
  <1>1. CASE want[t] \subseteq current.labels
    BY <1>1, ReturnType DEF Compare
  <1>2. CASE ~(want[t] \subseteq current.labels)
    <2>1. /\ pc' = [pc EXCEPT ![t] = "get"]
          /\ tries' = [tries EXCEPT ![t] = Steps]
          /\ got' = [got EXCEPT ![t] = None]
          /\ want' = want
      BY <1>2 DEF Compare, Goto
    <2>2. tries' \in [Thread -> 0..Steps]
      BY <2>1, LabelAssumption DEF TypeOK
    <2> QED BY <2>1, <2>2 DEF TypeOK, ThreadType, Others
  <1> QED BY <1>1, <1>2

(* Steps of a check that write neither the node nor pc "put" keep           *)
(* PutIsNeeded.                                                             *)
LEMMA ReadingKeepsPut ==
  ASSUME PutIsNeeded, NEW t \in Thread, Others(t), pc'[t] # "put", node' = node
  PROVE  PutIsNeeded'
  BY DEF PutIsNeeded, Others

LEMMA ReadNodeType ==
  ASSUME TypeOK, NEW t \in Thread, ReadNode(t)
  PROVE  ThreadType' /\ Others(t) /\ pc'[t] # "put" /\ faults' \in 0..MaxFaults
  <1>1. CASE Fault("api") /\ Return(t)
    BY <1>1, ReturnType, FaultType
  <1>2. CASE /\ Goto(t, "store")
             /\ got' = [got EXCEPT ![t] = node]
             /\ UNCHANGED <<want, tries, faults>>
    BY <1>2 DEF TypeOK, Goto, ThreadType, Others
  <1> QED BY <1>1, <1>2 DEF ReadNode

LEMMA GetActualLabelsType ==
  ASSUME TypeOK, NEW t \in Thread, GetActualLabels(t)
  PROVE  ThreadType' /\ Others(t) /\ pc'[t] # "put" /\ faults' \in 0..MaxFaults
  <1>1. PICK labels \in {Key, Key \ VersionKey} :
            /\ IF labels = Key THEN UNCHANGED faults ELSE Fault("driver")
            /\ IF labels = {}
               THEN Return(t)
               ELSE /\ Goto(t, "node")
                    /\ want' = [want EXCEPT ![t] = labels]
                    /\ UNCHANGED <<got, tries>>
    BY DEF GetActualLabels
  <1>2. faults' \in 0..MaxFaults
    BY <1>1, FaultType DEF TypeOK
  <1>3. CASE labels = {}
    BY <1>1, <1>2, <1>3, ReturnType
  <1>4. CASE labels # {}
    <2>1. labels \in SUBSET Key
      OBVIOUS
    <2>2. /\ pc' = [pc EXCEPT ![t] = "node"]
          /\ want' = [want EXCEPT ![t] = labels]
          /\ got' = got /\ tries' = tries
      BY <1>1, <1>4 DEF Goto
    <2> QED BY <1>2, <2>1, <2>2 DEF TypeOK, ThreadType, Others
  <1> QED BY <1>3, <1>4

LEMMA GetNodeType ==
  ASSUME TypeOK, PutIsNeeded, NEW t \in Thread, GetNode(t)
  PROVE  ThreadType' /\ PutIsNeeded' /\ faults' \in 0..MaxFaults
  <1>0. node' = node
    BY DEF GetNode, api
  <1>1. CASE Return(t) /\ (UNCHANGED faults \/ Fault("api"))
    BY <1>0, <1>1, ReturnType, FaultType, ReadingKeepsPut DEF TypeOK
  <1>2. CASE /\ ~(want[t] \subseteq node.labels)
             /\ Goto(t, "put")
             /\ got' = [got EXCEPT ![t] = node]
             /\ UNCHANGED <<want, tries, faults>>
    <2>1. ThreadType' /\ Others(t) /\ got'[t] = node /\ want'[t] = want[t]
      BY <1>2 DEF TypeOK, Goto, ThreadType, Others
    <2>2. node \in Node /\ node.rev \in Nat
      BY DEF TypeOK, Node
    <2>3. PutIsNeeded'
      BY <1>0, <1>2, <2>1, <2>2 DEF PutIsNeeded, Others
    <2> QED BY <1>2, <2>1, <2>3 DEF TypeOK
  <1> QED BY <1>1, <1>2 DEF GetNode

LEMMA ConflictType ==
  ASSUME TypeOK, NEW t \in Thread, Conflict(t)
  PROVE  ThreadType' /\ Others(t) /\ pc'[t] # "put"
  <1>1. CASE tries[t] > 1
    <2>1. /\ pc' = [pc EXCEPT ![t] = "get"]
          /\ got' = [got EXCEPT ![t] = None]
          /\ tries' = [tries EXCEPT ![t] = tries[t] - 1]
          /\ want' = want
      BY <1>1 DEF Conflict, Goto
    <2>2. tries[t] - 1 \in 0..Steps
      BY <1>1, LabelAssumption DEF TypeOK
    <2>3. tries' \in [Thread -> 0..Steps]
      BY <2>1, <2>2 DEF TypeOK
    <2> QED BY <2>1, <2>3 DEF TypeOK, ThreadType, Others
  <1>2. CASE ~(tries[t] > 1)
    BY <1>2, ReturnType DEF Conflict
  <1> QED BY <1>1, <1>2

(* A write makes a revision none of the threads has read.                   *)
LEMMA WriteKeepsPut ==
  ASSUME TypeOK, PutIsNeeded, NEW t \in Thread, Others(t), pc'[t] # "put",
         node'.rev = node.rev + 1
  PROVE  PutIsNeeded'
  <1> SUFFICES ASSUME NEW u \in Thread, pc'[u] = "put"
               PROVE  /\ got'[u] \in Node
                      /\ ~(want'[u] \subseteq got'[u].labels)
                      /\ got'[u].rev <= node'.rev
                      /\ got'[u].rev = node'.rev => got'[u] = node'
    BY DEF PutIsNeeded
  <1>1. u # t /\ pc[u] = "put" /\ got'[u] = got[u] /\ want'[u] = want[u]
    BY DEF Others
  <1>2. /\ got[u] \in Node
        /\ ~(want[u] \subseteq got[u].labels)
        /\ got[u].rev <= node.rev
    BY <1>1 DEF PutIsNeeded
  <1>3. got[u].rev \in Nat /\ node.rev \in Nat
    BY <1>2 DEF TypeOK, Node
  <1> QED BY <1>1, <1>2, <1>3

LEMMA WrittenType ==
  ASSUME TypeOK, PutIsNeeded, NEW t \in Thread, pc[t] = "put"
  PROVE  Written(t) \in Node /\ Written(t).rev = node.rev + 1
  <1>1. got[t].labels \in SUBSET Key /\ node.rev + 1 \in Nat
    BY DEF TypeOK, PutIsNeeded, Node
  <1>2. want[t] \in SUBSET Key
    BY DEF TypeOK
  <1> QED BY <1>1, <1>2 DEF Written, Node

LEMMA UpdateNodeType ==
  ASSUME TypeOK, PutIsNeeded, NEW t \in Thread, UpdateNode(t)
  PROVE  ThreadType' /\ PutIsNeeded' /\ faults' \in 0..MaxFaults /\ node' \in Node
  <1>0. pc[t] = "put"
    BY DEF UpdateNode
  <1>1. CASE Update(t)
    <2>1. node' = Written(t) /\ Return(t) /\ faults' = faults
      BY <1>1 DEF Update
    <2>2. node' \in Node /\ node'.rev = node.rev + 1
      BY <1>0, <2>1, WrittenType
    <2>3. ThreadType' /\ Others(t) /\ pc'[t] # "put"
      BY <2>1, ReturnType
    <2>4. PutIsNeeded'
      BY <2>2, <2>3, WriteKeepsPut
    <2> QED BY <2>1, <2>2, <2>3, <2>4 DEF TypeOK
  <1>2. CASE Conflict(t)
    <2>1. node' = node /\ faults' = faults
      BY <1>2 DEF Conflict
    <2> QED BY <1>2, <2>1, ConflictType, ReadingKeepsPut DEF TypeOK
  <1>3. CASE Fault("write") /\ Return(t) /\ UNCHANGED node
    BY <1>3, ReturnType, FaultType, ReadingKeepsPut DEF TypeOK
  <1> QED BY <1>1, <1>2, <1>3 DEF UpdateNode

LEMMA CheckPreserves ==
  ASSUME IInv, NEW t \in Thread, Check(t)
  PROVE  IInv'
  <1> USE DEF IInv
  <1>1. CASE GetActualLabels(t)
    <2>1. UNCHANGED <<api, informer, cached, oneShot>>
      BY <1>1 DEF GetActualLabels
    <2>2. ThreadType' /\ PutIsNeeded' /\ faults' \in 0..MaxFaults
      BY <1>1, <2>1, GetActualLabelsType, ReadingKeepsPut DEF api
    <2> QED BY <2>1, <2>2 DEF TypeOK, ThreadType, NoticesLead,
                              CacheFollowsInformer, api, informer, cached
  <1>2. CASE UseCache(t)
    <2>1. UNCHANGED <<api, informer, cached, oneShot, faults>>
      BY <1>2 DEF UseCache
    <2>2. ThreadType' /\ PutIsNeeded'
      BY <1>2, <2>1, CompareType, ReadingKeepsPut DEF UseCache, api
    <2> QED BY <2>1, <2>2 DEF TypeOK, ThreadType, NoticesLead,
                              CacheFollowsInformer, api, informer, cached
  <1>3. CASE ReadNode(t)
    <2>1. UNCHANGED <<api, informer, cached, oneShot>>
      BY <1>3 DEF ReadNode
    <2>2. ThreadType' /\ PutIsNeeded' /\ faults' \in 0..MaxFaults
      BY <1>3, <2>1, ReadNodeType, ReadingKeepsPut DEF api
    <2> QED BY <2>1, <2>2 DEF TypeOK, ThreadType, NoticesLead,
                              CacheFollowsInformer, api, informer, cached
  <1>4. CASE StoreNode(t)
    <2>1. /\ UNCHANGED <<api, informer, handled, oneShot, faults>>
          /\ cache' = got[t]
          /\ late' = (handled # None)
      BY <1>4 DEF StoreNode
    <2>2. ThreadType' /\ PutIsNeeded'
      BY <1>4, <2>1, CompareType, ReadingKeepsPut DEF StoreNode, api
    <2>3. cache' \in Node \cup {None} /\ late' \in BOOLEAN
      BY <2>1 DEF TypeOK
    <2>4. CacheFollowsInformer'
      BY <2>1 DEF CacheFollowsInformer
    <2> QED BY <2>1, <2>2, <2>3, <2>4 DEF TypeOK, ThreadType, NoticesLead, api,
                                          informer
  <1>5. CASE GetNode(t)
    <2>1. UNCHANGED <<api, informer, cached, oneShot>>
      BY <1>5 DEF GetNode
    <2>2. ThreadType' /\ PutIsNeeded' /\ faults' \in 0..MaxFaults
      BY <1>5, GetNodeType
    <2> QED BY <2>1, <2>2 DEF TypeOK, ThreadType, NoticesLead,
                              CacheFollowsInformer, api, informer, cached
  <1>6. CASE UpdateNode(t)
    <2>1. UNCHANGED <<edits, informer, cached, oneShot>>
      BY <1>6 DEF UpdateNode
    <2>2. ThreadType' /\ PutIsNeeded' /\ faults' \in 0..MaxFaults /\ node' \in Node
      BY <1>6, UpdateNodeType
    <2> QED BY <2>1, <2>2 DEF TypeOK, ThreadType, NoticesLead,
                              CacheFollowsInformer, informer, cached
  <1> QED BY <1>1, <1>2, <1>3, <1>4, <1>5, <1>6 DEF Check

(* A further notification leads from the store to the node.                 *)
LEMMA InformPreserves ==
  ASSUME IInv, Inform
  PROVE  IInv'
  <1> DEFINE notice == [old |-> store, new |-> node]
  <1>1. /\ notices \in Seq(Notice) /\ notice \in Notice
        /\ notices' = Append(notices, notice) /\ store' = node
        /\ UNCHANGED <<api, running, cached, thread, oneShot, faults>>
    BY DEF IInv, TypeOK, Inform, Notice
  <1>2. /\ notices' \in Seq(Notice) /\ notices' # <<>>
        /\ Len(notices') = Len(notices) + 1 /\ Len(notices) \in Nat
        /\ \A i \in 1..Len(notices) : notices'[i] = notices[i]
        /\ notices'[Len(notices) + 1] = notice
    BY <1>1, AppendProperties
  <1>3. TypeOK'
    BY <1>1, <1>2 DEF IInv, TypeOK, api, cached, thread
  <1>4. NoticesLead'
    <2>1. CASE notices = <<>>
      <3>1. Len(notices) = 0
        BY <2>1
      <3> QED BY <1>1, <1>2, <2>1, <3>1 DEF IInv, NoticesLead, cached
    <2>2. CASE notices # <<>>
      <3>1. Len(notices) \in 1..Len(notices)
        BY <1>1, <1>2, <2>2, EmptySeq
      <3>2. /\ notices'[1].old = handled'
            /\ notices'[Len(notices')].new = store'
        BY <1>1, <1>2, <2>2, <3>1 DEF IInv, NoticesLead, cached
      <3>3. ASSUME NEW i \in 1..Len(notices'), i + 1 \in 1..Len(notices')
            PROVE  notices'[i].new = notices'[i + 1].old
        <4>1. CASE i = Len(notices)
          BY <1>1, <1>2, <2>2, <3>1, <4>1 DEF IInv, NoticesLead
        <4>2. CASE i # Len(notices)
          <5>1. i \in 1..Len(notices) /\ i + 1 \in 1..Len(notices)
            BY <1>2, <3>3, <4>2
          <5> QED BY <1>2, <5>1 DEF IInv, NoticesLead
        <4> QED BY <4>1, <4>2
      <3> QED BY <1>2, <3>2, <3>3 DEF NoticesLead
    <2> QED BY <2>1, <2>2
  <1>5. CacheFollowsInformer' /\ PutIsNeeded'
    BY <1>1 DEF IInv, CacheFollowsInformer, PutIsNeeded, api, cached, thread
  <1> QED BY <1>3, <1>4, <1>5 DEF IInv

(* The handler takes the first notification; when it ignores it, the labels *)
(* are those of the node before.                                            *)
LEMMA HandlePreserves ==
  ASSUME IInv, Handle
  PROVE  IInv'
  <1>1. /\ notices # <<>> /\ notices' = Tail(notices)
        /\ handled' = Head(notices).new /\ notices \in Seq(Notice)
        /\ UNCHANGED <<api, store, running, want, got, tries, oneShot, faults>>
    BY DEF IInv, TypeOK, Handle
  <1>2. /\ notices' \in Seq(Notice) /\ Len(notices') = Len(notices) - 1
        /\ Head(notices) = notices[1] /\ Head(notices) \in Notice
        /\ Len(notices) \in Nat /\ Len(notices) >= 1
        /\ \A i \in 1..Len(notices') : notices'[i] = notices[i + 1]
    BY <1>1, HeadTailProperties, EmptySeq
  <1>3. Head(notices).new \in Node
    BY <1>2 DEF Notice
  <1>4. /\ pc' \in [Thread -> {"idle", "check", "node", "store", "get", "put",
                               "ended", "down"}]
        /\ \A t \in Thread : pc'[t] = "put" => pc[t] = "put"
        /\ late' \in BOOLEAN /\ cache' \in Node \cup {None}
    BY <1>3 DEF IInv, TypeOK, Handle, Goto, Thread
  <1>5. TypeOK'
    BY <1>1, <1>2, <1>3, <1>4 DEF IInv, TypeOK, api
  <1>6. NoticesLead'
    <2>1. CASE Len(notices) = 1
      <3>1. notices' = <<>>
        BY <1>2, <2>1, EmptySeq
      <3> QED BY <1>1, <1>2, <2>1, <3>1 DEF IInv, NoticesLead
    <2>2. CASE Len(notices) > 1
      <3>1. notices' # <<>> /\ 1 \in 1..Len(notices) /\ 1 + 1 \in 1..Len(notices)
        BY <1>2, <2>2
      <3>2. 1 \in 1..Len(notices') /\ Len(notices') \in 1..Len(notices')
        BY <1>2, <2>2
      <3>3. notices'[1].old = handled'
        BY <1>1, <1>2, <3>1, <3>2 DEF IInv, NoticesLead
      <3>4. notices'[Len(notices')].new = store'
        BY <1>1, <1>2, <3>2 DEF IInv, NoticesLead
      <3>5. ASSUME NEW i \in 1..Len(notices'), i + 1 \in 1..Len(notices')
            PROVE  notices'[i].new = notices'[i + 1].old
        <4>1. i + 1 \in 1..Len(notices) /\ (i + 1) + 1 \in 1..Len(notices)
          BY <1>2, <3>5
        <4> QED BY <1>2, <3>5, <4>1 DEF IInv, NoticesLead
      <3> QED BY <3>1, <3>3, <3>4, <3>5 DEF NoticesLead
    <2> QED BY <1>2, <2>1, <2>2
  <1>7. CacheFollowsInformer'
    <2>1. CASE SameLabels(Head(notices))
      <3>1. notices[1].old = handled
        BY <1>1 DEF IInv, NoticesLead
      <3>2. handled # None /\ handled.labels = handled'.labels
        BY <1>1, <1>2, <2>1, <3>1 DEF SameLabels
      <3>3. cache' = cache /\ late' = late
        BY <2>1 DEF Handle
      <3> QED BY <3>2, <3>3 DEF IInv, CacheFollowsInformer
    <2>2. CASE ~SameLabels(Head(notices))
      <3>1. cache' = Head(notices).new
        BY <2>2 DEF Handle
      <3> QED BY <1>1, <1>3, <3>1, LabelAssumption DEF CacheFollowsInformer
    <2> QED BY <2>1, <2>2
  <1>8. PutIsNeeded'
    BY <1>1, <1>4 DEF IInv, PutIsNeeded, api
  <1> QED BY <1>5, <1>6, <1>7, <1>8 DEF IInv

LEMMA RunPreserves ==
  ASSUME IInv, InitNodeInformer \/ Tick
  PROVE  IInv'
  <1>1. /\ UNCHANGED <<api, store, notices, cached, want, got, tries, oneShot, faults>>
        /\ running' \in BOOLEAN
        /\ pc' = pc \/ pc' = [pc EXCEPT !["main"] = "check"]
    BY DEF IInv, TypeOK, InitNodeInformer, Tick, Goto, thread, informer
  <1>2. /\ pc' \in [Thread -> {"idle", "check", "node", "store", "get", "put",
                               "ended", "down"}]
        /\ \A t \in Thread : pc'[t] = "put" => pc[t] = "put"
    BY <1>1 DEF IInv, TypeOK
  <1>3. TypeOK'
    BY <1>1, <1>2 DEF IInv, TypeOK, api, cached
  <1> QED BY <1>1, <1>2, <1>3 DEF IInv, NoticesLead, CacheFollowsInformer,
                                  PutIsNeeded, api, cached

LEMMA EditPreserves ==
  ASSUME IInv, Edit
  PROVE  IInv'
  <1>1. PICK labels \in SUBSET Key :
            node' = [rev |-> node.rev + 1, labels |-> labels]
    BY DEF Edit
  <1>2. /\ UNCHANGED <<informer, cached, thread, oneShot, faults>>
        /\ edits' \in 0..MaxEdits
    BY LabelAssumption DEF IInv, TypeOK, Edit
  <1>3. node' \in Node /\ node'.rev = node.rev + 1 /\ node.rev \in Nat
    BY <1>1 DEF IInv, TypeOK, Node
  <1>4. TypeOK'
    BY <1>2, <1>3 DEF IInv, TypeOK, informer, cached, thread
  <1>5. PutIsNeeded'
    <2> SUFFICES ASSUME NEW t \in Thread, pc[t] = "put"
                 PROVE  /\ got[t] \in Node
                        /\ ~(want[t] \subseteq got[t].labels)
                        /\ got[t].rev < node'.rev
      <3>1. \A t \in Thread : got[t] \in Node /\ got[t].rev < node'.rev
                => got[t].rev <= node'.rev /\ got[t].rev # node'.rev
        BY <1>3 DEF Node
      <3> QED BY <1>2, <3>1 DEF PutIsNeeded, thread
    <2>1. got[t] \in Node /\ got[t].rev <= node.rev /\ ~(want[t] \subseteq got[t].labels)
      BY DEF IInv, PutIsNeeded
    <2>2. got[t].rev \in Nat
      BY <2>1 DEF Node
    <2> QED BY <1>3, <2>1, <2>2
  <1> QED BY <1>2, <1>4, <1>5 DEF IInv, NoticesLead, CacheFollowsInformer,
                                  informer, cached

LEMMA CrashPreserves ==
  ASSUME IInv, Crash
  PROVE  IInv'
  <1>1. /\ UNCHANGED <<api, informer, cached, want, got, tries, oneShot>>
        /\ pc' = [t \in Thread |-> "down"]
        /\ faults' \in 0..MaxFaults
    BY FaultType DEF IInv, Crash
  <1> QED BY <1>1 DEF IInv, TypeOK, NoticesLead, CacheFollowsInformer,
                      PutIsNeeded, api, informer, cached

LEMMA StartPreserves ==
  ASSUME IInv, StartProcess
  PROVE  IInv'
  <1>1. /\ notices' = <<>> /\ store' = None /\ handled' = None /\ cache' = None
        /\ running' = FALSE /\ late' = FALSE
        /\ UNCHANGED <<api, oneShot, faults>>
    BY DEF StartProcess
  <1>2. /\ pc' = [t \in Thread |-> IF t = "main" THEN "check" ELSE "idle"]
        /\ want' = [t \in Thread |-> {}] /\ got' = [t \in Thread |-> None]
        /\ tries' = [t \in Thread |-> 0]
    BY DEF StartProcess
  <1>3. tries' \in [Thread -> 0..Steps]
    BY <1>2, LabelAssumption
  <1>4. /\ pc' \in [Thread -> {"idle", "check", "node", "store", "get", "put",
                               "ended", "down"}]
        /\ want' \in [Thread -> SUBSET Key]
        /\ got' \in [Thread -> Node \cup {None}]
    BY <1>2
  <1>5. notices' \in Seq(Notice)
    BY <1>1
  <1>6. TypeOK'
    BY <1>1, <1>3, <1>4, <1>5 DEF IInv, TypeOK, api
  <1> QED BY <1>1, <1>2, <1>6 DEF IInv, NoticesLead, CacheFollowsInformer,
                                  PutIsNeeded

LEMMA StepPreserves == IInv /\ [Next]_vars => IInv'
  <1> SUFFICES ASSUME IInv, [Next]_vars PROVE IInv'
    OBVIOUS
  <1>1. CASE UNCHANGED vars
    BY <1>1 DEF IInv, TypeOK, NoticesLead, CacheFollowsInformer, PutIsNeeded,
                vars, api, informer, cached, thread
  <1>2. CASE Next
    BY <1>2, CheckPreserves, RunPreserves, InformPreserves, HandlePreserves,
       EditPreserves, CrashPreserves, StartPreserves DEF Next
  <1> QED BY <1>1, <1>2

LEMMA LabelInductive == Spec => []IInv
  BY InitEstablishes, StepPreserves, PTL DEF Spec

(* Every variable of the label manager keeps its type.                      *)
THEOREM TypeCorrect == Spec => []TypeOK
  <1>1. IInv => TypeOK
    BY DEF IInv
  <1> QED BY <1>1, LabelInductive, PTL

(* Only a first read that comes too late makes the cache differ from what   *)
(* the informer showed last.                                                *)
THEOREM CacheFollows == Spec => []CacheFollowsInformer
  <1>1. IInv => CacheFollowsInformer
    BY DEF IInv
  <1> QED BY <1>1, LabelInductive, PTL

(* A write of the plugin adds labels, and undoes nobody's write.            *)
THEOREM WritesOnlyAdd == Spec => OnlyAdds
  <1>1. IInv /\ [Next]_vars =>
          [edits' = edits /\ node' # node =>
             node.labels \subseteq node'.labels /\ node.labels # node'.labels]_vars
    <2> SUFFICES ASSUME IInv, Next, edits' = edits, node' # node
                 PROVE  node.labels \subseteq node'.labels /\ node.labels # node'.labels
      OBVIOUS
    <2>1. PICK t \in Thread : UpdateNode(t)
      <3>1. ~Edit
        BY DEF IInv, TypeOK, Edit
      <3> QED BY <3>1 DEF Next, Check, InitNodeInformer, Tick, Inform, Handle,
                          Crash, StartProcess, GetActualLabels, UseCache,
                          ReadNode, StoreNode, GetNode, api
    <2>2. pc[t] = "put" /\ Update(t)
      BY <2>1 DEF UpdateNode, Conflict
    <2>3. got[t] = node /\ ~(want[t] \subseteq node.labels)
      BY <2>2 DEF IInv, PutIsNeeded, Update
    <2> QED BY <2>2, <2>3 DEF Update, Written
  <1> QED BY <1>1, LabelInductive, PTL DEF Spec, OnlyAdds
=============================================================================

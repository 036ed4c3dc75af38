------------------------ MODULE HealthRefinementProofs ------------------------
(* The goroutines implement the feed: every step is one of its steps or     *)
(* leaves it as it was, for any devices, cards and read errors.             *)
EXTENDS HealthRefinement, HealthWatchProofs, SequenceTheorems

Judged == [d \in Device |-> IF d \in unhealthy THEN "Unhealthy" ELSE "Healthy"]

Queue == OneOrNone(held) \o OneOrNone(sending)

LEMMA Concat ==
  ASSUME NEW S, NEW x \in S, NEW y \in S
  PROVE  /\ <<x>> \o <<>> = <<x>> /\ <<>> \o <<x>> = <<x>>
         /\ <<>> \o <<>> = <<>>
         /\ <<x>> \o <<y>> = <<x, y>>
  <1>1. <<x>> \in Seq(S) /\ <<>> \in Seq(S)
    OBVIOUS
  <1>2. <<x>> \o <<y>> = Append(<<x>>, y)
    BY <1>1, AppendIsConcat
  <1>3. Append(<<x>>, y) = <<x, y>>
    <2> DEFINE a == Append(<<x>>, y)
               b == <<x, y>>
    <2>1. a \in Seq(S) /\ Len(a) = 2 /\ a[1] = x /\ a[2] = y
      BY <1>1, AppendProperties
    <2>2. b \in Seq(S) /\ Len(b) = 2 /\ b[1] = x /\ b[2] = y
      OBVIOUS
    <2> HIDE DEF a, b
    <2>3. \A i \in 1..Len(a) : a[i] = b[i]
      BY <2>1, <2>2
    <2>4. a = b
      BY <2>1, <2>2, <2>3, SeqEqual
    <2> QED BY <2>4 DEF a, b
  <1> QED BY <1>1, <1>2, <1>3, ConcatEmptySeq

LEMMA HeadTail ==
  ASSUME NEW S, NEW x \in S, NEW y \in S
  PROVE  /\ Head(<<x>>) = x /\ Tail(<<x>>) = <<>> /\ <<x>> # <<>>
         /\ Head(<<x, y>>) = x /\ Tail(<<x, y>>) = <<y>> /\ <<x, y>> # <<>>
  <1>1. /\ <<x>> \in Seq(S) /\ <<x, y>> \in Seq(S) /\ <<y>> \in Seq(S)
        /\ Len(<<x>>) = 1 /\ Len(<<x, y>>) = 2
    OBVIOUS
  <1>2. Head(<<x>>) = x /\ Head(<<x, y>>) = x
    OBVIOUS
  <1>3. Tail(<<x>>) = <<>>
    <2>1. Tail(<<x>>) \in Seq(S) /\ Len(Tail(<<x>>)) = 0
      BY <1>1
    <2> QED BY <2>1, EmptySeq
  <1>4. Tail(<<x, y>>) = <<y>>
    <2> DEFINE a == Tail(<<x, y>>)
               b == <<y>>
    <2>1. a \in Seq(S) /\ Len(a) = 1 /\ a[1] = y
      BY <1>1
    <2>2. b \in Seq(S) /\ Len(b) = 1 /\ b[1] = y
      OBVIOUS
    <2> HIDE DEF a, b
    <2>3. \A i \in 1..Len(a) : a[i] = b[i]
      BY <2>1, <2>2
    <2>4. a = b
      BY <2>1, <2>2, <2>3, SeqEqual
    <2> QED BY <2>4 DEF a, b
  <1> QED BY <1>1, <1>2, <1>3, <1>4

LEMMA FeedStart == Init => Feed!Init
  <1> SUFFICES ASSUME Init PROVE Feed!Init
    OBVIOUS
  <1>1. Judged = [d \in Device |-> "Healthy"]
    BY DEF Init, Judged
  <1>2. Queue = <<>>
    BY DEF Init, Queue, OneOrNone
  <1> QED BY <1>1, <1>2 DEF Init, Feed!Init, Judged, Queue

(* A verdict that changes a device's state is a report.                     *)
LEMMA JudgeReports ==
  ASSUME IInv, NEW d \in Device, NEW ret, Judge(d, ret), sending = None,
         UNCHANGED <<held, devs, view, conn>>
  PROVE  (\E e \in Device : Feed!Report(e)) \/ UNCHANGED Feed!vars
  <1>1. held \in Event \cup {None} /\ unhealthy \subseteq Device
    BY DEF IInv, TypeOK
  <1>2. CASE sending' = None
    <2>1. /\ [id |-> d, health |-> "Healthy"] # None
          /\ [id |-> d, health |-> "Unhealthy"] # None
      BY NoneAssumption DEF Event, Health
    <2>2. UNCHANGED <<unhealthy, sending>>
      BY <1>2, <2>1 DEF Judge
    <2> QED BY <2>2 DEF Feed!vars, OneOrNone
  <1>3. CASE sending' # None
    <2> DEFINE h == IF d \in unhealthy THEN "Healthy" ELSE "Unhealthy"
    <2>1. /\ sending' = [id |-> d, health |-> h]
          /\ unhealthy' = IF d \in unhealthy THEN unhealthy \ {d}
                                             ELSE unhealthy \cup {d}
      BY <1>3 DEF Judge
    <2>2. Judged' = [Judged EXCEPT ![d] = Feed!Other(@)] /\ Judged'[d] = h
      BY <2>1 DEF Judged, Feed!Other
    <2>3. /\ Len(Queue) < 2
          /\ Queue' = Append(Queue, [id |-> d, health |-> h])
      <3>1. CASE held = None
        BY <1>3, <2>1, <3>1 DEF Queue, OneOrNone
      <3>2. CASE held # None
        <4>1. Queue = <<held>>
          BY <3>2 DEF Queue, OneOrNone
        <4>2. Queue' = <<held>> \o <<sending'>>
          BY <1>3, <3>2 DEF Queue, OneOrNone
        <4>3. held \in Event /\ sending' \in Event
          BY <1>1, <2>1, <3>2 DEF Event, Health
        <4>4. Queue' = <<held, sending'>>
          BY <4>2, <4>3, Concat
        <4> QED BY <2>1, <4>1, <4>4
      <3> QED BY <3>1, <3>2
    <2>4. Feed!Report(d)
      BY <2>2, <2>3 DEF Feed!Report, Judged, Queue
    <2> QED BY <2>4
  <1> QED BY <1>2, <1>3

(* Before the first call of ListAndWatch the kubelet has no list.           *)
NoListYet == lw = "none" => view = None

LEMMA NoListYetInvariant == Spec => []NoListYet
  <1>1. Init => NoListYet
    BY DEF Init, NoListYet
  <1>2. NoListYet /\ [Next]_vars => NoListYet'
    BY DEF NoListYet, Next, vars, wVars, lwVars, HardwareChanges, WatcherStep,
           AllocateAdds, BeginRound, JudgeCached, ReadHealth, ReadComputeMode, EndRound,
           HealthcheckReceives, HealthcheckStops, ListAndWatch, DeliverHealth,
           Send, ListAndWatchStops, KubeletDisconnects, ServerStop, CloseStop
  <1> QED BY <1>1, <1>2, PTL DEF Spec

(* Each step of the goroutines, seen through the queue.                     *)
LEMMA FeedStep ==
  IInv /\ NoListYet /\ [Next]_vars => [Feed!Next]_(Feed!vars)
  <1> SUFFICES ASSUME IInv, NoListYet, [Next]_vars
               PROVE  Feed!Next \/ UNCHANGED Feed!vars
    OBVIOUS
  <1> USE DEF Feed!Next
  <1>1. /\ held \in Event \cup {None} /\ sending \in Event \cup {None}
        /\ (wpc = "send") <=> (sending # None)
        /\ (hpc = "forward") <=> (held # None)
    BY DEF IInv, TypeOK, ControlMatchesData
  <1>2. CASE HardwareChanges \/ BeginRound \/ EndRound \/ HealthcheckStops
             \/ CloseStop \/ ListAndWatchStops
    BY <1>2 DEF HardwareChanges, BeginRound, EndRound, HealthcheckStops,
                CloseStop, ListAndWatchStops, wVars, lwVars, hwVars, Feed!vars
  <1>10. CASE \E d \in Device : AllocateAdds(d)
    BY <1>10 DEF AllocateAdds, lwVars, Feed!vars
  <1>3. ASSUME NEW d \in Device, JudgeCached(d) \/ ReadHealth(d)
        PROVE  Feed!Next \/ UNCHANGED Feed!vars
    <2>1. wpc = "scan" /\ sending = None /\ UNCHANGED <<held, devs, view, conn>>
      BY <1>1, <1>3 DEF JudgeCached, ReadHealth, lwVars
    <2>2. CASE \E ret \in {0, 1, omitDupCall[SlotOf[d]]} : Judge(d, ret)
      BY <2>1, <2>2, JudgeReports
    <2>3. CASE UNCHANGED <<unhealthy, sending>>
      BY <2>1, <2>3 DEF Feed!vars
    <2> QED BY <1>3, <2>2, <2>3 DEF JudgeCached, ReadHealth, Conclude
  <1>4. CASE ReadComputeMode
    <2>1. wpc = "mode" /\ sending = None /\ cur \in Device
          /\ UNCHANGED <<held, devs, view, conn>>
      BY <1>1, <1>4 DEF ReadComputeMode, lwVars, IInv, TypeOK,
                        ControlMatchesData
    <2>2. \E ret \in {0, 1} : Judge(cur, ret)
      BY <1>4 DEF ReadComputeMode, Conclude
    <2> QED BY <2>1, <2>2, JudgeReports
  <1>5. CASE HealthcheckReceives
    <2>1. /\ held = None /\ sending # None
          /\ held' = sending /\ sending' = None
          /\ UNCHANGED <<unhealthy, devs, view, conn>>
      BY <1>1, <1>5 DEF HealthcheckReceives, lwVars
    <2>2. Queue = <<sending>> /\ Queue' = <<sending>>
      BY <1>1, <2>1, Concat DEF Queue, OneOrNone
    <2> QED BY <2>1, <2>2 DEF Feed!vars, Queue
  <1>6. CASE ListAndWatch
    <2>1. UNCHANGED <<unhealthy, held, sending, devs, conn>>
      BY <1>6 DEF ListAndWatch, wVars
    <2>2. CASE conn = "up"
      <3>1. Feed!FirstList
        BY <1>6, <2>1, <2>2 DEF ListAndWatch, Send, NoListYet, Feed!FirstList
      <3> QED BY <3>1
    <2>3. CASE conn # "up"
      BY <1>6, <2>1, <2>3 DEF ListAndWatch, Send, Feed!vars
    <2> QED BY <2>2, <2>3
  <1>7. CASE DeliverHealth
    <2>1. /\ held \in Event /\ held # None /\ held' = None
          /\ devs' = Updated(held)
          /\ view' = IF conn = "up" THEN devs' ELSE view
          /\ UNCHANGED <<unhealthy, sending, conn>>
      BY <1>1, <1>7 DEF DeliverHealth, Send, wVars, IInv, TypeOK
    <2>2. conn = "up" => view # None
      BY <1>7, NoneAssumption DEF DeliverHealth, IInv, StreamInSync, TypeOK
    <2>3. Queue # <<>> /\ Head(Queue) = held /\ Queue' = Tail(Queue)
      <3>1. CASE sending = None
        BY <2>1, <3>1, Concat, HeadTail DEF Queue, OneOrNone
      <3>2. CASE sending # None
        <4>1. Queue = <<held, sending>>
          BY <1>1, <2>1, <3>2, Concat DEF Queue, OneOrNone
        <4>2. Queue' = <<sending>>
          BY <1>1, <2>1, <3>2, Concat DEF Queue, OneOrNone
        <4> QED BY <1>1, <2>1, <3>2, <4>1, <4>2, HeadTail
      <3> QED BY <3>1, <3>2
    <2>4. Feed!Deliver
      BY <2>1, <2>2, <2>3 DEF Feed!Deliver, Queue, Updated
    <2> QED BY <2>4
  <1>8. CASE KubeletDisconnects \/ ServerStop
    <2>1. conn' = "broken" /\ UNCHANGED <<unhealthy, held, sending, devs, view>>
      BY <1>8 DEF KubeletDisconnects, ServerStop, wVars, lwVars
    <2>2. CASE conn = "up"
      <3>1. Feed!Break
        BY <2>1, <2>2 DEF Feed!Break
      <3> QED BY <3>1
    <2>3. CASE conn # "up"
      BY <2>1, <2>3 DEF Feed!vars
    <2> QED BY <2>2, <2>3
  <1>9. CASE UNCHANGED vars
    BY <1>9 DEF vars, Feed!vars
  <1> QED BY <1>2, <1>3, <1>4, <1>5, <1>6, <1>7, <1>8, <1>9, <1>10
          DEF Next, WatcherStep

(* The safety part of ImplementsFeed, for any devices and cards: what       *)
(* watchUnhealthy judges goes through healthcheck to ListAndWatch in order, *)
(* with nothing lost, repeated or overtaken.                                *)
THEOREM FeedImplemented == Spec => Feed!Init /\ [][Feed!Next]_(Feed!vars)
  BY FeedStart, FeedStep, Inductive, NoListYetInvariant, PTL DEF Spec
=============================================================================

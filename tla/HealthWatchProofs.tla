-------------------------- MODULE HealthWatchProofs --------------------------
(* Safety of the health pipeline for any set of devices and cards.          *)
EXTENDS HealthWatch, TLAPS

LEMMA InitEstablishes == Init => IInv
  <1> SUFFICES ASSUME Init PROVE IInv
    OBVIOUS
  <1>1. TypeOK
    <2>1. readErrors \in 0..MaxReadErrors
      BY ErrorsAssumption DEF Init
    <2>2. /\ omitDupCall \in [Slot -> {0, 1, Unread}]
          /\ devs \in [Listed -> Health]
      BY DEF Init, Health, Unread
    <2>3. view \in [Listed -> Health] \cup {None} /\ sending \in Event \cup {None}
      BY DEF Init
    <2>4. Listed \subseteq devsInfo /\ devsInfo \subseteq Device
      BY ListedAssumption DEF Init
    <2> QED BY <2>1, <2>2, <2>3, <2>4 DEF Init, TypeOK
  <1>2. ControlMatchesData /\ EveryReportIsAChange /\ StreamInSync
    BY DEF Init, ControlMatchesData, EveryReportIsAChange, StreamInSync
  <1>3. PipelineConsistent
    BY DEF Init, PipelineConsistent, Newest, InFlight
  <1> QED BY <1>1, <1>2, <1>3 DEF IInv

LEMMA JudgePreserves ==
  ASSUME IInv, NEW d \in Device, NEW ret \in {0, 1}, Judge(d, ret),
         sending = None, UNCHANGED <<held, devs, hpc>>
  PROVE  /\ todo' \subseteq Device
         /\ unhealthy' \subseteq Device
         /\ sending' \in Event \cup {None}
         /\ wpc' \in {"scan", "send"}
         /\ (wpc' = "send") <=> (sending' # None)
         /\ PipelineConsistent'
         /\ EveryReportIsAChange'
  BY NoneAssumption
     DEF IInv, TypeOK, ControlMatchesData, PipelineConsistent,
         EveryReportIsAChange, Newest, InFlight, Judge, Event, Health

(* The hardware, the kubelet leaving and Stop touch neither the pipeline    *)
(* nor m.devs; a broken stream promises nothing.                            *)
LEMMA EnvironmentPreserves ==
  ASSUME IInv,
         HardwareChanges \/ KubeletDisconnects \/ ServerStop \/ CloseStop
  PROVE  IInv'
  <1>1. UNCHANGED <<wVars, sending, hpc, held, lwVars, cancelled>>
    BY DEF HardwareChanges, KubeletDisconnects, ServerStop, CloseStop
  <1>2. TypeOK'
    <2>1. bad' \subseteq Slot /\ prohibited' \subseteq Slot /\ devsInfo' = devsInfo
      BY DEF IInv, TypeOK, HardwareChanges, KubeletDisconnects, ServerStop,
             CloseStop, hwVars
    <2>2. /\ conn' \in {"up", "broken"}
          /\ main' \in {"running", "stopping", "stopped"}
      BY DEF IInv, TypeOK, HardwareChanges, KubeletDisconnects, ServerStop,
             CloseStop
    <2> QED BY <1>1, <2>1, <2>2 DEF IInv, TypeOK, wVars, lwVars
  <1>3. ControlMatchesData' /\ PipelineConsistent' /\ EveryReportIsAChange'
    BY <1>1 DEF IInv, ControlMatchesData, PipelineConsistent, Newest, InFlight,
                EveryReportIsAChange, wVars, lwVars
  <1>4. StreamInSync'
    BY <1>1 DEF IInv, StreamInSync, wVars, lwVars, HardwareChanges,
                KubeletDisconnects, ServerStop, CloseStop
  <1> QED BY <1>2, <1>3, <1>4 DEF IInv

(* An instance more in the map: nothing has been reported of it.            *)
LEMMA AllocatePreserves ==
  ASSUME IInv, NEW d \in Device, AllocateAdds(d)
  PROVE  IInv'
  <1>1. /\ devsInfo' = devsInfo \cup {d}
        /\ todo' \subseteq todo \cup {d}
        /\ UNCHANGED <<bad, prohibited, readErrors, wpc, cur, omitDupCall, unhealthy,
                       computeModeDisabled, sending, hpc, held, lwVars, conn, main,
                       cancelled>>
    BY DEF AllocateAdds
  <1>2. TypeOK'
    BY <1>1 DEF IInv, TypeOK, lwVars
  <1>3. ControlMatchesData' /\ PipelineConsistent' /\ EveryReportIsAChange'
        /\ StreamInSync'
    BY <1>1 DEF IInv, ControlMatchesData, PipelineConsistent, Newest, InFlight,
                EveryReportIsAChange, StreamInSync, lwVars
  <1> QED BY <1>2, <1>3 DEF IInv

(* Any step of watchUnhealthy that ends in a judgement.                     *)
LEMMA ConcludingStepPreserves ==
  ASSUME IInv, NEW d \in Device, NEW ret \in {0, 1}, Judge(d, ret),
         wpc \in {"scan", "mode"},
         cur' = None,
         omitDupCall' \in [Slot -> {0, 1, Unread}],
         readErrors' \in 0..MaxReadErrors,
         computeModeDisabled' \in BOOLEAN,
         UNCHANGED <<hwVars, hpc, held, lwVars, conn, main, cancelled>>
  PROVE  IInv'
  <1>1. sending = None
    BY DEF IInv, ControlMatchesData
  <1>2. /\ todo' \subseteq Device
        /\ unhealthy' \subseteq Device
        /\ sending' \in Event \cup {None}
        /\ wpc' \in {"scan", "send"}
        /\ (wpc' = "send") <=> (sending' # None)
        /\ PipelineConsistent'
        /\ EveryReportIsAChange'
    <2>1. UNCHANGED <<held, devs, hpc>>
      BY DEF lwVars
    <2> QED BY <1>1, <2>1, JudgePreserves
  <1>3. TypeOK'
    BY <1>2 DEF IInv, TypeOK, hwVars, lwVars
  <1>4. ControlMatchesData' /\ StreamInSync'
    BY <1>2 DEF IInv, ControlMatchesData, StreamInSync, lwVars
  <1> QED BY <1>2, <1>3, <1>4 DEF IInv

(* The steps of watchUnhealthy.                                             *)
LEMMA WatcherPreserves ==
  ASSUME IInv, WatcherStep
  PROVE  IInv'
  <1>1. CASE BeginRound \/ EndRound
    <2>1. TypeOK'
      BY <1>1 DEF IInv, TypeOK, BeginRound, EndRound, hwVars, lwVars, Unread
    <2>2. ControlMatchesData' /\ EveryReportIsAChange' /\ StreamInSync'
      BY <1>1 DEF IInv, BeginRound, EndRound, hwVars, lwVars,
                  ControlMatchesData, EveryReportIsAChange, StreamInSync
    <2>3. PipelineConsistent'
      BY <1>1 DEF IInv, BeginRound, EndRound, lwVars, PipelineConsistent,
                  Newest, InFlight
    <2> QED BY <2>1, <2>2, <2>3 DEF IInv
  <1>2. ASSUME NEW d \in Device, JudgeCached(d)
        PROVE  IInv'
    <2>1. omitDupCall[SlotOf[d]] \in {0, 1}
      BY <1>2, SlotOfAssumption DEF IInv, JudgeCached, TypeOK
    <2>2. cur' = None
      BY <1>2 DEF IInv, JudgeCached, ControlMatchesData
    <2> QED
      BY <1>2, <2>1, <2>2, ConcludingStepPreserves
         DEF IInv, TypeOK, JudgeCached
  <1>3. ASSUME NEW d \in Device, ReadHealth(d)
        PROVE  IInv'
    <2>1. cur = None /\ sending = None
      BY <1>3 DEF IInv, ReadHealth, ControlMatchesData
    <2>2. CASE UNCHANGED cur
      <3>1. PICK ret \in {0, 1} : Conclude(d, ret)
        BY <1>3, <2>1, <2>2, NoneAssumption DEF ReadHealth
      <3>2. omitDupCall' \in [Slot -> {0, 1, Unread}]
        BY <3>1, SlotOfAssumption DEF IInv, TypeOK, Conclude
      <3>3. readErrors' \in 0..MaxReadErrors
        BY <1>3, ErrorsAssumption DEF IInv, TypeOK, ReadHealth, ReadFails
      <3>4. /\ wpc = "scan"
            /\ computeModeDisabled' \in BOOLEAN
            /\ UNCHANGED <<hwVars, hpc, held, lwVars, conn, main, cancelled>>
        BY <1>3 DEF IInv, TypeOK, ReadHealth
      <3> QED
        BY <2>1, <2>2, <3>1, <3>2, <3>3, <3>4, ConcludingStepPreserves
           DEF Conclude
    <2>3. CASE ~ UNCHANGED cur
      <3>1. /\ wpc = "scan" /\ wpc' = "mode" /\ cur' = d
            /\ UNCHANGED <<todo, omitDupCall, unhealthy, sending, readErrors>>
            /\ UNCHANGED <<hwVars, computeModeDisabled, hpc, held, lwVars,
                           conn, main, cancelled>>
        BY <1>3, <2>3 DEF ReadHealth
      <3>2. TypeOK'
        BY <3>1 DEF IInv, TypeOK, hwVars, lwVars
      <3>3. ControlMatchesData' /\ EveryReportIsAChange' /\ StreamInSync'
        BY <2>1, <3>1, NoneAssumption
           DEF IInv, hwVars, lwVars, ControlMatchesData, EveryReportIsAChange,
               StreamInSync
      <3>4. PipelineConsistent'
        BY <3>1 DEF IInv, lwVars, PipelineConsistent, Newest, InFlight
      <3> QED BY <3>2, <3>3, <3>4 DEF IInv
    <2> QED BY <2>2, <2>3
  <1>4. CASE ReadComputeMode
    <2>1. cur \in Device
      BY <1>4 DEF IInv, TypeOK, ReadComputeMode, ControlMatchesData
    <2>2. PICK ret \in {0, 1} : Conclude(cur, ret)
      BY <1>4 DEF ReadComputeMode
    <2>3. omitDupCall' \in [Slot -> {0, 1, Unread}]
      BY <2>1, <2>2, SlotOfAssumption DEF IInv, TypeOK, Conclude
    <2>4. readErrors' \in 0..MaxReadErrors
      BY <1>4, ErrorsAssumption DEF IInv, TypeOK, ReadComputeMode, ReadFails
    <2>5. computeModeDisabled' \in BOOLEAN
      BY <1>4 DEF IInv, TypeOK, ReadComputeMode
    <2>6. /\ wpc = "mode" /\ cur' = None
          /\ UNCHANGED <<hwVars, hpc, held, lwVars, conn, main, cancelled>>
      BY <1>4 DEF ReadComputeMode
    <2> QED
      BY <2>1, <2>2, <2>3, <2>4, <2>5, <2>6, ConcludingStepPreserves
         DEF Conclude
  <1> QED BY <1>1, <1>2, <1>3, <1>4 DEF WatcherStep

(* The steps of healthcheck: an event moves one hop, or stays where it is.  *)
LEMMA HealthcheckPreserves ==
  ASSUME IInv, HealthcheckReceives \/ HealthcheckStops
  PROVE  IInv'
  <1>1. TypeOK'
    BY DEF IInv, TypeOK, HealthcheckReceives, HealthcheckStops, hwVars, wVars,
           lwVars
  <1>2. ControlMatchesData' /\ StreamInSync'
    BY DEF IInv, ControlMatchesData, StreamInSync, HealthcheckReceives,
           HealthcheckStops, wVars, lwVars
  <1>3. PipelineConsistent' /\ EveryReportIsAChange'
    BY DEF IInv, ControlMatchesData, PipelineConsistent, EveryReportIsAChange,
           Newest, InFlight, HealthcheckReceives, HealthcheckStops, wVars, lwVars
  <1> QED BY <1>1, <1>2, <1>3 DEF IInv

(* The steps of ListAndWatch: the held event becomes part of m.devs, and    *)
(* m.devs is what the kubelet receives if it receives anything.             *)
LEMMA ListAndWatchPreserves ==
  ASSUME IInv, ListAndWatch \/ DeliverHealth \/ ListAndWatchStops
  PROVE  IInv'
  <1>1. CASE ListAndWatch
    <2>1. TypeOK' /\ StreamInSync'
      <3>1. /\ lw' \in {"none", "open", "returned"}
            /\ view' \in [Listed -> Health] \cup {None}
            /\ sighup' \in BOOLEAN
        BY <1>1 DEF IInv, TypeOK, ListAndWatch, Send
      <3>2. TypeOK'
        BY <1>1, <3>1 DEF IInv, TypeOK, ListAndWatch, hwVars, wVars
      <3>3. StreamInSync'
        BY <1>1 DEF StreamInSync, ListAndWatch, Send
      <3> QED BY <3>2, <3>3
    <2>2. ControlMatchesData' /\ EveryReportIsAChange'
      BY <1>1 DEF IInv, ControlMatchesData, EveryReportIsAChange, ListAndWatch,
                  wVars
    <2>3. PipelineConsistent'
      BY <1>1 DEF IInv, PipelineConsistent, Newest, InFlight, ListAndWatch, wVars
    <2> QED BY <2>1, <2>2, <2>3 DEF IInv
  <1>2. CASE DeliverHealth
    <2>1. held \in Event /\ held' = None
      BY <1>2 DEF IInv, TypeOK, ControlMatchesData, DeliverHealth
    <2>2. devs' \in [Listed -> Health]
      BY <1>2, <2>1 DEF IInv, TypeOK, DeliverHealth, Updated, Event
    <2>3. TypeOK'
      BY <1>2, <2>1, <2>2 DEF IInv, TypeOK, DeliverHealth, Send, hwVars, wVars
    <2>4. StreamInSync'
      BY <1>2 DEF StreamInSync, DeliverHealth, Send
    <2>5. ControlMatchesData'
      BY <1>2, <2>1 DEF IInv, ControlMatchesData, DeliverHealth, wVars
    <2>6. /\ UNCHANGED <<unhealthy, sending>>
          /\ held.id \in Device
          /\ \A d \in Listed :
                devs'[d] = IF d = held.id THEN held.health ELSE devs[d]
      BY <1>2, <2>1 DEF IInv, TypeOK, DeliverHealth, Updated, wVars, Event
    <2>7. PipelineConsistent'
      BY <1>2, <2>1, <2>6, NoneAssumption DEF IInv, PipelineConsistent, Newest, InFlight
    <2>8. EveryReportIsAChange'
      BY <1>2, <2>1, <2>6, NoneAssumption
         DEF IInv, TypeOK, EveryReportIsAChange, Event
    <2> QED BY <2>3, <2>4, <2>5, <2>7, <2>8 DEF IInv
  <1>3. CASE ListAndWatchStops
    <2>1. TypeOK' /\ StreamInSync'
      BY <1>3 DEF IInv, TypeOK, StreamInSync, ListAndWatchStops, hwVars, wVars
    <2>2. ControlMatchesData' /\ EveryReportIsAChange'
      BY <1>3 DEF IInv, ControlMatchesData, EveryReportIsAChange,
                  ListAndWatchStops, wVars
    <2>3. PipelineConsistent'
      BY <1>3 DEF IInv, PipelineConsistent, Newest, InFlight, ListAndWatchStops, wVars
    <2> QED BY <2>1, <2>2, <2>3 DEF IInv
  <1> QED BY <1>1, <1>2, <1>3

LEMMA StutterPreserves ==
  ASSUME IInv, UNCHANGED vars
  PROVE  IInv'
  <1>1. TypeOK' /\ ControlMatchesData' /\ StreamInSync'
    BY DEF IInv, TypeOK, ControlMatchesData, StreamInSync, vars
  <1>2. PipelineConsistent' /\ EveryReportIsAChange'
    BY DEF IInv, PipelineConsistent, Newest, InFlight, EveryReportIsAChange, vars
  <1> QED BY <1>1, <1>2 DEF IInv

(* The inductive invariant holds in every state of every behaviour.         *)
THEOREM Inductive == Spec => []IInv
  <1>1. Init => IInv
    BY InitEstablishes
  <1>2. IInv /\ [Next]_vars => IInv'
    <2> SUFFICES ASSUME IInv, [Next]_vars PROVE IInv'
      OBVIOUS
    <2> QED
      BY EnvironmentPreserves, AllocatePreserves, WatcherPreserves, HealthcheckPreserves,
         ListAndWatchPreserves, StutterPreserves DEF Next
  <1> QED BY <1>1, <1>2, PTL DEF Spec

(* Every variable of the pipeline keeps its type.                           *)
THEOREM TypeCorrect == Spec => []TypeOK
  <1>1. IInv => TypeOK
    BY DEF IInv
  <1> QED BY <1>1, Inductive, PTL

(* watchUnhealthy's map agrees with the newest report about each device,    *)
(* for any number of devices, cards and read errors.                        *)
THEOREM PipelineStaysConsistent == Spec => []PipelineConsistent
  <1>1. IInv => PipelineConsistent
    BY DEF IInv
  <1> QED BY <1>1, Inductive, PTL

(* No report that reaches ListAndWatch repeats what was already advertised. *)
THEOREM ReportsAreChanges == Spec => []EveryReportIsAChange
  <1>1. IInv => EveryReportIsAChange
    BY DEF IInv
  <1> QED BY <1>1, Inductive, PTL

(* The kubelet on a live stream holds exactly m.devs.                       *)
THEOREM KubeletInSync == Spec => []StreamInSync
  <1>1. IInv => StreamInSync
    BY DEF IInv
  <1> QED BY <1>1, Inductive, PTL
=============================================================================

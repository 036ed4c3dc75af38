----------------------------- MODULE HealthWatch -----------------------------
(***************************************************************************)
(* The health pipeline of one CambriconDevicePlugin, from the return of    *)
(* Start until after Stop.  Three goroutines and the main goroutine:       *)
(*                                                                         *)
(*   watchUnhealthy --health--> healthcheck --m.health--> ListAndWatch     *)
(*                                                                         *)
(* Both channels are unbuffered, so a hand-over is one joint step of the   *)
(* sender and the receiver; neither sender selects on a stop signal while  *)
(* it is blocked.  ListAndWatch writes m.devs and streams it to the        *)
(* kubelet.  Stop breaks the stream first (grpc.Server.Stop, which does    *)
(* not wait for handlers) and closes m.stop afterwards.                    *)
(*                                                                         *)
(* Several devices (shares, MIM instances) may live on one card (SlotOf); a*)
(* round reads each card once.  allocateDynamicSmlu adds the instances it  *)
(* creates to the map that watchUnhealthy ranges over, without a lock that *)
(* the watcher would take, and nobody removes them: m.devs, the list of    *)
(* advertised devices, does not have them.                                 *)
(***************************************************************************)
EXTENDS Naturals

CONSTANTS
    Device,         \* devices there are or will be (keys of devsInfo, dm.UUID)
    Listed,         \* those that are advertised (IDs of m.devs)
    Slot,           \* cards
    SlotOf,         \* the card of a device (dm.Slot)
    None,           \* no device / no event
    MaxReadErrors   \* bound: failing cndev calls in a behaviour

Health == {"Healthy", "Unhealthy"}
Event  == [id : Device, health : Health]

ASSUME SlotOfAssumption == SlotOf \in [Device -> Slot]
ASSUME ListedAssumption == Listed \subseteq Device
ASSUME NoneAssumption   ==
    None \notin Device /\ None \notin Event /\ None \notin [Listed -> Health]
ASSUME ErrorsAssumption == MaxReadErrors \in Nat

VARIABLES
    bad,            \* cards whose health register reads 0      (hardware)
    prohibited,     \* cards in compute mode PROHIBITED         (hardware)
    readErrors,     \* cndev calls that have failed so far
    devsInfo,       \* m.devsInfo, which the watcher shares
    wpc,            \* watchUnhealthy: where the goroutine is
    todo,           \* devices the current round has not judged yet
    cur,            \* device whose compute mode is being read, or None
    omitDupCall,    \* the round's verdict per card: 0, 1, or Unread
    unhealthy,      \* watchUnhealthy's map of devices judged unhealthy
    computeModeDisabled,    \* getDeviceComputeModeDisabled
    sending,        \* event watchUnhealthy is blocked on, or None
    hpc,            \* healthcheck: "select", "forward" or "exited"
    held,           \* event healthcheck is blocked on, or None
    lw,             \* ListAndWatch: "none", "open" or "returned"
    devs,           \* m.devs[i].Health per device
    view,           \* the device list the kubelet last received, or None
    conn,           \* the gRPC stream: "up" or "broken"
    main,           \* the main goroutine: "running", "stopping", "stopped"
    cancelled,      \* the context of watchUnhealthy
    sighup          \* has a failed Send raised SIGHUP in the own process?

hwVars   == <<bad, prohibited, devsInfo>>
wVars    == <<wpc, todo, cur, omitDupCall, unhealthy, computeModeDisabled,
              readErrors>>
lwVars   == <<lw, devs, view, sighup>>
vars     == <<bad, prohibited, devsInfo, readErrors, wpc, todo, cur, omitDupCall,
              unhealthy, computeModeDisabled, sending, hpc, held, lw, devs,
              view, conn, main, cancelled, sighup>>

Unread == 2

TypeOK ==
    /\ bad \subseteq Slot
    /\ prohibited \subseteq Slot
    /\ Listed \subseteq devsInfo /\ devsInfo \subseteq Device
    /\ readErrors \in 0..MaxReadErrors
    /\ wpc \in {"top", "scan", "mode", "send", "exited"}
    /\ todo \subseteq Device
    /\ cur \in Device \cup {None}
    /\ omitDupCall \in [Slot -> {0, 1, Unread}]
    /\ unhealthy \subseteq Device
    /\ computeModeDisabled \in BOOLEAN
    /\ sending \in Event \cup {None}
    /\ hpc \in {"select", "forward", "exited"}
    /\ held \in Event \cup {None}
    /\ lw \in {"none", "open", "returned"}
    /\ devs \in [Listed -> Health]
    /\ view \in [Listed -> Health] \cup {None}
    /\ conn \in {"up", "broken"}
    /\ main \in {"running", "stopping", "stopped"}
    /\ cancelled \in BOOLEAN
    /\ sighup \in BOOLEAN

-----------------------------------------------------------------------------
(* Start has returned: the server listens, healthcheck and watchUnhealthy   *)
(* have been started, GetDevices advertised every device as Healthy.        *)
Init ==
    /\ bad \in SUBSET Slot
    /\ prohibited \in SUBSET Slot
    /\ devsInfo = Listed
    /\ readErrors = 0
    /\ wpc = "top"
    /\ todo = {}
    /\ cur = None
    /\ omitDupCall = [s \in Slot |-> Unread]
    /\ unhealthy = {}
    /\ computeModeDisabled = FALSE
    /\ sending = None
    /\ hpc = "select"
    /\ held = None
    /\ lw = "none"
    /\ devs = [d \in Listed |-> "Healthy"]
    /\ view = None
    /\ conn = "up"
    /\ main = "running"
    /\ cancelled = FALSE
    /\ sighup = FALSE

-----------------------------------------------------------------------------
(* The hardware: a card fails, recovers, or changes its compute mode at     *)
(* any time, also between the two reads of one verdict.                     *)
HardwareChanges ==
    /\ \E s \in Slot :
          \/ /\ bad' = IF s \in bad THEN bad \ {s} ELSE bad \cup {s}
             /\ UNCHANGED prohibited
          \/ /\ prohibited' = IF s \in prohibited THEN prohibited \ {s}
                                                  ELSE prohibited \cup {s}
             /\ UNCHANGED bad
    /\ UNCHANGED <<devsInfo, wVars, sending, hpc, held, lwVars, conn, main, cancelled>>

(* allocateDynamicSmlu has created an instance on a card.  In the middle of *)
(* a range the watcher may come across it or not.  (When the runtime sees   *)
(* the two at the map together it ends the process instead, and all this.)  *)
AllocateAdds(d) ==
    /\ d \notin devsInfo
    /\ devsInfo' = devsInfo \cup {d}
    /\ \/ UNCHANGED todo
       \/ wpc \in {"scan", "mode", "send"} /\ todo' = todo \cup {d}
    /\ UNCHANGED <<bad, prohibited, readErrors, wpc, cur, omitDupCall, unhealthy,
                   computeModeDisabled, sending, hpc, held, lwVars, conn, main,
                   cancelled>>

-----------------------------------------------------------------------------
(* watchUnhealthy *)

(* Mutant: the verdicts of the previous round are not forgotten.            *)
BeginRoundKeepsVerdicts ==
    /\ wpc = "top"
    /\ wpc' = IF cancelled THEN "exited" ELSE "scan"
    /\ todo' = IF cancelled THEN todo ELSE devsInfo
    /\ UNCHANGED <<hwVars, readErrors, cur, omitDupCall, unhealthy,
                   computeModeDisabled, sending, hpc, held, lwVars, conn, main,
                   cancelled>>

(* The top of a round: the only place where the context is looked at.       *)
BeginRound ==
    /\ wpc = "top"
    /\ IF cancelled
         THEN /\ wpc' = "exited"
              /\ UNCHANGED <<todo, omitDupCall>>
         ELSE /\ wpc' = "scan"
              /\ todo' = devsInfo
              /\ omitDupCall' = [s \in Slot |-> Unread]
    /\ UNCHANGED <<hwVars, readErrors, cur, unhealthy, computeModeDisabled,
                   sending, hpc, held, lwVars, conn, main, cancelled>>

(* A call of the driver that returns an error.                              *)
ReadFails ==
    /\ readErrors < MaxReadErrors
    /\ readErrors' = readErrors + 1

(* Mutant: the map of unhealthy devices is keyed by card.                   *)
JudgeKeyedByCard(d, ret) ==
    /\ todo' = todo \ {d}
    /\ IF ret = 0 /\ SlotOf[d] \notin unhealthy
         THEN /\ unhealthy' = unhealthy \cup {SlotOf[d]}
              /\ sending' = [id |-> d, health |-> "Unhealthy"]
              /\ wpc' = "send"
         ELSE /\ wpc' = "scan"
              /\ UNCHANGED <<unhealthy, sending>>

(* Mutant: a recovered device is not deleted from the map.                  *)
JudgeKeepsRecovered(d, ret) ==
    /\ todo' = todo \ {d}
    /\ IF (ret = 0) <=> (d \in unhealthy)
         THEN /\ wpc' = "scan"
              /\ UNCHANGED <<unhealthy, sending>>
         ELSE /\ unhealthy' = unhealthy \cup {d}
              /\ sending' = [id |-> d, health |-> IF ret = 0 THEN "Unhealthy"
                                                            ELSE "Healthy"]
              /\ wpc' = "send"

(* Mutant: an unhealthy device is reported again in every round.            *)
JudgeRepeats(d, ret) ==
    /\ todo' = todo \ {d}
    /\ IF ret = 1 /\ d \notin unhealthy
         THEN /\ wpc' = "scan"
              /\ UNCHANGED <<unhealthy, sending>>
         ELSE /\ unhealthy' = IF ret = 0 THEN unhealthy \cup {d}
                                         ELSE unhealthy \ {d}
              /\ sending' = [id |-> d, health |-> IF ret = 0 THEN "Unhealthy"
                                                            ELSE "Healthy"]
              /\ wpc' = "send"

(* Mutant: recovery is not reported.                                        *)
JudgeSilentRecovery(d, ret) ==
    /\ todo' = todo \ {d}
    /\ IF ret = 0 /\ d \notin unhealthy
         THEN /\ unhealthy' = unhealthy \cup {d}
              /\ sending' = [id |-> d, health |-> "Unhealthy"]
              /\ wpc' = "send"
         ELSE /\ wpc' = "scan"
              /\ unhealthy' = IF ret = 0 THEN unhealthy ELSE unhealthy \ {d}
              /\ UNCHANGED sending

(* The device d of the card just judged (or judged earlier in the round):   *)
(* only a change of its state is sent, and it is recorded before the send.  *)
Judge(d, ret) ==
    /\ todo' = todo \ {d}
    /\ IF ret = 0
         THEN IF d \in unhealthy
                THEN /\ wpc' = "scan"
                     /\ UNCHANGED <<unhealthy, sending>>
                ELSE /\ unhealthy' = unhealthy \cup {d}
                     /\ sending' = [id |-> d, health |-> "Unhealthy"]
                     /\ wpc' = "send"
         ELSE IF d \in unhealthy
                THEN /\ unhealthy' = unhealthy \ {d}
                     /\ sending' = [id |-> d, health |-> "Healthy"]
                     /\ wpc' = "send"
                ELSE /\ wpc' = "scan"
                     /\ UNCHANGED <<unhealthy, sending>>

(* The verdict on d's card is known: cache it and judge d.                  *)
Conclude(d, ret) ==
    /\ omitDupCall' = [omitDupCall EXCEPT ![SlotOf[d]] = ret]
    /\ Judge(d, ret)

(* The next device of the range, whose card was already read this round.    *)
JudgeCached(d) ==
    /\ wpc = "scan"
    /\ d \in todo
    /\ omitDupCall[SlotOf[d]] # Unread
    /\ Judge(d, omitDupCall[SlotOf[d]])
    /\ UNCHANGED <<hwVars, readErrors, cur, omitDupCall, computeModeDisabled,
                   hpc, held, lwVars, conn, main, cancelled>>

(* The next device of the range: read the health of its card.  A failing    *)
(* read counts as unhealthy; a healthy card goes on to the compute mode.    *)
ReadHealth(d) ==
    /\ wpc = "scan"
    /\ d \in todo
    /\ omitDupCall[SlotOf[d]] = Unread
    /\ \/ /\ ReadFails
          /\ Conclude(d, 0)
          /\ UNCHANGED cur
       \/ /\ SlotOf[d] \in bad
          /\ Conclude(d, 0)
          /\ UNCHANGED <<cur, readErrors>>
       \/ /\ SlotOf[d] \notin bad
          /\ computeModeDisabled
          /\ Conclude(d, 1)
          /\ UNCHANGED <<cur, readErrors>>
       \/ /\ SlotOf[d] \notin bad
          /\ ~computeModeDisabled
          /\ wpc' = "mode"
          /\ cur' = d
          /\ UNCHANGED <<todo, omitDupCall, unhealthy, sending, readErrors>>
    /\ UNCHANGED <<hwVars, computeModeDisabled, hpc, held, lwVars, conn, main,
                   cancelled>>

(* A second later: the compute mode.  One failing read switches the check   *)
(* off for every card for good.                                             *)
ReadComputeMode ==
    /\ wpc = "mode"
    /\ cur' = None
    /\ \/ /\ ReadFails
          /\ computeModeDisabled' = TRUE
          /\ Conclude(cur, 1)
       \/ /\ Conclude(cur, IF SlotOf[cur] \in prohibited THEN 0 ELSE 1)
          /\ UNCHANGED <<computeModeDisabled, readErrors>>
    /\ UNCHANGED <<hwVars, hpc, held, lwVars, conn, main, cancelled>>

(* Every device judged: sleep a second and begin again.                     *)
EndRound ==
    /\ wpc = "scan"
    /\ todo = {}
    /\ wpc' = "top"
    /\ UNCHANGED <<hwVars, readErrors, todo, cur, omitDupCall, unhealthy,
                   computeModeDisabled, sending, hpc, held, lwVars, conn, main,
                   cancelled>>

WatcherStep ==
    \/ BeginRound
    \/ \E d \in Device : JudgeCached(d) \/ ReadHealth(d)
    \/ ReadComputeMode
    \/ EndRound

-----------------------------------------------------------------------------
(* healthcheck *)

(* case dev := <-health                                                     *)
HealthcheckReceives ==
    /\ hpc = "select"
    /\ wpc = "send"
    /\ held' = sending
    /\ sending' = None
    /\ hpc' = "forward"
    /\ wpc' = "scan"
    /\ UNCHANGED <<hwVars, readErrors, todo, cur, omitDupCall, unhealthy,
                   computeModeDisabled, lwVars, conn, main, cancelled>>

(* Mutant: healthcheck returns without cancelling the watcher's context.    *)
HealthcheckStopsUncancelled ==
    /\ hpc = "select"
    /\ main = "stopped"
    /\ hpc' = "exited"
    /\ UNCHANGED <<hwVars, wVars, sending, held, lwVars, conn, main, cancelled>>

(* case <-m.stop: cancel the watcher's context and return.                  *)
HealthcheckStops ==
    /\ hpc = "select"
    /\ main = "stopped"
    /\ cancelled' = TRUE
    /\ hpc' = "exited"
    /\ UNCHANGED <<hwVars, wVars, sending, held, lwVars, conn, main>>

-----------------------------------------------------------------------------
(* ListAndWatch *)

(* s.Send of the list ds.  On a broken stream it fails, or is swallowed by  *)
(* a transport that has not noticed yet.  A failure returns from the        *)
(* handler and sends SIGHUP to the process.                                 *)
Send(ds) ==
    \/ /\ conn = "up"
       /\ view' = ds
       /\ lw' = "open"
       /\ UNCHANGED sighup
    \/ /\ conn = "broken"
       /\ lw' = "open"
       /\ UNCHANGED <<view, sighup>>
    \/ /\ conn = "broken"
       /\ lw' = "returned"
       /\ sighup' = TRUE
       /\ UNCHANGED view

(* The kubelet, told by Register, calls ListAndWatch: the first list.       *)
ListAndWatch ==
    /\ lw = "none"
    /\ main = "running"
    /\ Send(devs)
    /\ UNCHANGED <<hwVars, wVars, sending, hpc, held, devs, conn, main,
                   cancelled>>

Updated(event) ==
    IF event.id \in Listed THEN [devs EXCEPT ![event.id] = event.health] ELSE devs

(* Mutant: the list is sent before it is updated.                           *)
DeliverHealthSendsFirst ==
    /\ hpc = "forward"
    /\ lw = "open"
    /\ Send(devs)
    /\ devs' = Updated(held)
    /\ held' = None
    /\ hpc' = "select"
    /\ UNCHANGED <<hwVars, wVars, sending, conn, main, cancelled>>

(* case d := <-m.health: update m.devs, if it has d, and send the whole list.*)
DeliverHealth ==
    /\ hpc = "forward"
    /\ lw = "open"
    /\ devs' = Updated(held)
    /\ Send(devs')
    /\ held' = None
    /\ hpc' = "select"
    /\ UNCHANGED <<hwVars, wVars, sending, conn, main, cancelled>>

(* case <-m.stop                                                            *)
ListAndWatchStops ==
    /\ lw = "open"
    /\ main = "stopped"
    /\ lw' = "returned"
    /\ UNCHANGED <<hwVars, wVars, sending, hpc, held, devs, view, sighup, conn,
                   main, cancelled>>

-----------------------------------------------------------------------------
(* The kubelet goes away (external).                                        *)
KubeletDisconnects ==
    /\ conn = "up"
    /\ conn' = "broken"
    /\ UNCHANGED <<hwVars, wVars, sending, hpc, held, lwVars, main, cancelled>>

(* Stop, first half: grpc.Server.Stop closes every connection.              *)
ServerStop ==
    /\ main = "running"
    /\ main' = "stopping"
    /\ conn' = "broken"
    /\ UNCHANGED <<hwVars, wVars, sending, hpc, held, lwVars, cancelled>>

(* Stop, second half: close(m.stop), remove the socket.                     *)
CloseStop ==
    /\ main = "stopping"
    /\ main' = "stopped"
    /\ UNCHANGED <<hwVars, wVars, sending, hpc, held, lwVars, conn, cancelled>>

Next ==
    \/ HardwareChanges
    \/ \E d \in Device : AllocateAdds(d)
    \/ WatcherStep
    \/ HealthcheckReceives
    \/ HealthcheckStops
    \/ ListAndWatch
    \/ DeliverHealth
    \/ ListAndWatchStops
    \/ KubeletDisconnects
    \/ ServerStop
    \/ CloseStop

(***************************************************************************)
(* Goroutines run (weak fairness).  A select that finds two cases ready    *)
(* picks one at random, so a case that stays or keeps becoming ready is    *)
(* eventually picked (strong fairness of each case).  The kubelet answers  *)
(* a registration by calling ListAndWatch.  Nothing makes the hardware     *)
(* change, the kubelet leave, the main goroutine call Stop, or a read fail.*)
(***************************************************************************)
Fairness ==
    /\ WF_vars(WatcherStep)
    /\ SF_vars(HealthcheckReceives)
    /\ SF_vars(HealthcheckStops)
    /\ SF_vars(DeliverHealth)
    /\ SF_vars(ListAndWatchStops)
    /\ WF_vars(ListAndWatch)
    /\ WF_vars(CloseStop)

Spec == Init /\ [][Next]_vars /\ Fairness

-----------------------------------------------------------------------------
(* Properties *)

(* Is a report about d on its way?                                          *)
InFlight(d) ==
    \/ sending # None /\ sending.id = d
    \/ held # None /\ held.id = d

(* The state of d that is newest in the pipeline, seen from the watcher.    *)
Newest(d) ==
    IF sending # None /\ sending.id = d THEN sending.health
    ELSE IF held # None /\ held.id = d THEN held.health
    ELSE devs[d]

(* watchUnhealthy's private map and the far end of the pipeline never drift *)
(* apart: a device is in the map exactly when the newest report about it,   *)
(* in flight or delivered, says Unhealthy.  Otherwise "already reported"    *)
(* would suppress the report forever.  (Of an instance that is not listed   *)
(* nothing is kept once its report has arrived.)                            *)
PipelineConsistent ==
    \A d \in Device : d \in Listed \/ InFlight(d) =>
        ((d \in unhealthy) <=> (Newest(d) = "Unhealthy"))

(* No report is redundant, and two reports about one device that are in     *)
(* flight together are opposite: each report on its way differs from what   *)
(* is downstream of it, so each delivery changes what the kubelet is told   *)
(* of a listed device.                                                      *)
EveryReportIsAChange ==
    /\ held # None /\ held.id \in Listed => devs[held.id] # held.health
    /\ sending # None =>
          IF held # None /\ held.id = sending.id
          THEN sending.health # held.health
          ELSE sending.id \in Listed => sending.health # devs[sending.id]

(* While the stream is up and ListAndWatch serves it, the kubelet has       *)
(* exactly m.devs: every change of m.devs was sent.                         *)
StreamInSync ==
    lw = "open" /\ conn = "up" => view = devs

(* Where the goroutines block agrees with what they hold.                   *)
ControlMatchesData ==
    /\ (wpc = "send") <=> (sending # None)
    /\ (hpc = "forward") <=> (held # None)
    /\ (wpc = "mode") <=> (cur # None)

(* The inductive invariant behind the three safety properties.              *)
IInv ==
    /\ TypeOK
    /\ ControlMatchesData
    /\ PipelineConsistent
    /\ EveryReportIsAChange
    /\ StreamInSync

(* The kubelet is listening and nobody stops the plugin.                    *)
Serving == conn = "up" /\ main = "running"

(* A card that stays bad, or stays prohibited while the compute mode is     *)
(* still being checked, ends up Unhealthy at the kubelet for every listed   *)
(* device on it, however the events of other devices, and of the instances  *)
(* that Allocate adds, queue up before it.                                  *)
UnhealthyAdvertised ==
    \A d \in Listed :
        \/ <>[](Serving /\ SlotOf[d] \in bad)
        \/ <>[](Serving /\ SlotOf[d] \in prohibited /\ ~computeModeDisabled)
        => <>[](view # None /\ view[d] = "Unhealthy")

(* A card that stays good and usable is Healthy again at the kubelet for    *)
(* every listed device on it: reports of recovery are not lost either.      *)
RecoveryAdvertised ==
    \A d \in Listed :
        <>[](Serving /\ SlotOf[d] \notin bad \cup prohibited)
        => <>[](view # None /\ view[d] = "Healthy")

(* After Stop the old stream handler returns, and the old watcher is        *)
(* cancelled and stops calling the driver - unless healthcheck is blocked   *)
(* for good on a report that no ListAndWatch will take: it then never sees  *)
(* m.stop, and the watcher polls on until it has a report of its own to     *)
(* hand over.                                                               *)
StopQuiesces ==
    main = "stopped" ~> [](/\ lw # "open"
                           /\ \/ wpc = "exited"
                              \/ hpc = "exited" /\ wpc = "send"
                              \/ hpc = "forward" /\ ~cancelled)
=============================================================================

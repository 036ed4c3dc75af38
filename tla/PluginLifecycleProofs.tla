------------------------ MODULE PluginLifecycleProofs ------------------------
(* Main never waits in vain, for any resources and any disturbances.        *)
EXTENDS PluginLifecycle, TLAPS

LEMMA InitEstablishes == Init => IInv
  <1> SUFFICES ASSUME Init PROVE IInv
    OBVIOUS
  <1>1. TypeOK /\ Accounted
    <2>1. /\ faults \in 0..MaxFaults /\ late \in 0..MaxFaults
          /\ created \in 0..MaxFaults
          /\ Accounted
      BY LifecycleAssumption DEF Init, Accounted
    <2>2. timer \in BOOLEAN /\ term \in BOOLEAN
      BY DEF Init
    <2>3. inflight \subseteq Signal /\ sigs \in Signal \cup {None}
      BY DEF Init
    <2>4. /\ sock \in [Plugin -> {"none", "current", "leaked", "stale"}]
          /\ stream \in [Plugin -> {"none", "open", "broken"}]
      BY DEF Init
    <2>5. /\ pc = "stop" <=> why # None
          /\ pc \in {"dial", "register"} <=> cur # None
      BY DEF Init
    <2> QED BY <2>1, <2>2, <2>3, <2>4, <2>5 DEF Init, TypeOK
  <1>2. Phases
    BY LifecycleAssumption DEF Init, Phases
  <1>3. SocketLeadsToServer /\ ServedOrNoted /\ IncompleteRunRetried
    BY DEF Init, SocketLeadsToServer, ServedOrNoted, IncompleteRunRetried
  <1> QED BY <1>1, <1>2, <1>3 DEF IInv

LEMMA FaultType ==
  ASSUME TypeOK, NEW kind, Fault(kind)
  PROVE  faults' = faults + 1 /\ faults' \in 0..MaxFaults
  BY LifecycleAssumption DEF TypeOK, Fault

LEMMA SumMonotone ==
  ASSUME NEW c \in Nat, NEW l \in Nat, NEW a \in Nat, NEW f \in Nat,
         NEW d \in Nat, NEW m \in Nat, NEW g \in Nat,
         c + l + a <= f, d <= c, m <= l, g >= f
  PROVE  d + m + a <= g
  OBVIOUS

LEMMA AccountedStill ==
  ASSUME TypeOK, Accounted, UNCHANGED kubelet,
         created' \in Nat, late' \in Nat, faults' \in Nat,
         created' <= created, late' <= late, faults' >= faults
  PROVE  Accounted'
  <1> DEFINE away == IF kubelet = "up" THEN 0 ELSE 1
  <1>1. created \in Nat /\ late \in Nat /\ faults \in Nat
    BY LifecycleAssumption DEF TypeOK
  <1>2. away \in Nat /\ created + late + away <= faults
    BY DEF Accounted
  <1>3. Accounted' <=> created' + late' + away <= faults'
    BY DEF Accounted
  <1> HIDE DEF away
  <1>4. created' + late' + away <= faults'
    BY <1>1, <1>2, SumMonotone
  <1> QED BY <1>3, <1>4

LEMMA ListenPreserves ==
  ASSUME IInv, NEW p \in Plugin, Listen(p)
  PROVE  IInv'
  <1>1. /\ pc = "serve" /\ p \in todo /\ cur = None
        /\ UNCHANGED <<why, plugins, leaked, stream, late, inflight, sigs,
                       created, kubelet, term>>
    BY DEF Listen, IInv, TypeOK
  <1>2. p \notin server /\ p \notin plugins
    BY <1>1 DEF IInv, Phases
  <1>3. faults' \in 0..MaxFaults /\ faults' >= faults
    BY FaultType DEF IInv, TypeOK, Listen
  <1>4. CASE /\ sock' = [sock EXCEPT ![p] = "current"]
             /\ server' = server \cup {p}
             /\ pc' = "dial" /\ cur' = p /\ todo' = todo \ {p}
             /\ UNCHANGED timer
    <2>1. TypeOK' /\ Accounted'
      BY <1>1, <1>3, <1>4, LifecycleAssumption DEF IInv, TypeOK, Accounted
    <2>2. Phases'
      BY <1>1, <1>2, <1>4, LifecycleAssumption DEF IInv, TypeOK, Phases
    <2>3. SocketLeadsToServer'
      BY <1>1, <1>4 DEF IInv, TypeOK, SocketLeadsToServer
    <2>4. ServedOrNoted' /\ IncompleteRunRetried'
      BY <1>1, <1>2, <1>4
         DEF IInv, TypeOK, ServedOrNoted, Served, IncompleteRunRetried
    <2> QED BY <2>1, <2>2, <2>3, <2>4 DEF IInv
  <1>5. CASE /\ sock' \in {sock, [sock EXCEPT ![p] = "none"]}
             /\ GiveUp /\ UNCHANGED server
    <2>1. TypeOK' /\ Accounted'
      BY <1>1, <1>3, <1>5, LifecycleAssumption
         DEF IInv, TypeOK, Accounted, GiveUp
    <2>2. Phases'
      BY <1>1, <1>5 DEF IInv, TypeOK, Phases, GiveUp
    <2>3. SocketLeadsToServer'
      BY <1>1, <1>2, <1>5 DEF IInv, TypeOK, SocketLeadsToServer, GiveUp
    <2>4. ServedOrNoted' /\ IncompleteRunRetried'
      BY <1>1, <1>2, <1>5
         DEF IInv, TypeOK, ServedOrNoted, Served, IncompleteRunRetried,
             Pending, GiveUp
    <2> QED BY <2>1, <2>2, <2>3, <2>4 DEF IInv
  <1> QED BY <1>4, <1>5 DEF Listen

LEMMA DialPreserves ==
  ASSUME IInv, Dial
  PROVE  IInv'
  <1>1. /\ pc = "dial" /\ cur \in Plugin /\ cur \notin plugins
        /\ UNCHANGED <<why, plugins, stream, late, inflight, sigs, created,
                       kubelet, term>>
    BY DEF Dial, IInv, TypeOK, Phases
  <1>2. faults' \in 0..MaxFaults /\ faults' >= faults
    BY FaultType DEF IInv, TypeOK, Dial
  <1>3. CASE /\ pc' = "register"
             /\ UNCHANGED <<cur, todo, timer, server, leaked, sock>>
    <2>1. TypeOK' /\ Accounted' /\ Phases' /\ SocketLeadsToServer'
      BY <1>1, <1>2, <1>3
         DEF IInv, TypeOK, Accounted, Phases, SocketLeadsToServer
    <2>2. ServedOrNoted' /\ IncompleteRunRetried'
      BY <1>1, <1>3 DEF IInv, ServedOrNoted, Served, IncompleteRunRetried
    <2> QED BY <2>1, <2>2 DEF IInv
  <1>4. CASE /\ GiveUp
             /\ server' = server \ {cur}
             /\ leaked' = leaked \cup {cur}
             /\ sock' = [sock EXCEPT ![cur] = IF @ = "current" THEN "leaked"
                                                               ELSE @]
    <2>1. TypeOK' /\ Accounted'
      BY <1>1, <1>2, <1>4 DEF IInv, TypeOK, Accounted, GiveUp
    <2>2. Phases'
      BY <1>1, <1>4 DEF IInv, TypeOK, Phases, GiveUp
    <2>3. SocketLeadsToServer'
      BY <1>1, <1>4 DEF IInv, TypeOK, SocketLeadsToServer, GiveUp
    <2>4. ServedOrNoted' /\ IncompleteRunRetried'
      BY <1>1, <1>4
         DEF IInv, TypeOK, ServedOrNoted, Served, IncompleteRunRetried,
             Pending, GiveUp
    <2> QED BY <2>1, <2>2, <2>3, <2>4 DEF IInv
  <1> QED BY <1>3, <1>4 DEF Dial

(* When the socket of the plugin was removed meanwhile, the kubelet that    *)
(* did so has created its own, and the event waits.                         *)
LEMMA RegisterPreserves ==
  ASSUME IInv, Register
  PROVE  IInv'
  <1>1. /\ pc = "register" /\ cur \in Plugin /\ cur \notin plugins
        /\ cur \in server /\ why = None
        /\ UNCHANGED <<why, leaked, inflight, sigs, created, kubelet, term>>
    BY DEF Register, IInv, TypeOK, Phases
  <1>2. faults' \in 0..MaxFaults /\ faults' >= faults
    BY FaultType DEF IInv, TypeOK, Register
  <1>3. CASE /\ kubelet = "up"
             /\ stream' = [stream EXCEPT ![cur] = IF sock[cur] = "current"
                                                    THEN "open" ELSE "none"]
             /\ plugins' = plugins \cup {cur}
             /\ pc' = "serve" /\ cur' = None
             /\ UNCHANGED <<todo, timer, server, sock, late, faults>>
    <2>1. TypeOK' /\ Accounted'
      BY <1>1, <1>3 DEF IInv, TypeOK, Accounted
    <2>2. Phases'
      BY <1>1, <1>3, LifecycleAssumption DEF IInv, TypeOK, Phases
    <2>3. SocketLeadsToServer'
      BY <1>1, <1>3 DEF IInv, SocketLeadsToServer
    <2>4. sock[cur] = "current" \/ created > 0
      <3>1. None # "restart"
        BY LifecycleAssumption
      <3> QED BY <1>1, <1>3, <3>1 DEF IInv, SocketLeadsToServer
    <2>5. ServedOrNoted'
      BY <1>1, <1>3, <2>4 DEF IInv, TypeOK, ServedOrNoted, Served
    <2>6. IncompleteRunRetried'
      BY <1>3 DEF IncompleteRunRetried
    <2> QED BY <2>1, <2>2, <2>3, <2>5, <2>6 DEF IInv
  <1>4. CASE /\ GiveUp
             /\ server' = server \ {cur}
             /\ sock' = [sock EXCEPT ![cur] = "none"]
             /\ UNCHANGED <<plugins, stream, late>>
    <2>1. TypeOK' /\ Accounted'
      BY <1>1, <1>2, <1>4 DEF IInv, TypeOK, Accounted, GiveUp
    <2>2. Phases'
      BY <1>1, <1>4 DEF IInv, TypeOK, Phases, GiveUp
    <2>3. SocketLeadsToServer'
      BY <1>1, <1>4 DEF IInv, TypeOK, SocketLeadsToServer, GiveUp
    <2>4. ServedOrNoted' /\ IncompleteRunRetried'
      BY <1>1, <1>4
         DEF IInv, TypeOK, ServedOrNoted, Served, IncompleteRunRetried,
             Pending, GiveUp
    <2> QED BY <2>1, <2>2, <2>3, <2>4 DEF IInv
  <1> QED BY <1>3, <1>4 DEF Register

LEMMA AllServedPreserves ==
  ASSUME IInv, AllServed
  PROVE  IInv'
  <1>1. /\ pc = "serve" /\ todo = {} /\ pc' = "select" /\ cur = None
        /\ UNCHANGED <<why, todo, cur, plugins, server, leaked, sock, stream,
                       late, timer, inflight, sigs, created, kubelet, term,
                       faults>>
    BY DEF AllServed, served, inputs, IInv, TypeOK
  <1>2. plugins = Plugin
    BY <1>1 DEF IInv, Phases
  <1> QED BY <1>1, <1>2 DEF IInv, TypeOK, Accounted, Phases,
             SocketLeadsToServer, ServedOrNoted, Served, IncompleteRunRetried

-----------------------------------------------------------------------------
LEMMA SelectPreserves ==
  ASSUME IInv, Select
  PROVE  IInv'
  <1>1. /\ pc = "select" /\ pc' = "stop" /\ todo' = plugins
        /\ why' \in {"restart", "term"}
        /\ UNCHANGED <<cur, plugins, server, leaked, sock, stream, late,
                       inflight, kubelet, faults>>
    BY DEF Select, TimerFires, SocketCreated, ReceiveSignal, StopPlugins, served
  <1>2. sigs' \in {sigs, None} /\ timer' \in {timer, FALSE}
    BY DEF Select, TimerFires, SocketCreated, ReceiveSignal, StopPlugins
  <1>3. /\ created \in 0..MaxFaults
        /\ \/ created' = created
           \/ created > 0 /\ created' = created - 1 /\ why' = "restart"
    BY DEF Select, TimerFires, SocketCreated, ReceiveSignal, StopPlugins, IInv,
           TypeOK
  <1>4. term' \in {term, TRUE} /\ (why' = "term" => term' = TRUE)
    BY DEF Select, TimerFires, SocketCreated, ReceiveSignal, StopPlugins
  <1>5. /\ created' \in 0..MaxFaults /\ created' <= created
        /\ sigs' \in Signal \cup {None}
    BY <1>2, <1>3, LifecycleAssumption DEF IInv, TypeOK
  <1>6. timer' \in BOOLEAN /\ term' \in BOOLEAN
    BY <1>2, <1>4 DEF IInv, TypeOK
  <1>7. Accounted'
    <2>1. /\ created' \in Nat /\ late' \in Nat /\ faults' \in Nat
          /\ late' <= late /\ faults' >= faults
      BY <1>1, <1>5, LifecycleAssumption DEF IInv, TypeOK
    <2> QED BY <1>1, <1>5, <2>1, AccountedStill DEF IInv
  <1>8. pc' = "stop" /\ why' # None /\ cur' = None
    BY <1>1, LifecycleAssumption DEF IInv, TypeOK
  <1>9. TypeOK'
    BY <1>1, <1>5, <1>6, <1>8 DEF IInv, TypeOK
  <1>10. Phases' /\ ServedOrNoted' /\ IncompleteRunRetried'
    BY <1>1, <1>4 DEF IInv, Phases, ServedOrNoted, IncompleteRunRetried
  <1>11. SocketLeadsToServer'
    <2>1. why = None /\ None # "restart"
      BY <1>1, LifecycleAssumption DEF IInv, TypeOK
    <2> QED BY <1>1, <1>3, <2>1 DEF IInv, SocketLeadsToServer
  <1> QED BY <1>7, <1>9, <1>10, <1>11 DEF IInv

LEMMA ExitPreserves ==
  ASSUME IInv, Exit, UNCHANGED <<kubelet, term>>,
         faults' = faults + 1, faults' \in 0..MaxFaults
  PROVE  IInv'
  <1>1. Accounted' /\ late' \in 0..MaxFaults /\ created' \in 0..MaxFaults
    BY LifecycleAssumption DEF IInv, TypeOK, Accounted, Exit
  <1>2. /\ sock' \in [Plugin -> {"none", "current", "leaked", "stale"}]
        /\ stream' \in [Plugin -> {"none", "open", "broken"}]
    BY DEF Exit
  <1>3. /\ pc' = "down" /\ why' = None /\ cur' = None /\ todo' = {}
        /\ plugins' = {} /\ server' = {} /\ leaked' = {} /\ inflight' = {}
        /\ sigs' = None /\ created' = 0
    BY DEF Exit
  <1>4. timer' \in BOOLEAN
    BY DEF Exit
  <1>5. TypeOK'
    BY <1>1, <1>2, <1>3, <1>4 DEF IInv, TypeOK
  <1>6. None # "term"
    BY LifecycleAssumption
  <1>7. Phases' /\ SocketLeadsToServer' /\ ServedOrNoted'
        /\ IncompleteRunRetried'
    BY <1>3, <1>6
       DEF Phases, SocketLeadsToServer, ServedOrNoted, IncompleteRunRetried
  <1> QED BY <1>1, <1>5, <1>7 DEF IInv

LEMMA StopPreserves ==
  ASSUME IInv, NEW p \in Plugin, Stop(p)
  PROVE  IInv'
  <1>1. CASE /\ StopServer(p)
             /\ todo' = todo \ {p}
             /\ UNCHANGED <<pc, why, cur, plugins, leaked, inputs>>
    <2>1. /\ pc = "stop" /\ server' = server \ {p}
          /\ UNCHANGED <<kubelet, term, timer, inflight, sigs, created>>
      BY <1>1 DEF Stop, StopServer, inputs
    <2>2. /\ \/ UNCHANGED <<late, faults>>
             \/ late' = late + 1 /\ faults' = faults + 1
                /\ faults' \in 0..MaxFaults
          /\ sock' \in {sock, [sock EXCEPT ![p] = "none"]}
          /\ stream' \in {stream, [stream EXCEPT ![p] = "none"]}
      BY <1>1, FaultType DEF StopServer, IInv
    <2>3. Accounted' /\ faults' \in 0..MaxFaults
      BY <2>1, <2>2 DEF IInv, TypeOK, Accounted
    <2>4. late' \in 0..MaxFaults
      BY <2>1, <2>2, <2>3, LifecycleAssumption DEF IInv, TypeOK, Accounted
    <2>5. TypeOK'
      BY <1>1, <2>1, <2>2, <2>3, <2>4 DEF IInv, TypeOK
    <2>6. Phases' /\ ServedOrNoted' /\ IncompleteRunRetried'
      BY <1>1, <2>1 DEF IInv, Phases, ServedOrNoted, IncompleteRunRetried
    <2>7. SocketLeadsToServer'
      BY <1>1, <2>1, <2>2 DEF IInv, TypeOK, SocketLeadsToServer
    <2> QED BY <2>3, <2>5, <2>6, <2>7 DEF IInv
  <1>2. CASE Fault("remove") /\ Exit
    BY <1>2, FaultType, ExitPreserves DEF Stop, IInv
  <1> QED BY <1>1, <1>2 DEF Stop

LEMMA StoppedPreserves ==
  ASSUME IInv, Stopped
  PROVE  IInv'
  <1>1. /\ pc = "stop" /\ todo = {} /\ why' = None /\ cur = None
        /\ UNCHANGED <<cur, server, leaked, sock, stream, late, timer,
                       inflight, sigs, created, kubelet, term, faults>>
        /\ \/ why = "restart" /\ pc' = "serve" /\ todo' = Plugin /\ plugins' = {}
           \/ why = "term" /\ pc' = "select" /\ UNCHANGED <<todo, plugins>>
    BY DEF Stopped, served, inputs, IInv, TypeOK
  <1>2. server = {} /\ (why = "term" => term)
    BY <1>1 DEF IInv, Phases
  <1>3. TypeOK' /\ Accounted'
    BY <1>1, LifecycleAssumption DEF IInv, TypeOK, Accounted
  <1>4. Phases' /\ SocketLeadsToServer'
    BY <1>1, <1>2, LifecycleAssumption DEF Phases, SocketLeadsToServer
  <1>5. ServedOrNoted' /\ IncompleteRunRetried'
    BY <1>1, <1>2 DEF ServedOrNoted, IncompleteRunRetried
  <1> QED BY <1>3, <1>4, <1>5 DEF IInv

-----------------------------------------------------------------------------
(* The handlers and the signals: an end of a stream is noted.               *)

LEMMA SignalsPreserve ==
  ASSUME IInv,
         \/ \E p \in Plugin : SendFails(p)
         \/ LateSendFails
         \/ ExternalSignal
         \/ \E s \in Signal : Deliver(s)
  PROVE  IInv'
  <1>1. /\ UNCHANGED <<pc, why, todo, cur, plugins, server, leaked, sock,
                       timer, created, kubelet, term>>
        /\ inflight' \subseteq Signal
        /\ sigs' \in Signal \cup {None}
        /\ stream' \in [Plugin -> {"none", "open", "broken"}]
        /\ stream' # stream => inflight' # {}
        /\ sigs # None \/ inflight # {} => sigs' # None \/ inflight' # {}
    <2>1. CASE \E p \in Plugin : SendFails(p)
      BY <2>1 DEF SendFails, Raise, main, IInv, TypeOK, Signal
    <2>2. CASE LateSendFails
      BY <2>2 DEF LateSendFails, Raise, main, IInv, TypeOK, Signal
    <2>3. CASE ExternalSignal
      BY <2>3 DEF ExternalSignal, Raise, main, served, IInv, TypeOK, Signal
    <2>4. CASE \E s \in Signal : Deliver(s)
      BY <2>4, LifecycleAssumption
         DEF Deliver, main, served, IInv, TypeOK, Signal
    <2> QED BY <2>1, <2>2, <2>3, <2>4
  <1>2. /\ faults' \in 0..MaxFaults /\ faults' >= faults
        /\ late' \in 0..MaxFaults /\ late' <= late
    <2>1. faults \in 0..MaxFaults /\ late \in 0..MaxFaults /\ TypeOK
      BY DEF IInv, TypeOK
    <2>2. UNCHANGED faults \/ \E kind \in FaultKind : Fault(kind)
      BY DEF SendFails, LateSendFails, ExternalSignal, Deliver, FaultKind
    <2>3. UNCHANGED late \/ (late > 0 /\ late' = late - 1)
      BY DEF SendFails, LateSendFails, ExternalSignal, Deliver, served
    <2>4. faults' = faults \/ (faults' = faults + 1 /\ faults' \in 0..MaxFaults)
      BY <2>1, <2>2, FaultType
    <2> QED BY <2>1, <2>3, <2>4, LifecycleAssumption
  <1>3. TypeOK'
    BY <1>1, <1>2 DEF IInv, TypeOK
  <1>4. Accounted'
    <2>1. /\ created' \in Nat /\ late' \in Nat /\ faults' \in Nat
          /\ created' <= created
      BY <1>1, <1>2, LifecycleAssumption DEF IInv, TypeOK
    <2> QED BY <1>1, <1>2, <2>1, AccountedStill DEF IInv
  <1>5. Phases' /\ SocketLeadsToServer'
    BY <1>1 DEF IInv, Phases, SocketLeadsToServer
  <1>6. ServedOrNoted' /\ IncompleteRunRetried'
    BY <1>1 DEF IInv, ServedOrNoted, Served, IncompleteRunRetried, Pending
  <1> QED BY <1>3, <1>4, <1>5, <1>6 DEF IInv

(* The kubelet: while it is away nothing can be served; when it is back     *)
(* main has an event to read.                                               *)
LEMMA KubeletPreserves ==
  ASSUME IInv, KubeletDies \/ KubeletStarts
  PROVE  IInv'
  <1>1. /\ UNCHANGED <<pc, why, todo, cur, plugins, server, leaked, late,
                       timer, inflight, sigs, term>>
        /\ faults' \in 0..MaxFaults
        /\ stream' \in [Plugin -> {"none", "open", "broken"}]
    BY FaultType DEF KubeletDies, KubeletStarts, KubeletWipes, KubeletListens,
                     main, served, inputs, IInv, TypeOK
  <1>2. CASE KubeletDies
    <2>1. /\ kubelet = "up" /\ kubelet' = "down"
          /\ UNCHANGED <<sock, created>> /\ faults' = faults + 1
      BY <1>2, FaultType DEF KubeletDies, inputs, IInv
    <2>2. TypeOK' /\ Accounted'
      BY <1>1, <2>1 DEF IInv, TypeOK, Accounted
    <2>3. Phases' /\ SocketLeadsToServer'
      BY <1>1, <2>1 DEF IInv, Phases, SocketLeadsToServer
    <2>4. ServedOrNoted' /\ IncompleteRunRetried'
      BY <1>1, <2>1 DEF IInv, ServedOrNoted, IncompleteRunRetried, Pending
    <2> QED BY <2>2, <2>3, <2>4 DEF IInv
  <1>3. CASE KubeletWipes
    <2>1. /\ kubelet = "down" /\ kubelet' = "wiped"
          /\ sock' = [p \in Plugin |-> "none"]
          /\ UNCHANGED <<created, faults, stream>>
      BY <1>3 DEF KubeletWipes, inputs
    <2>2. TypeOK' /\ Accounted'
      BY <1>1, <2>1 DEF IInv, TypeOK, Accounted
    <2>3. Phases' /\ SocketLeadsToServer'
      BY <1>1, <2>1 DEF IInv, TypeOK, Phases, SocketLeadsToServer
    <2>4. ServedOrNoted' /\ IncompleteRunRetried'
      BY <1>1, <2>1 DEF IInv, ServedOrNoted, IncompleteRunRetried, Pending
    <2> QED BY <2>2, <2>3, <2>4 DEF IInv
  <1>4. CASE KubeletListens
    <2>1. /\ kubelet = "wiped" /\ kubelet' = "up"
          /\ created' = IF pc = "down" THEN created ELSE created + 1
          /\ UNCHANGED <<sock, faults, stream>>
      BY <1>4 DEF KubeletListens, served
    <2>2. Accounted'
      BY <1>1, <2>1 DEF IInv, TypeOK, Accounted
    <2>3. TypeOK'
      BY <1>1, <2>1, <2>2, LifecycleAssumption DEF IInv, TypeOK, Accounted
    <2>4. Phases' /\ SocketLeadsToServer'
      BY <1>1, <2>1 DEF IInv, TypeOK, Phases, SocketLeadsToServer
    <2>5. ServedOrNoted' /\ IncompleteRunRetried'
      BY <1>1, <2>1
         DEF IInv, TypeOK, ServedOrNoted, IncompleteRunRetried, Pending
    <2> QED BY <2>2, <2>3, <2>4, <2>5 DEF IInv
  <1> QED BY <1>2, <1>3, <1>4 DEF KubeletStarts

LEMMA StartProcessPreserves ==
  ASSUME IInv, StartProcess
  PROVE  IInv'
  <1>1. /\ pc = "down" /\ pc' = "serve" /\ todo' = Plugin /\ term' = FALSE
        /\ cur = None /\ why = None /\ server = {} /\ plugins = {}
        /\ UNCHANGED <<why, cur, plugins, server, leaked, sock, stream, late,
                       timer, inflight, sigs, created, kubelet, faults>>
    BY DEF StartProcess, served, inputs, IInv, TypeOK, Phases
  <1> QED BY <1>1, LifecycleAssumption
          DEF IInv, TypeOK, Accounted, Phases, SocketLeadsToServer,
              ServedOrNoted, IncompleteRunRetried

LEMMA StepPreserves == IInv /\ [Next]_vars => IInv'
  <1> SUFFICES ASSUME IInv, [Next]_vars PROVE IInv'
    OBVIOUS
  <1>1. CASE MainStep
    BY <1>1, ListenPreserves, DialPreserves, RegisterPreserves,
       AllServedPreserves, SelectPreserves, StopPreserves, StoppedPreserves
       DEF MainStep, Start
  <1>2. CASE \/ \E p \in Plugin : SendFails(p)
             \/ LateSendFails \/ ExternalSignal
             \/ \E s \in Signal : Deliver(s)
    BY <1>2, SignalsPreserve
  <1>3. CASE KubeletDies \/ KubeletStarts
    BY <1>3, KubeletPreserves
  <1>4. CASE Crash
    BY <1>4, FaultType, ExitPreserves DEF Crash, IInv
  <1>5. CASE StartProcess
    BY <1>5, StartProcessPreserves
  <1>6. CASE UNCHANGED vars
    BY <1>6 DEF vars, IInv, TypeOK, Accounted, Phases, SocketLeadsToServer,
                ServedOrNoted, Served, IncompleteRunRetried, Pending
  <1> QED BY <1>1, <1>2, <1>3, <1>4, <1>5, <1>6 DEF Next

(* The strengthened invariant of the main loop.                             *)
THEOREM LifecycleInductive == Spec => []IInv
  BY InitEstablishes, StepPreserves, PTL DEF Spec

(* Every variable of the main loop keeps its type.                          *)
THEOREM LifecycleTypes == Spec => []TypeOK
  <1>1. IInv => TypeOK
    BY DEF IInv
  <1> QED BY <1>1, LifecycleInductive, PTL

(* The socket of a server main knows of leads to it, or main will hear that *)
(* the kubelet removed it.                                                  *)
THEOREM SocketsLeadToServers == Spec => []SocketLeadsToServer
  <1>1. IInv => SocketLeadsToServer
    BY DEF IInv
  <1> QED BY <1>1, LifecycleInductive, PTL

(* While main waits and the kubelet is up, every resource is served or an   *)
(* event is on its way: no failed run, broken stream, dropped signal or     *)
(* kubelet restart leaves the node unserved for good.                       *)
THEOREM MainNeverWaitsInVain == Spec => []NeverWaitsInVain
  <1>1. IInv => NeverWaitsInVain
    BY DEF IInv, TypeOK, ServedOrNoted, IncompleteRunRetried,
           NeverWaitsInVain, Pending
  <1> QED BY <1>1, LifecycleInductive, PTL
=============================================================================

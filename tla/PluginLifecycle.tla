--------------------------- MODULE PluginLifecycle ---------------------------
(***************************************************************************)
(* The main loop of the device plugin: it serves one gRPC plugin per       *)
(* resource, registers each with the kubelet, and starts all over on a     *)
(* SIGHUP, on a new kubelet.sock, or 30 s after a run that failed.         *)
(*                                                                         *)
(*   signals --sigs, buffer of 1--> main loop --Serve--> plugins           *)
(*   kubelet --kubelet.sock------->     |     --Stop--->    |              *)
(*   timer   --restartTimeout----->     |                   |              *)
(*                  SIGHUP <--- a Send of ListAndWatch fails              *)
(*                                                                         *)
(* External: the kubelet (it removes every socket of the directory before  *)
(* it listens again), signals from outside, and the DaemonSet.             *)
(***************************************************************************)
EXTENDS Naturals, FiniteSets

CONSTANTS
    Plugin,     \* the resources (profiles) of the node, a plugin for each
    Faults,     \* kinds of disturbances that may happen
    MaxFaults,  \* bound: disturbances in a behaviour
    None

FaultKind == {"serve", "dial", "register", "remove", "send", "late", "crash",
              "kubelet", "hup", "term"}

ASSUME LifecycleAssumption ==
    /\ Faults \subseteq FaultKind
    /\ MaxFaults \in Nat
    /\ None \notin Plugin \cup {"HUP", "TERM", "restart", "term"}

VARIABLES
    pc,         \* where main is; "down" when there is no process
    why,        \* what stopPlugins was called for
    todo,       \* plugins still to serve in this run, or still to stop
    cur,        \* the plugin whose Serve is under way
    plugins,    \* the plugins of the last run
    server,     \* plugins with a server (m.server is not nil)
    leaked,     \* plugins a server of an earlier object still runs for
    sock,       \* what is at the plugin's socket
    stream,     \* ListAndWatch of the plugin
    late,       \* handlers of stopped servers that have still to send
    timer,      \* is restartTimeout armed?
    inflight,   \* signals raised and not yet put on sigs
    sigs,       \* the channel main reads, with a buffer of 1
    created,    \* inotify events for kubelet.sock
    kubelet,    \* "up", "down", or starting with the directory "wiped"
    term,       \* has main read a SIGTERM?
    faults      \* disturbances so far

main   == <<pc, why, todo, cur, plugins>>
served == <<server, leaked, sock, stream, late>>
inputs == <<timer, inflight, sigs, created>>
vars   == <<pc, why, todo, cur, plugins, server, leaked, sock, stream, late,
            timer, inflight, sigs, created, kubelet, term, faults>>

Signal == {"HUP", "TERM"}

TypeOK ==
    /\ pc \in {"serve", "dial", "register", "select", "stop", "down"}
    /\ why \in {"restart", "term", None}
    /\ pc = "stop" <=> why # None
    /\ todo \subseteq Plugin
    /\ cur \in Plugin \cup {None}
    /\ pc \in {"dial", "register"} <=> cur # None
    /\ plugins \subseteq Plugin
    /\ server \subseteq Plugin
    /\ leaked \subseteq Plugin
    /\ sock \in [Plugin -> {"none", "current", "leaked", "stale"}]
    /\ stream \in [Plugin -> {"none", "open", "broken"}]
    /\ late \in 0..MaxFaults
    /\ timer \in BOOLEAN
    /\ inflight \subseteq Signal
    /\ sigs \in Signal \cup {None}
    /\ created \in 0..MaxFaults
    /\ kubelet \in {"up", "down", "wiped"}
    /\ term \in BOOLEAN
    /\ faults \in 0..MaxFaults

Init ==
    /\ pc = "serve"
    /\ why = None
    /\ todo = Plugin
    /\ cur = None
    /\ plugins = {}
    /\ server = {}
    /\ leaked = {}
    /\ sock = [p \in Plugin |-> "none"]
    /\ stream = [p \in Plugin |-> "none"]
    /\ late = 0
    /\ timer = FALSE
    /\ inflight = {}
    /\ sigs = None
    /\ created = 0
    /\ kubelet = "up"
    /\ term = FALSE
    /\ faults = 0

-----------------------------------------------------------------------------
Fault(kind) ==
    /\ kind \in Faults
    /\ faults < MaxFaults
    /\ faults' = faults + 1

Raise(s) == inflight' = inflight \cup {s}

(* Mutant: the socket is removed, the server goes on.                       *)
StopServerKeepsRunning(p) ==
    /\ sock' = [sock EXCEPT ![p] = "none"]
    /\ UNCHANGED <<server, stream, late, faults>>

(* The server and the stream of p end and its socket is removed.  The       *)
(* handler returns, or was about to send and finds out later.               *)
StopServer(p) ==
    /\ server' = server \ {p}
    /\ IF p \in server
         THEN /\ sock' = [sock EXCEPT ![p] = "none"]
              /\ stream' = [stream EXCEPT ![p] = "none"]
              /\ \/ UNCHANGED <<late, faults>>
                 \/ stream[p] # "none" /\ late' = late + 1 /\ Fault("late")
         ELSE UNCHANGED <<sock, stream, late, faults>>

(* The process ends.  Its sockets stay, with nobody behind them.            *)
Exit ==
    /\ pc' = "down"
    /\ why' = None
    /\ todo' = {}
    /\ cur' = None
    /\ plugins' = {}
    /\ server' = {}
    /\ leaked' = {}
    /\ sock' = [p \in Plugin |-> IF sock[p] = "none" THEN "none" ELSE "stale"]
    /\ stream' = [p \in Plugin |-> "none"]
    /\ late' = 0
    /\ timer' = FALSE
    /\ inflight' = {}
    /\ sigs' = None
    /\ created' = 0

-----------------------------------------------------------------------------
(* Mutant: a run that failed is not repeated.                               *)
GiveUpForGood ==
    /\ pc' = "select"
    /\ cur' = None
    /\ todo' = {}
    /\ UNCHANGED timer

(* Mutant: the plugin that failed stays the current one.                    *)
GiveUpKeepsCurrent ==
    /\ pc' = "select"
    /\ todo' = {}
    /\ timer' = TRUE
    /\ UNCHANGED cur

(* Serve failed: startPlugins returns the plugins served so far, and main   *)
(* arms the timer.                                                          *)
GiveUp ==
    /\ pc' = "select"
    /\ cur' = None
    /\ todo' = {}
    /\ timer' = TRUE

(* Mutant: Start does not remove the old socket.                            *)
ListenWithoutCleanup(p) ==
    /\ pc = "serve"
    /\ p \in todo
    /\ \/ /\ sock[p] = "none"
          /\ sock' = [sock EXCEPT ![p] = "current"]
          /\ server' = server \cup {p}
          /\ pc' = "dial"
          /\ cur' = p
          /\ todo' = todo \ {p}
          /\ UNCHANGED <<timer, faults>>
       \/ /\ Fault("serve") \/ (sock[p] # "none" /\ UNCHANGED faults)
          /\ GiveUp
          /\ UNCHANGED <<sock, server>>
    /\ UNCHANGED <<why, plugins, leaked, stream, late, inflight, sigs, created,
                   kubelet, term>>

(* Serve and Start, up to a listening server: release the node lock,        *)
(* remove the socket, listen.  Each can fail, with the socket still there   *)
(* or removed.                                                              *)
Listen(p) ==
    /\ pc = "serve"
    /\ p \in todo
    /\ \/ /\ sock' = [sock EXCEPT ![p] = "current"]
          /\ server' = server \cup {p}
          /\ pc' = "dial"
          /\ cur' = p
          /\ todo' = todo \ {p}
          /\ UNCHANGED <<timer, faults>>
       \/ /\ Fault("serve")
          /\ sock' \in {sock, [sock EXCEPT ![p] = "none"]}
          /\ GiveUp
          /\ UNCHANGED server
    /\ UNCHANGED <<why, plugins, leaked, stream, late, inflight, sigs, created,
                   kubelet, term>>

(* Start dials its own socket.  If that fails nobody stops the server: the  *)
(* plugin is not in the list main keeps.                                    *)
Dial ==
    /\ pc = "dial"
    /\ \/ /\ sock[cur] = "current"
          /\ pc' = "register"
          /\ UNCHANGED <<cur, todo, timer, server, leaked, sock, faults>>
       \/ /\ \/ Fault("dial")
             \/ sock[cur] # "current" /\ UNCHANGED faults
          /\ GiveUp
          /\ server' = server \ {cur}
          /\ leaked' = leaked \cup {cur}
          /\ sock' = [sock EXCEPT ![cur] = IF @ = "current" THEN "leaked"
                                                            ELSE @]
    /\ UNCHANGED <<why, plugins, stream, late, inflight, sigs, created, kubelet,
                   term>>

(* Register with the kubelet, which then calls ListAndWatch at the socket.  *)
(* If it fails, Serve stops the server.                                     *)
Register ==
    /\ pc = "register"
    /\ \/ /\ kubelet = "up"
          /\ stream' = [stream EXCEPT ![cur] = IF sock[cur] = "current"
                                                 THEN "open" ELSE "none"]
          /\ plugins' = plugins \cup {cur}
          /\ pc' = "serve"
          /\ cur' = None
          /\ UNCHANGED <<todo, timer, server, sock, late, faults>>
       \/ /\ Fault("register") \/ (kubelet # "up" /\ UNCHANGED faults)
          /\ GiveUp
          /\ server' = server \ {cur}
          /\ sock' = [sock EXCEPT ![cur] = "none"]
          /\ UNCHANGED <<plugins, stream, late>>
    /\ UNCHANGED <<why, leaked, inflight, sigs, created, kubelet, term>>

(* Every plugin is registered.  A timer armed by an earlier run stays so.   *)
AllServed ==
    /\ pc = "serve"
    /\ todo = {}
    /\ pc' = "select"
    /\ UNCHANGED <<why, todo, cur, plugins, served, inputs, kubelet, term,
                   faults>>

-----------------------------------------------------------------------------
(* stopPlugins is called; restart: when the run is to be repeated.          *)
StopPlugins(reason) ==
    /\ pc' = "stop"
    /\ why' = reason
    /\ todo' = plugins
    /\ UNCHANGED <<cur, plugins>>

TimerFires ==
    /\ pc = "select"
    /\ timer
    /\ timer' = FALSE
    /\ StopPlugins("restart")
    /\ UNCHANGED <<served, inflight, sigs, created, kubelet, term, faults>>

SocketCreated ==
    /\ pc = "select"
    /\ created > 0
    /\ created' = created - 1
    /\ StopPlugins("restart")
    /\ UNCHANGED <<served, timer, inflight, sigs, kubelet, term, faults>>

ReceiveSignal ==
    /\ pc = "select"
    /\ sigs # None
    /\ sigs' = None
    /\ IF sigs = "HUP"
         THEN StopPlugins("restart") /\ UNCHANGED term
         ELSE StopPlugins("term") /\ term' = TRUE
    /\ UNCHANGED <<served, timer, inflight, created, kubelet, faults>>

(* The next plugin.  When its socket cannot be removed main returns.        *)
Stop(p) ==
    /\ pc = "stop"
    /\ p \in todo
    /\ \/ /\ StopServer(p)
          /\ todo' = todo \ {p}
          /\ UNCHANGED <<pc, why, cur, plugins, leaked, inputs>>
       \/ /\ p \in server
          /\ Fault("remove")
          /\ Exit
    /\ UNCHANGED <<kubelet, term>>

(* All stopped: the next run, or - after a SIGTERM as well - wait on.       *)
Stopped ==
    /\ pc = "stop"
    /\ todo = {}
    /\ why' = None
    /\ IF why = "restart"
         THEN pc' = "serve" /\ todo' = Plugin /\ plugins' = {}
         ELSE pc' = "select" /\ UNCHANGED <<todo, plugins>>
    /\ UNCHANGED <<cur, served, inputs, kubelet, term, faults>>

-----------------------------------------------------------------------------
(* A Send of ListAndWatch fails, on the first list or on a health report:   *)
(* the handler returns after a SIGHUP to its own process.                   *)
SendFails(p) ==
    /\ stream[p] # "none"
    /\ Fault("send")
    /\ stream' = [stream EXCEPT ![p] = "none"]
    /\ Raise("HUP")
    /\ UNCHANGED <<main, server, leaked, sock, late, timer, sigs, created,
                   kubelet, term>>

(* So does the Send of a handler whose server was stopped meanwhile.        *)
LateSendFails ==
    /\ late > 0
    /\ late' = late - 1
    /\ Raise("HUP")
    /\ UNCHANGED <<main, server, leaked, sock, stream, timer, sigs, created,
                   kubelet, term, faults>>

(* A signal from outside.                                                   *)
ExternalSignal ==
    /\ pc # "down"
    /\ \/ Fault("hup") /\ Raise("HUP")
       \/ Fault("term") /\ Raise("TERM")
    /\ UNCHANGED <<main, served, timer, sigs, created, kubelet, term>>

(* os/signal never blocks: a signal that finds the buffer full is dropped.  *)
Deliver(s) ==
    /\ s \in inflight
    /\ inflight' = inflight \ {s}
    /\ sigs' = IF sigs = None THEN s ELSE sigs
    /\ UNCHANGED <<main, served, timer, created, kubelet, term, faults>>

(* The kubelet goes down, and all streams with it.                          *)
KubeletDies ==
    /\ kubelet = "up"
    /\ Fault("kubelet")
    /\ kubelet' = "down"
    /\ stream' = [p \in Plugin |-> IF stream[p] = "open" THEN "broken"
                                                         ELSE stream[p]]
    /\ UNCHANGED <<main, server, leaked, sock, late, inputs, term>>

(* It comes back: it removes the sockets it finds ...                       *)
KubeletWipes ==
    /\ kubelet = "down"
    /\ kubelet' = "wiped"
    /\ sock' = [p \in Plugin |-> "none"]
    /\ UNCHANGED <<main, server, leaked, stream, late, inputs, term, faults>>

(* ... and creates its own, which a running process sees.                   *)
KubeletListens ==
    /\ kubelet = "wiped"
    /\ kubelet' = "up"
    /\ created' = IF pc = "down" THEN created ELSE created + 1
    /\ UNCHANGED <<main, served, timer, inflight, sigs, term, faults>>

(* The process dies (a panic, the OOM killer) and is started again.         *)
Crash ==
    /\ pc # "down"
    /\ Fault("crash")
    /\ Exit
    /\ UNCHANGED <<kubelet, term>>

StartProcess ==
    /\ pc = "down"
    /\ pc' = "serve"
    /\ todo' = Plugin
    /\ term' = FALSE
    /\ UNCHANGED <<why, cur, plugins, served, inputs, kubelet, faults>>

-----------------------------------------------------------------------------
Start == (\E p \in Plugin : Listen(p)) \/ Dial \/ Register \/ AllServed

Select == TimerFires \/ SocketCreated \/ ReceiveSignal

MainStep == Start \/ Select \/ (\E p \in Plugin : Stop(p)) \/ Stopped

KubeletStarts == KubeletWipes \/ KubeletListens

Next ==
    \/ MainStep
    \/ \E p \in Plugin : SendFails(p)
    \/ LateSendFails
    \/ ExternalSignal
    \/ \E s \in Signal : Deliver(s)
    \/ KubeletDies
    \/ KubeletStarts
    \/ Crash
    \/ StartProcess

(***************************************************************************)
(* Main runs, the timer fires, the runtime delivers signals, the kubelet   *)
(* and the process are started again.  No disturbance has to happen.       *)
(***************************************************************************)
Fairness ==
    /\ WF_vars(MainStep)
    /\ \A s \in Signal : WF_vars(Deliver(s))
    /\ WF_vars(KubeletStarts)
    /\ WF_vars(StartProcess)

Spec     == Init /\ [][Next]_vars
FairSpec == Spec /\ Fairness

-----------------------------------------------------------------------------
(* Properties *)

(* The kubelet is connected to the running server of p, at its socket.      *)
Served(p) ==
    /\ p \in plugins
    /\ p \in server
    /\ sock[p] = "current"
    /\ stream[p] = "open"

(* Something will make main start over, or stop for good.                   *)
Pending == timer \/ created > 0 \/ sigs # None \/ inflight # {}

(* Main never waits for nothing: with the kubelet up, every resource is     *)
(* served, or an event is on its way - after failed runs, broken streams,   *)
(* dropped signals and kubelet restarts in the middle of a run.             *)
NeverWaitsInVain ==
    pc = "select" /\ kubelet = "up" /\ ~term =>
        (\A p \in Plugin : Served(p)) \/ Pending

(* Once disturbances end every resource is served for good, whatever they   *)
(* left behind: stale sockets, leaked servers, an armed timer.              *)
EventuallyServed == <>[](term \/ \A p \in Plugin : Served(p))

(* A server main knows of is never shadowed by one that leaked: its socket  *)
(* leads to it, unless a kubelet that is starting has removed it, and then  *)
(* main will hear of that or is stopping the server already.                *)
SocketLeadsToServer ==
    \A p \in server :
        \/ sock[p] = "current"
        \/ sock[p] = "none" /\ (kubelet = "wiped" \/ created > 0
                                \/ why = "restart")

(* The inductive invariant behind the two.                                  *)

(* Where the plugins of the node are while main is in its phases.           *)
Phases ==
    /\ pc \in {"serve", "dial", "register"} =>
          /\ plugins \cup todo \cup (IF cur = None THEN {} ELSE {cur}) = Plugin
          /\ plugins \cap todo = {}
          /\ cur \notin plugins \cup todo
          /\ server = plugins \cup (IF cur = None THEN {} ELSE {cur})
    /\ pc = "select" => server \subseteq plugins
    /\ pc = "stop" => server \subseteq todo
    /\ pc = "down" => server = {} /\ plugins = {} /\ created = 0
    /\ why = "term" => term

(* A plugin that was registered is served, or main will hear why not.       *)
ServedOrNoted ==
    pc \in {"serve", "dial", "register", "select"} /\ ~term =>
        \A p \in plugins :
            \/ Served(p)
            \/ created > 0 \/ sigs # None \/ inflight # {} \/ kubelet # "up"

(* A run that was given up left the timer armed.                            *)
IncompleteRunRetried ==
    pc = "select" /\ ~term => plugins = Plugin \/ Pending

(* Each new socket and each late handler is the work of a disturbance.      *)
Accounted == created + late + (IF kubelet = "up" THEN 0 ELSE 1) <= faults

IInv ==
    /\ TypeOK
    /\ Accounted
    /\ Phases
    /\ SocketLeadsToServer
    /\ ServedOrNoted
    /\ IncompleteRunRetried
=============================================================================

----------------------------- MODULE DynamicSmlu -----------------------------
(***************************************************************************)
(* Dynamic sMLU allocation on one node (mode dynamic-smlu).                *)
(*                                                                         *)
(*   scheduler --bind, node lock--> API server <--patch, unlock-- Allocate *)
(*   kubelet   --Allocate twice (vcore, vmemory)--> allocateDynamicSmlu    *)
(*   exec      every 60 s: destroy the instances and profiles no pod needs *)
(*   recycler  on each pod deletion: destroy the pod's instance, fix lock  *)
(*                                                                         *)
(* The first Allocate of a pod creates an instance and leaves a record of  *)
(* it in the globals dynamicSmlu and profileAndInstance; the second finds  *)
(* the record, annotates the pod with the instance and releases the node   *)
(* lock.  The two calls go to two plugin objects, each with a mutex of its *)
(* own; after a restart in the process the old objects' handlers may still *)
(* run, so there can be more than one call under way.                      *)
(*                                                                         *)
(* External, modelled from how the code uses them: the scheduler, the      *)
(* kubelet, the API server and the cndev driver.                           *)
(***************************************************************************)
EXTENDS Integers, FiniteSets

CONSTANTS
    Pod,            \* pods that ask for a dynamic sMLU
    NameOf,         \* pod -> name; the record is kept under the name
    ProfileOf,      \* pod -> <<slot, shape>>, the annotation DsmluProfile
    MultiContainer, \* pods with more than one container that asks for sMLU
    Malformed,      \* pods whose DsmluProfile annotation does not parse
    Slot, Shape,    \* cards, and (vcore, vmemory) pairs
    InstanceId,     \* ids the driver hands out on a card; it reuses them
    Capacity,       \* instances of one profile on a card (Total)
    MinDsmluUnit,   \* option: memory unit; if <= 0, a card's memory is read
    Call,           \* bound: Allocate handlers running at the same time
    Faults,         \* kinds of faults that may happen
    MaxFaults,      \* bound: faults in a behaviour
    None

FaultKind == {"api", "conflict", "driver", "restart", "tombstone", "reject"}
Profile   == Slot \X Shape
Handle    == Slot \X InstanceId     \* InstanceID<<8 | slot

VARIABLES
    pods,       \* API server: the pods, as last written
    lock,       \* API server: the node lock annotation; the pod it was taken for
    nodeDirty,  \* has the node been written since the recycler read it?
    unfixed,    \* history: pods whose lock the recycler failed to release
    insts,      \* driver: the pod each live instance was created for, or None
    profiles,   \* driver: profiles created
    record,     \* dynamicSmlu and profileAndInstance: one entry or None
    calls,      \* the Allocate handlers
    kubelet,    \* pod being admitted, calls granted, call waited for
    exec,       \* the periodic resync
    rec,        \* the recycler (the informer's DeleteFunc)
    events,     \* pods whose deletion the informer has still to deliver
    proc,       \* the plugin process: "up" or "down"
    faults,     \* faults so far
    disturbed   \* has the plugin been restarted or crashed?

apiVars    == <<pods, lock, nodeDirty, unfixed>>
driverVars == <<insts, profiles>>
syncVars   == <<exec, rec, events>>
vars == <<pods, lock, nodeDirty, unfixed, insts, profiles, record, calls,
          kubelet, exec, rec, events, proc, faults, disturbed>>

(* An annotation DsmluProfileAndInstance: the handle, and the pod the       *)
(* instance was created for, which tells the profile.                       *)
Grant    == [inst : Handle, owner : Pod]
IdleCall == [pc |-> "idle", pod |-> None, grant |-> None, cancelled |-> FALSE]
IdleExec == [pc |-> "idle", slots |-> {}, slot |-> None, keep |-> {},
             keepProfiles |-> {}, todo |-> {}, fresh |-> {}]
IdleRec  == [pc |-> "idle", pod |-> None]
NoPod    == [pod |-> None, granted |-> 0, call |-> None]

PodState  == [phase : {"New", "Pending", "Running", "Succeeded", "Failed"},
              assigned : {"none", "false", "true"},
              anno : Grant \cup {None}, exists : BOOLEAN, stamped : BOOLEAN]
Record    == [name : {NameOf[p] : p \in Pod}, grant : Grant]
CallState == [pc : {"idle", "list", "profile", "create", "info", "patch",
                    "lockGet", "lockPatch"},
              pod : Pod \cup {None}, grant : Grant \cup {None},
              cancelled : BOOLEAN]
Admission == [pod : Pod \cup {None}, granted : 0..2, call : Call \cup {None}]
ExecState == [pc : {"idle", "slot", "instances", "profiles"},
              slots : SUBSET Slot, slot : Slot \cup {None},
              keep : SUBSET Handle, keepProfiles : SUBSET Profile,
              todo : SUBSET (Handle \cup Profile), fresh : SUBSET Handle]
RecState  == [pc : {"idle", "profile", "lockGet", "lockUpdate"},
              pod : Pod \cup {None}]

ASSUME ConstantsAssumption ==
    /\ ProfileOf \in [Pod -> Profile]
    /\ MultiContainer \subseteq Pod
    /\ Malformed \subseteq Pod
    /\ Capacity \in Nat \ {0}
    /\ Faults \subseteq FaultKind
    /\ MaxFaults \in Nat
    /\ MinDsmluUnit \in Int
    /\ None \notin Pod \cup Slot \cup Call \cup Grant \cup Record

TypeOK ==
    /\ pods \in [Pod -> PodState]
    /\ lock \in Pod \cup {None}
    /\ nodeDirty \in BOOLEAN
    /\ unfixed \subseteq Pod
    /\ insts \in [Handle -> Pod \cup {None}]
    /\ profiles \subseteq Profile
    /\ record \in Record \cup {None}
    /\ calls \in [Call -> CallState]
    /\ kubelet \in Admission
    /\ exec \in ExecState
    /\ rec \in RecState
    /\ events \subseteq Pod
    /\ proc \in {"up", "down"}
    /\ faults \in 0..MaxFaults
    /\ disturbed \in BOOLEAN

Init ==
    /\ pods = [p \in Pod |-> [phase |-> "New", assigned |-> "none",
                              anno |-> None, exists |-> TRUE,
                              stamped |-> FALSE]]
    /\ lock = None
    /\ nodeDirty = FALSE
    /\ unfixed = {}
    /\ insts = [h \in Handle |-> None]
    /\ profiles = {}
    /\ record = None
    /\ calls = [c \in Call |-> IdleCall]
    /\ kubelet = NoPod
    /\ exec = IdleExec
    /\ rec = IdleRec
    /\ events = {}
    /\ proc = "up"
    /\ faults = 0
    /\ disturbed = FALSE

-----------------------------------------------------------------------------
(* A fault of this kind happens.                                            *)
Fault(kind) ==
    /\ kind \in Faults
    /\ faults < MaxFaults
    /\ faults' = faults + 1

OnNode(p)    == pods[p].exists /\ pods[p].phase # "New"
Pending(p)   == OnNode(p) /\ pods[p].phase = "Pending"
Live(p)      == OnNode(p) /\ pods[p].phase \in {"Pending", "Running"}

Candidate(p) == Pending(p) /\ pods[p].assigned = "false"

(* The instances of a profile; the driver refuses to create more than       *)
(* Capacity and to destroy a profile that has some.                         *)
InstancesOf(prof) ==
    {h \in Handle : insts[h] # None /\ ProfileOf[insts[h]] = prof}
Remain(prof) == Capacity - Cardinality(InstancesOf(prof))

-----------------------------------------------------------------------------
(* The scheduler binds a pod when the node is not locked, and locks it.     *)
Bind(p) ==
    /\ pods[p].phase = "New"
    /\ pods[p].exists
    /\ lock = None
    /\ pods' = [pods EXCEPT ![p].phase = "Pending", ![p].assigned = "false"]
    /\ lock' = p
    /\ nodeDirty' = TRUE
    /\ UNCHANGED <<unfixed, driverVars, record, calls, kubelet, syncVars, proc,
                   faults, disturbed>>

(* A pod ends by itself.                                                    *)
Finish(p) ==
    /\ OnNode(p)
    /\ pods[p].phase = "Running"
    /\ pods' = [pods EXCEPT ![p].phase = "Succeeded"]
    /\ UNCHANGED <<lock, nodeDirty, unfixed, driverVars, record, calls,
                   kubelet, syncVars, proc, faults, disturbed>>

(* A pod is deleted; a forced deletion leaves no deletion timestamp (which  *)
(* is looked at in annotated pods only).  Only a running informer sees it.  *)
Delete(p) ==
    /\ OnNode(p)
    /\ \E stamped \in BOOLEAN :
          /\ stamped => pods[p].anno # None
          /\ pods' = [pods EXCEPT ![p].exists = FALSE, ![p].stamped = stamped]
    /\ events' = IF proc = "up" THEN events \cup {p} ELSE events
    /\ UNCHANGED <<lock, nodeDirty, unfixed, driverVars, record, calls,
                   kubelet, exec, rec, proc, faults, disturbed>>

-----------------------------------------------------------------------------
(* The kubelet admits pods one after the other, with one call per resource. *)
Allocate(p) ==
    /\ proc = "up"
    /\ kubelet.call = None
    /\ \/ kubelet.pod = None /\ Pending(p)
       \/ kubelet.pod = p /\ kubelet.granted = 1
    /\ \E c \in Call :
          /\ calls[c].pc = "idle"
          /\ calls' = [calls EXCEPT ![c].pc = "list"]
          /\ kubelet' = [kubelet EXCEPT !.pod = p, !.call = c]
    /\ UNCHANGED <<apiVars, driverVars, record, syncVars, proc, faults,
                   disturbed>>

(* The kubelet reports a phase of the pod it is admitting; a deleted pod    *)
(* keeps the phase it was deleted in.                                       *)
Report(phase) ==
    pods' = [pods EXCEPT ![kubelet.pod].phase = IF pods[kubelet.pod].exists
                                                  THEN phase ELSE @]

(* The kubelet gives a pod up: its call was answered by an error, the       *)
(* plugin is not there, or something else is wrong with the pod.            *)
Reject ==
    /\ kubelet.pod # None
    /\ kubelet.call = None
    /\ \/ proc = "down" /\ UNCHANGED faults
       \/ Fault("reject")
    /\ Report("Failed")
    /\ kubelet' = NoPod
    /\ UNCHANGED <<lock, nodeDirty, unfixed, driverVars, record, calls,
                   syncVars, proc, disturbed>>

(* Both resources granted: the containers start.                            *)
StartContainers ==
    /\ kubelet.granted = 2
    /\ Report("Running")
    /\ kubelet' = NoPod
    /\ UNCHANGED <<lock, nodeDirty, unfixed, driverVars, record, calls,
                   syncVars, proc, faults, disturbed>>

(* A handler returns an error, or a response.  Nobody reads the answer of   *)
(* a call whose connection a restart has closed.                            *)
ReturnError(c) ==
    /\ calls' = [calls EXCEPT ![c] = IdleCall]
    /\ IF kubelet.call = c
         THEN Report("Failed") /\ kubelet' = NoPod
         ELSE UNCHANGED <<pods, kubelet>>

ReturnResponse(c) ==
    /\ calls' = [calls EXCEPT ![c] = IdleCall]
    /\ kubelet' = IF kubelet.call = c
                    THEN [kubelet EXCEPT !.granted = @ + 1, !.call = None]
                    ELSE kubelet

-----------------------------------------------------------------------------
(* The process dies: the globals, the handlers, the resync and the          *)
(* undelivered deletions are lost, and a kubelet that waits for an answer   *)
(* gets an error.                                                           *)
Crash ==
    /\ proc' = "down"
    /\ disturbed' = TRUE
    /\ record' = None
    /\ calls' = [c \in Call |-> IdleCall]
    /\ exec' = IdleExec
    /\ rec' = IdleRec
    /\ events' = {}
    /\ IF kubelet.call # None
         THEN Report("Failed") /\ kubelet' = NoPod
         ELSE UNCHANGED <<pods, kubelet>>

(* A new process: Serve releases the node lock, whoever holds it.           *)
StartProcess ==
    /\ proc = "down"
    /\ proc' = "up"
    /\ lock' = None
    /\ nodeDirty' = TRUE
    /\ UNCHANGED <<pods, unfixed, driverVars, record, calls, kubelet, syncVars,
                   faults, disturbed>>

(* A restart in the process (SIGHUP, a new kubelet socket): the old calls   *)
(* go on with a cancelled context, the globals stay, Serve releases the     *)
(* node lock.                                                               *)
RestartPlugins ==
    /\ proc = "up"
    /\ Fault("restart")
    /\ disturbed' = TRUE
    /\ calls' = [c \in Call |-> IF calls[c].pc = "idle" THEN calls[c]
                                ELSE [calls[c] EXCEPT !.cancelled = TRUE]]
    /\ IF kubelet.call # None
         THEN Report("Failed") /\ kubelet' = NoPod
         ELSE UNCHANGED <<pods, kubelet>>
    /\ lock' = None
    /\ nodeDirty' = TRUE
    /\ UNCHANGED <<unfixed, driverVars, record, syncVars, proc>>

-----------------------------------------------------------------------------
(* allocateDynamicSmlu *)

(* getDynamicSmluCandidatePod failed: forget the record.                    *)
NoCandidate(c) ==
    /\ record' = None
    /\ ReturnError(c)

(* List the pending pods; there must be one candidate, with one container.  *)
(* A record under its name sends the call to the annotation.                *)
List(c) ==
    /\ calls[c].pc = "list"
    /\ \/ /\ \/ Fault("api")
             \/ calls[c].cancelled /\ UNCHANGED faults
          /\ NoCandidate(c)
       \/ /\ ~calls[c].cancelled
          /\ UNCHANGED faults
          /\ LET cands == {p \in Pod : Candidate(p)} IN
             IF Cardinality(cands) # 1 \/ cands \cap MultiContainer # {}
               THEN NoCandidate(c)
               ELSE \E p \in cands :
                      IF record # None /\ record.name = NameOf[p]
                        THEN /\ calls' = [calls EXCEPT ![c].pc = "patch",
                                              ![c].pod = p,
                                              ![c].grant = record.grant]
                             /\ UNCHANGED <<record, pods, kubelet>>
                      ELSE IF p \in Malformed
                        THEN ReturnError(c) /\ UNCHANGED record
                        ELSE /\ calls' = [calls EXCEPT ![c].pc = "profile",
                                                       ![c].pod = p]
                             /\ UNCHANGED <<record, pods, kubelet>>
    /\ UNCHANGED <<lock, nodeDirty, unfixed, driverVars, syncVars, proc,
                   disturbed>>

(* Without a configured unit the card's memory is read first: a failing     *)
(* read panics, which ends the process.  GetExistProfile and, if there is   *)
(* none, CreateSmluProfile: a failing lookup counts as "none"; the driver   *)
(* then refuses a second profile of the same shape.                         *)
FindProfile(c) ==
    LET prof == ProfileOf[calls[c].pod] IN
    /\ calls[c].pc = "profile"
    /\ \/ /\ MinDsmluUnit <= 0
          /\ Fault("driver")
          /\ Crash
          /\ UNCHANGED profiles
       \/ /\ \/ Fault("driver")
             \/ prof \in profiles /\ Remain(prof) < 1 /\ UNCHANGED faults
          /\ ReturnError(c)
          /\ UNCHANGED <<profiles, record, syncVars, proc, disturbed>>
       \/ /\ prof \in profiles => Remain(prof) >= 1
          /\ profiles' = profiles \cup {prof}
          /\ calls' = [calls EXCEPT ![c].pc = "create"]
          /\ UNCHANGED <<pods, kubelet, record, syncVars, proc, faults,
                         disturbed>>
    /\ UNCHANGED <<lock, nodeDirty, unfixed, insts>>

(* CreateSmluProfileInstance on the profile found a step ago.               *)
CreateInstance(c) ==
    LET p    == calls[c].pod
        prof == ProfileOf[p]
        free == {h \in Handle : h[1] = prof[1] /\ insts[h] = None}
        full == prof \notin profiles \/ Remain(prof) < 1 \/ free = {}
    IN
    /\ calls[c].pc = "create"
    /\ \/ /\ Fault("driver") \/ (full /\ UNCHANGED faults)
          /\ ReturnError(c)
          /\ UNCHANGED <<insts, exec>>
       \/ /\ ~full
          /\ \E h \in free :
               /\ insts' = [insts EXCEPT ![h] = p]
               /\ calls' = [calls EXCEPT ![c].pc = "info",
                                         ![c].grant = [inst |-> h, owner |-> p]]
               /\ exec' = [exec EXCEPT !.fresh =
                             IF exec.pc = "idle" THEN {} ELSE @ \cup {h}]
          /\ UNCHANGED <<pods, kubelet, faults>>
    /\ UNCHANGED <<lock, nodeDirty, unfixed, profiles, record, rec, events,
                   proc, disturbed>>

(* GetAllSmluInfo must list the new handle: store the record.  Otherwise    *)
(* DestroySmlu, which may fail as well, and an error.                       *)
MatchInfo(c) ==
    LET g == calls[c].grant IN
    /\ calls[c].pc = "info"
    /\ \/ /\ insts[g.inst] # None
          /\ record' = [name |-> NameOf[calls[c].pod], grant |-> g]
          /\ ReturnResponse(c)
          /\ UNCHANGED <<insts, pods, faults>>
       \/ /\ Fault("driver") \/ (insts[g.inst] = None /\ UNCHANGED faults)
          /\ insts' \in {insts, [insts EXCEPT ![g.inst] = None]}
          /\ ReturnError(c)
          /\ UNCHANGED record
    /\ UNCHANGED <<lock, nodeDirty, unfixed, profiles, syncVars, proc,
                   disturbed>>

(* Patch the pod.  The retry of a failed patch sleeps rand.Intn(0), which   *)
(* panics; a handler's panic ends the process.                              *)
PatchPod(c) ==
    LET p == calls[c].pod IN
    /\ calls[c].pc = "patch"
    /\ \/ /\ pods[p].exists
          /\ ~calls[c].cancelled
          /\ pods' = [pods EXCEPT ![p].assigned = "true",
                                  ![p].anno = calls[c].grant]
          /\ calls' = [calls EXCEPT ![c].pc = "lockGet"]
          /\ UNCHANGED <<record, kubelet, syncVars, proc, faults, disturbed>>
       \/ /\ \/ Fault("api")
             \/ (~pods[p].exists \/ calls[c].cancelled) /\ UNCHANGED faults
          /\ Crash
    /\ UNCHANGED <<lock, nodeDirty, unfixed, driverVars>>

(* Mutant: only one of the two globals is cleaned.                          *)
AssignedHalfCleaned(c) ==
    /\ record' = [name |-> NameOf[calls[c].pod], grant |-> None]
    /\ ReturnResponse(c)

(* Mutant: the record is not cleaned.                                       *)
AssignedKeepsRecord(c) == ReturnResponse(c) /\ UNCHANGED record

(* The deferred cleanDsmluRecord and the response.                          *)
Assigned(c) ==
    /\ record' = None
    /\ ReturnResponse(c)

(* releaseNodeLock, first half: read the node.                              *)
GetNode(c) ==
    /\ calls[c].pc = "lockGet"
    /\ \/ /\ lock = None
          /\ Assigned(c)
          /\ UNCHANGED <<pods, syncVars, proc, faults, disturbed>>
       \/ /\ lock # None
          /\ calls' = [calls EXCEPT ![c].pc = "lockPatch"]
          /\ UNCHANGED <<pods, record, kubelet, syncVars, proc, faults,
                         disturbed>>
       \/ /\ Fault("api")
          /\ Crash
    /\ UNCHANGED <<lock, nodeDirty, unfixed, driverVars>>

(* releaseNodeLock, second half: remove the annotation; removing what is    *)
(* not there is an error.                                                   *)
PatchNode(c) ==
    /\ calls[c].pc = "lockPatch"
    /\ \/ /\ lock # None
          /\ lock' = None
          /\ nodeDirty' = TRUE
          /\ Assigned(c)
          /\ UNCHANGED <<pods, syncVars, proc, faults, disturbed>>
       \/ /\ Fault("api") \/ (lock = None /\ UNCHANGED faults)
          /\ Crash
          /\ UNCHANGED <<lock, nodeDirty>>
    /\ UNCHANGED <<unfixed, driverVars>>

-----------------------------------------------------------------------------
(* exec and recycleProfileAndInstance exclude each other.                   *)
ExecuteLockFree == exec.pc = "idle" /\ rec.pc # "profile"

(* The pass ends, with the lock released.                                   *)
EndExec == exec' = IdleExec

(* Mutant: pending pods in handling do not stop the pass.                   *)
NoneInHandlingIgnored == TRUE

(* No pending pod is still without an instance; otherwise retry later.      *)
NoneInHandling == \A p \in Pod : Pending(p) => pods[p].anno # None

(* Mutant: a completed pod's instance is kept as well.                      *)
KeptInAnyPhase(p) == OnNode(p) /\ pods[p].anno # None

(* What a pending or running pod is annotated with is kept.                 *)
Kept(p) == Live(p) /\ pods[p].anno # None

(* exec, the listing.                                                       *)
ExecList ==
    LET grants == {pods[p].anno : p \in {q \in Pod : Kept(q)}} IN
    /\ proc = "up"
    /\ ExecuteLockFree
    /\ NoneInHandling
    /\ exec' = [IdleExec EXCEPT
                  !.pc = "slot", !.slots = Slot,
                  !.keep = {g.inst : g \in grants},
                  !.keepProfiles = {ProfileOf[g.owner] : g \in grants}]
    /\ UNCHANGED <<apiVars, driverVars, record, calls, kubelet, rec, events,
                   proc, faults, disturbed>>

(* The next card: a card whose mode cannot be read is skipped; a failing    *)
(* GetAllSmluInfo ends the pass.                                            *)
ExecSlot ==
    /\ exec.pc = "slot"
    /\ IF exec.slots = {}
         THEN EndExec /\ UNCHANGED faults
         ELSE \E s \in exec.slots :
                \/ /\ exec' = [exec EXCEPT !.pc = "instances", !.slot = s,
                                 !.slots = @ \ {s},
                                 !.todo = {h \in Handle : h[1] = s
                                              /\ insts[h] # None} \ exec.keep]
                   /\ UNCHANGED faults
                \/ /\ Fault("driver")
                   /\ \/ exec' = [exec EXCEPT !.slots = @ \ {s}]
                      \/ EndExec
    /\ UNCHANGED <<apiVars, driverVars, record, calls, kubelet, rec, events,
                   proc, disturbed>>

(* Destroy the instances that were there and need not be kept, one by one,  *)
(* then read the profiles of the card (a failing read ends the pass).       *)
ExecInstances ==
    /\ exec.pc = "instances"
    /\ \/ \E h \in exec.todo :
            /\ exec' = [exec EXCEPT !.todo = @ \ {h}]
            /\ \/ insts' = [insts EXCEPT ![h] = None] /\ UNCHANGED faults
               \/ Fault("driver") /\ UNCHANGED insts
       \/ /\ exec.todo = {}
          /\ \/ /\ exec' = [exec EXCEPT !.pc = "profiles",
                              !.todo = {prof \in profiles : prof[1] = exec.slot}
                                           \ exec.keepProfiles]
                /\ UNCHANGED faults
             \/ Fault("driver") /\ EndExec
          /\ UNCHANGED insts
    /\ UNCHANGED <<apiVars, profiles, record, calls, kubelet, rec, events,
                   proc, disturbed>>

(* Destroy the profiles nobody needs; one that has instances stays.         *)
ExecProfiles ==
    /\ exec.pc = "profiles"
    /\ \/ \E prof \in exec.todo :
            /\ exec' = [exec EXCEPT !.todo = @ \ {prof}]
            /\ \/ /\ profiles' = IF InstancesOf(prof) = {}
                                   THEN profiles \ {prof} ELSE profiles
                  /\ UNCHANGED faults
               \/ Fault("driver") /\ UNCHANGED profiles
       \/ /\ exec.todo = {}
          /\ exec' = [exec EXCEPT !.pc = "slot", !.slot = None]
          /\ UNCHANGED <<profiles, faults>>
    /\ UNCHANGED <<apiVars, insts, record, calls, kubelet, rec, events, proc,
                   disturbed>>

-----------------------------------------------------------------------------
(* DeleteFunc: destroy the instance named by the deleted pod's annotation.  *)
(* Nothing to do, or a failure, goes straight on to the node lock.          *)
Recycle(p) ==
    LET g == pods[p].anno IN
    /\ proc = "up"
    /\ rec.pc = "idle"
    /\ ExecuteLockFree
    /\ p \in events
    /\ events' = events \ {p}
    /\ \/ /\ g # None /\ pods[p].stamped
          /\ insts[g.inst] # None
          /\ insts' = [insts EXCEPT ![g.inst] = None]
          /\ rec' = [pc |-> "profile", pod |-> p]
          /\ UNCHANGED faults
       \/ /\ \/ (g = None \/ ~pods[p].stamped) /\ UNCHANGED faults
             \/ g # None /\ insts[g.inst] = None /\ UNCHANGED faults
             \/ Fault("driver")
          /\ rec' = [pc |-> "lockGet", pod |-> p]
          /\ UNCHANGED insts
    /\ UNCHANGED <<apiVars, profiles, record, calls, kubelet, exec, proc,
                   disturbed>>

(* The informer lost the watch: it delivers a tombstone, which is not a     *)
(* pod; the type assertion panics.                                          *)
RecycleTombstone ==
    /\ proc = "up"
    /\ rec.pc = "idle"
    /\ events # {}
    /\ Fault("tombstone")
    /\ Crash
    /\ UNCHANGED <<lock, nodeDirty, unfixed, driverVars>>

(* Destroy the profile of the pod if no instance of it is left and it is    *)
(* the one the annotation names.  Without a configured unit the card's      *)
(* memory is read before; a failing read panics and ends the process.       *)
RecycleProfile ==
    LET p    == rec.pod
        prof == ProfileOf[p]
        idle == /\ p \notin Malformed
                /\ InstancesOf(prof) = {}
                /\ prof = ProfileOf[pods[p].anno.owner]
    IN
    /\ rec.pc = "profile"
    /\ \/ /\ MinDsmluUnit <= 0
          /\ p \notin Malformed
          /\ Fault("driver")
          /\ Crash
          /\ UNCHANGED profiles
       \/ /\ \/ /\ profiles' = IF idle THEN profiles \ {prof} ELSE profiles
                /\ UNCHANGED faults
             \/ Fault("driver") /\ UNCHANGED profiles
          /\ rec' = [rec EXCEPT !.pc = "lockGet"]
          /\ UNCHANGED <<pods, record, calls, kubelet, exec, events, proc,
                         disturbed>>
    /\ UNCHANGED <<lock, nodeDirty, unfixed, insts>>

(* Mutant: the lock is released for every deleted pod.                      *)
NeedsUnlockAlways(p) == TRUE

(* Mutant: a pod whose admission failed is forgotten.                       *)
NeedsUnlockPending(p) ==
    pods[p].assigned = "false" /\ pods[p].phase = "Pending"

(* A pod deleted before it was assigned, which may hold the node lock.      *)
NeedsUnlock(p) ==
    pods[p].assigned = "false" /\ pods[p].phase \in {"Pending", "Failed"}

(* fixNodeLock, first half: read the node of a pod that needs it.           *)
FixNodeLockGet ==
    /\ rec.pc = "lockGet"
    /\ \/ /\ NeedsUnlock(rec.pod) /\ lock # None
          /\ rec' = [rec EXCEPT !.pc = "lockUpdate"]
          /\ nodeDirty' = FALSE
          /\ UNCHANGED <<unfixed, faults>>
       \/ /\ ~NeedsUnlock(rec.pod) \/ lock = None
          /\ rec' = IdleRec
          /\ UNCHANGED <<nodeDirty, unfixed, faults>>
       \/ /\ NeedsUnlock(rec.pod)
          /\ Fault("api")
          /\ rec' = IdleRec
          /\ unfixed' = unfixed \cup {rec.pod}
          /\ UNCHANGED nodeDirty
    /\ UNCHANGED <<pods, lock, driverVars, record, calls, kubelet, exec,
                   events, proc, disturbed>>

(* The update carries the version that was read: a node written meanwhile   *)
(* (the kubelet's status updates included) is a conflict, which is logged   *)
(* and not tried again.                                                     *)
FixNodeLockUpdate ==
    /\ rec.pc = "lockUpdate"
    /\ rec' = IdleRec
    /\ \/ /\ ~nodeDirty
          /\ lock' = None
          /\ nodeDirty' = TRUE
          /\ UNCHANGED <<unfixed, faults>>
       \/ /\ (nodeDirty /\ UNCHANGED faults) \/ Fault("conflict")
          /\ unfixed' = unfixed \cup {rec.pod}
          /\ UNCHANGED <<lock, nodeDirty>>
    /\ UNCHANGED <<pods, driverVars, record, calls, kubelet, exec, events,
                   proc, disturbed>>

-----------------------------------------------------------------------------
HandlerStep(c) ==
    \/ List(c) \/ FindProfile(c) \/ CreateInstance(c) \/ MatchInfo(c)
    \/ PatchPod(c) \/ GetNode(c) \/ PatchNode(c)

ExecStep == ExecList \/ ExecSlot \/ ExecInstances \/ ExecProfiles

RecyclerStep ==
    \/ \E p \in Pod : Recycle(p)
    \/ RecycleProfile \/ FixNodeLockGet \/ FixNodeLockUpdate

KubeletStep == (\E p \in Pod : Allocate(p)) \/ Reject \/ StartContainers

Next ==
    \/ \E p \in Pod : Bind(p) \/ Finish(p) \/ Delete(p)
    \/ KubeletStep
    \/ \E c \in Call : HandlerStep(c)
    \/ ExecStep
    \/ RecyclerStep
    \/ RecycleTombstone
    \/ StartProcess
    \/ RestartPlugins

(***************************************************************************)
(* Handlers run, wait.Until runs exec again and again, the informer        *)
(* delivers deletions, the kubelet admits pods and the DaemonSet starts a  *)
(* process that died.  A recycler waiting for executeLock gets it: exec     *)
(* sleeps between passes, and a Go mutex is handed to its oldest waiter     *)
(* (strong fairness).  Nobody has to bind, finish or delete pods, and no   *)
(* fault has to happen.                                                    *)
(***************************************************************************)
Fairness ==
    /\ \A c \in Call : WF_vars(HandlerStep(c))
    /\ WF_vars(ExecStep)
    /\ SF_vars(RecyclerStep)
    /\ WF_vars(KubeletStep)
    /\ WF_vars(StartProcess)

Spec     == Init /\ [][Next]_vars
FairSpec == Spec /\ Fairness

-----------------------------------------------------------------------------
(* Properties *)

(* As long as the plugin was neither restarted nor crashed, the node lock   *)
(* protects the handshake: a pod waiting to be assigned holds the lock, so  *)
(* there is never a second candidate and Allocate, which is not told the    *)
(* pod, serves the right one.  Failing calls, rejected and deleted pods,    *)
(* and conflicting updates included.                                        *)
LockProtectsCandidate ==
    ~disturbed => \A p \in Pod : Candidate(p) => lock = p

(* The strengthening of LockProtectsCandidate that is inductive.            *)

(* p was bound and not assigned, and it is still there, or its deletion has *)
(* still to be handled by the recycler.                                     *)
Unsettled(p) ==
    /\ NeedsUnlock(p)
    /\ pods[p].exists \/ p \in events \/ (rec.pc # "idle" /\ rec.pod = p)

(* The lock belongs to the unsettled pod: there is at most one.             *)
LockIsOfUnsettled ==
    ~disturbed => \A p \in Pod : Unsettled(p) => lock = p

(* The recycler only handles pods that are gone, each once.                 *)
RecyclerHandlesDeleted ==
    /\ \A p \in events : ~pods[p].exists
    /\ rec.pc # "idle" => /\ ~pods[rec.pod].exists
                          /\ rec.pod \notin events
    /\ rec.pc = "lockUpdate" => NeedsUnlock(rec.pod)

(* One admission at a time, of a pod that is pending until it is over.      *)
OneAdmission ==
    /\ kubelet.pod # None => pods[kubelet.pod].phase = "Pending"
    /\ kubelet.call # None => /\ kubelet.pod # None
                              /\ kubelet.granted < 2
                              /\ calls[kubelet.call].pc # "idle"
    /\ kubelet.granted > 0 => kubelet.pod # None
    /\ ~disturbed => \A c \in Call : calls[c].pc # "idle" => kubelet.call = c

(* A call that has found its pod knows it, and knows its instance once it   *)
(* has one; the recycler destroys a profile for an annotated pod.           *)
CallsKnowTheirPod ==
    /\ \A c \in Call :
          /\ calls[c].pc \notin {"idle", "list"} => calls[c].pod \in Pod
          /\ calls[c].pc \in {"info", "patch", "lockGet", "lockPatch"} =>
                calls[c].grant \in Grant
    /\ rec.pc # "idle" => rec.pod \in Pod

(* A call about to assign a pod found it unassigned, and it still is; one   *)
(* about to release the lock does so for the pod it has just assigned.      *)
CallWorksForLockHolder ==
    ~disturbed =>
        \A c \in Call : LET p == calls[c].pod IN
            /\ calls[c].pc = "patch" =>
                  pods[p].phase = "Pending" /\ pods[p].assigned = "false"
            /\ calls[c].pc \in {"lockGet", "lockPatch"} =>
                  lock = p /\ pods[p].assigned = "true"

LockInv ==
    /\ TypeOK
    /\ (proc = "down" => disturbed)
    /\ CallsKnowTheirPod
    /\ RecyclerHandlesDeleted
    /\ OneAdmission
    /\ CallWorksForLockHolder
    /\ LockIsOfUnsettled

(* Before p was assigned, q of the same name was deleted: a record that q's *)
(* admission left behind is taken for p's.                                  *)
Forsaken(q, p) ==
    /\ NameOf[q] = NameOf[p]
    /\ pods[q].assigned = "false" /\ ~pods[q].exists

(* A running pod is annotated, and an annotation names an instance that was *)
(* created for the pod - or for a pod of its name that was deleted before   *)
(* it was assigned, never one that belongs to a pod still there: not by a   *)
(* record that outlived its admission, by a pod deleted between two calls,  *)
(* or by a call that serves another pod than the kubelet admits.            *)
PodOwnsInstance ==
    ~disturbed =>
        \A p \in Pod :
            /\ OnNode(p) /\ pods[p].phase = "Running" =>
                  pods[p].assigned = "true" /\ pods[p].anno # None
            /\ pods[p].anno # None =>
                  pods[p].anno.owner = p \/ Forsaken(pods[p].anno.owner, p)

(* The strengthening of PodOwnsInstance that is inductive together with *)
(* LockInv.                                                                 *)

(* An annotation comes with the assignment and names the pod's own instance *)
(* or a forsaken one; only an assigned pod gets to run.                     *)
AnnotationIsOwn ==
    \A p \in Pod :
        /\ pods[p].phase = "New" <=> pods[p].assigned = "none"
        /\ pods[p].assigned = "true" <=> pods[p].anno # None
        /\ pods[p].phase \in {"Running", "Succeeded"} => pods[p].anno # None
        /\ pods[p].anno # None =>
              pods[p].anno.owner = p \/ Forsaken(pods[p].anno.owner, p)

HasRecord(p) == record # None /\ record.name = NameOf[p]

(* The record is of a pod that is not assigned, except while the call that  *)
(* has assigned it releases the lock.                                       *)
RecordIsOfUnassigned ==
    record # None =>
        /\ HasRecord(record.grant.owner)
        /\ \/ pods[record.grant.owner].assigned = "false"
           \/ \E c \in Call : calls[c].pc \in {"lockGet", "lockPatch"}

(* A call creates an instance for an unassigned pod without a record, and   *)
(* annotates with what the record says.                                     *)
CallsFollowRecord ==
    \A c \in Call : LET p == calls[c].pod IN
        /\ calls[c].pc \in {"profile", "create", "info"} =>
              pods[p].assigned = "false" /\ ~HasRecord(p)
        /\ calls[c].pc = "info" => calls[c].grant.owner = p
        /\ calls[c].pc = "patch" => HasRecord(p) /\ calls[c].grant = record.grant

(* While the pod under admission waits to be assigned its calls serve it:   *)
(* the first leaves the record, the second assigns it.                      *)
AdmissionServesItsPod ==
    kubelet.pod # None /\ Candidate(kubelet.pod) =>
        /\ kubelet.granted = 1 => HasRecord(kubelet.pod)
        /\ kubelet.granted # 2
        /\ \A c \in Call :
              calls[c].pc \notin {"idle", "list"} => calls[c].pod = kubelet.pod

Ownership ==
    /\ AnnotationIsOwn
    /\ RecordIsOfUnassigned
    /\ CallsFollowRecord
    /\ AdmissionServesItsPod

OwnInv == LockInv /\ (~disturbed => Ownership)

(* A step in which exec destroys the instance h.                            *)
ExecDestroys(h) ==
    /\ exec.pc = "instances"
    /\ h \in exec.todo /\ h \notin exec'.todo
    /\ insts[h] # None /\ insts'[h] = None

(* The pod an instance was created for is pending or running, and uses it   *)
(* or is not annotated yet.                                                 *)
InUse(h) ==
    /\ Live(insts[h])
    /\ \/ pods[insts[h]].anno = None
       \/ pods[insts[h]].anno.inst = h

(* A pass of exec never destroys an instance in use if the instance was     *)
(* there when the pass listed the pods - however far the pod's admission    *)
(* has got in the meantime.                                                 *)
ExecSparesListed ==
    [][\A h \in Handle :
          ExecDestroys(h) /\ ~disturbed /\ h \notin exec.fresh
             => ~InUse(h)]_vars

(* The invariant behind ExecSparesListed, inductive together with OwnInv.   *)

(* A pod gets an instance after it was bound.                               *)
InstancesOfBound ==
    \A h \in Handle : insts[h] # None => pods[insts[h]].phase # "New"

(* What was there when the pass listed the pods is kept, or out of use for  *)
(* good.                                                                    *)
ListedIsSettled ==
    exec.pc # "idle" =>
        \A h \in Handle \ exec.fresh :
            insts[h] # None => h \in exec.keep \/ ~InUse(h)

(* What is kept is not on the list.                                         *)
KeptIsNotListed == exec.pc = "instances" => exec.todo \cap exec.keep = {}

Sparing == InstancesOfBound /\ ListedIsSettled /\ KeptIsNotListed

SpareInv == OwnInv /\ (~disturbed => Sparing)

(* What exec's log says: an instance it destroys is a legacy one, of no     *)
(* pending or running pod (dsmlu.go:269).                                   *)
ExecDestroysLegacyOnly ==
    [][\A h \in Handle : ExecDestroys(h) => ~InUse(h)]_vars

(* What the recycler's log says: the instance it recycles is that of the    *)
(* deleted pod (dsmlu.go:144).                                              *)
RecycleDestroysOwn ==
    [][\A h \in Handle :
          (/\ rec.pc = "idle" /\ rec'.pc = "profile"
           /\ insts[h] # None /\ insts'[h] = None)
             => insts[h] = rec'.pod]_vars

(* An instance whose pod is gone or has ended does not stay on the card:    *)
(* the recycler or a later pass of exec destroys it, whichever call of the  *)
(* API server or the driver failed, the plugin restarted or died in between *)
(* - unless the annotation of another live pod names the same handle, which *)
(* the driver has reused.                                                   *)
OrphansCollected ==
    \A h \in Handle, p \in Pod :
        (insts[h] = p /\ ~Live(p)) ~>
            \/ insts[h] # p
            \/ \E q \in Pod : Live(q) /\ pods[q].anno # None
                                    /\ pods[q].anno.inst = h

(* A deleted pod does not keep the node locked, whether the deletion comes  *)
(* before, during or after its admission and whatever the plugin's process  *)
(* went through - except when fixNodeLock could not read or update the node *)
(* in its one attempt, which nothing repeats: the lock then stays until the *)
(* plugin's next start.                                                     *)
DeletedPodUnlocks ==
    \A p \in Pod :
        (lock = p /\ ~pods[p].exists) ~> (lock # p \/ p \in unfixed)
=============================================================================

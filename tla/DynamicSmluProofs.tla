-------------------------- MODULE DynamicSmluProofs --------------------------
(* The node lock protects the handshake of dynamic sMLU allocation, for any *)
(* pods, cards, ids, handlers and faults.                                   *)
EXTENDS DynamicSmlu, TLAPS

LEMMA IdleTypes ==
  /\ IdleCall \in CallState
  /\ IdleRec \in RecState
  /\ NoPod \in Admission
  /\ IdleExec \in ExecState
  <1>1. IdleCall \in CallState
    BY DEF IdleCall, CallState
  <1>2. IdleRec \in RecState
    BY DEF IdleRec, RecState
  <1>3. NoPod \in Admission
    BY DEF NoPod, Admission
  <1>4. IdleExec \in ExecState
    BY DEF IdleExec, ExecState
  <1> QED BY <1>1, <1>2, <1>3, <1>4

LEMMA InitEstablishes == Init => LockInv
  <1> SUFFICES ASSUME Init PROVE LockInv
    OBVIOUS
  <1>1. pods \in [Pod -> PodState]
    BY DEF Init, PodState
  <1>2. faults \in 0..MaxFaults
    BY ConstantsAssumption DEF Init
  <1>3. calls \in [Call -> CallState] /\ insts \in [Handle -> Pod \cup {None}]
    BY IdleTypes DEF Init
  <1>4. TypeOK
    BY <1>1, <1>2, <1>3, IdleTypes DEF Init, TypeOK
  <1>5. CallsKnowTheirPod /\ RecyclerHandlesDeleted /\ CallWorksForLockHolder
    BY DEF Init, CallsKnowTheirPod, RecyclerHandlesDeleted,
           CallWorksForLockHolder, IdleCall, IdleRec
  <1>6. OneAdmission
    BY DEF Init, OneAdmission, NoPod, IdleCall
  <1>7. LockIsOfUnsettled
    BY DEF Init, LockIsOfUnsettled, Unsettled, NeedsUnlock
  <1> QED BY <1>4, <1>5, <1>6, <1>7 DEF Init, LockInv

-----------------------------------------------------------------------------
(* The building blocks of the actions.                                      *)

LEMMA FaultType ==
  ASSUME TypeOK, NEW kind, Fault(kind) \/ UNCHANGED faults
  PROVE  faults' \in 0..MaxFaults
  BY ConstantsAssumption DEF TypeOK, Fault

(* The kubelet's report changes the phase of one existing pod.              *)
LEMMA ReportEffect ==
  ASSUME TypeOK, kubelet.pod \in Pod,
         NEW phase \in {"Running", "Failed"}, Report(phase)
  PROVE  /\ pods' \in [Pod -> PodState]
         /\ \A p \in Pod :
              /\ pods'[p].assigned = pods[p].assigned
              /\ pods'[p].anno = pods[p].anno
              /\ pods'[p].exists = pods[p].exists
              /\ p # kubelet.pod \/ ~pods[p].exists
                    => pods'[p].phase = pods[p].phase
              /\ p = kubelet.pod /\ pods[p].exists => pods'[p].phase = phase
  BY DEF TypeOK, PodState, Report

(* An error for the kubelet's call, or for one nobody waits for.            *)
LEMMA ReturnErrorEffect ==
  ASSUME TypeOK, OneAdmission, NEW c \in Call, calls[c].pc # "idle",
         ReturnError(c)
  PROVE  /\ calls' \in [Call -> CallState]
         /\ calls' = [calls EXCEPT ![c] = IdleCall]
         /\ pods' \in [Pod -> PodState]
         /\ kubelet' \in Admission
         /\ \/ /\ kubelet.call = c
               /\ kubelet' = NoPod
               /\ kubelet.pod \in Pod
               /\ pods[kubelet.pod].phase = "Pending"
               /\ \A p \in Pod :
                    /\ pods'[p].assigned = pods[p].assigned
                    /\ pods'[p].exists = pods[p].exists
                    /\ p # kubelet.pod => pods'[p].phase = pods[p].phase
                    /\ pods'[kubelet.pod].phase \in {"Pending", "Failed"}
            \/ kubelet.call # c /\ UNCHANGED <<pods, kubelet>>
  <1>1. calls' = [calls EXCEPT ![c] = IdleCall]
    BY DEF ReturnError
  <1>2. calls' \in [Call -> CallState]
    BY <1>1, IdleTypes DEF TypeOK
  <1>3. CASE kubelet.call = c
    <2>1. kubelet.pod \in Pod /\ pods[kubelet.pod].phase = "Pending"
      BY <1>3, ConstantsAssumption DEF OneAdmission, TypeOK, Admission
    <2>2. Report("Failed") /\ kubelet' = NoPod
      BY <1>3 DEF ReturnError
    <2> QED BY <1>1, <1>2, <1>3, <2>1, <2>2, ReportEffect, IdleTypes
  <1>4. CASE kubelet.call # c
    BY <1>1, <1>2, <1>4 DEF ReturnError, TypeOK
  <1> QED BY <1>3, <1>4

(* A response for the kubelet's call, or for one nobody waits for.          *)
LEMMA ReturnResponseEffect ==
  ASSUME TypeOK, OneAdmission, NEW c \in Call, calls[c].pc # "idle",
         ReturnResponse(c)
  PROVE  /\ calls' \in [Call -> CallState]
         /\ calls' = [calls EXCEPT ![c] = IdleCall]
         /\ kubelet' \in Admission
         /\ \/ /\ kubelet.call = c
               /\ kubelet'.call = None
               /\ kubelet'.pod = kubelet.pod
               /\ kubelet.pod \in Pod
            \/ kubelet.call # c /\ UNCHANGED kubelet
  <1>1. calls' = [calls EXCEPT ![c] = IdleCall]
    BY DEF ReturnResponse
  <1>2. calls' \in [Call -> CallState]
    BY <1>1, IdleTypes DEF TypeOK
  <1>3. CASE kubelet.call = c
    <2>1. kubelet.pod \in Pod /\ kubelet.granted \in {0, 1}
      BY <1>3, ConstantsAssumption DEF OneAdmission, TypeOK, Admission
    <2>2. kubelet' = [kubelet EXCEPT !.granted = @ + 1, !.call = None]
      BY <1>3 DEF ReturnResponse
    <2>3. /\ kubelet'.call = None /\ kubelet'.pod = kubelet.pod
          /\ kubelet' = [pod |-> kubelet.pod, granted |-> kubelet.granted + 1,
                         call |-> None]
      BY <2>2 DEF TypeOK, Admission
    <2>4. kubelet.granted + 1 \in 0..2
      BY <2>1
    <2>5. kubelet' \in Admission
      BY <2>1, <2>3, <2>4 DEF Admission
    <2> QED BY <1>1, <1>2, <1>3, <2>1, <2>3, <2>5
  <1>4. CASE kubelet.call # c
    BY <1>1, <1>2, <1>4 DEF ReturnResponse, TypeOK
  <1> QED BY <1>3, <1>4

-----------------------------------------------------------------------------
(* Once disturbed, only the facts that do not depend on it are left.        *)

LEMMA CrashPreserves ==
  ASSUME LockInv, Crash, UNCHANGED <<lock, nodeDirty, unfixed, driverVars>>,
         faults' \in 0..MaxFaults
  PROVE  LockInv'
  <1>1. /\ proc' = "down" /\ disturbed' = TRUE /\ record' = None
        /\ calls' = [c \in Call |-> IdleCall]
        /\ exec' = IdleExec /\ rec' = IdleRec /\ events' = {}
        /\ UNCHANGED <<lock, nodeDirty, unfixed, insts, profiles>>
    BY DEF Crash, driverVars
  <1>2. calls' \in [Call -> CallState] /\ \A c \in Call : calls'[c].pc = "idle"
    BY <1>1, IdleTypes DEF IdleCall
  <1>3. /\ pods' \in [Pod -> PodState]
        /\ kubelet' \in Admission
        /\ \/ kubelet' = NoPod
           \/ kubelet.call = None /\ UNCHANGED <<pods, kubelet>>
    <2>1. CASE kubelet.call # None
      <3>1. kubelet.pod \in Pod
        BY <2>1 DEF LockInv, TypeOK, Admission, OneAdmission
      <3>2. Report("Failed") /\ kubelet' = NoPod
        BY <2>1 DEF Crash
      <3> QED BY <3>1, <3>2, ReportEffect, IdleTypes DEF LockInv
    <2>2. CASE kubelet.call = None
      BY <2>2 DEF Crash, LockInv, TypeOK
    <2> QED BY <2>1, <2>2
  <1>4. TypeOK'
    BY <1>1, <1>2, <1>3, IdleTypes DEF LockInv, TypeOK
  <1>5. CallsKnowTheirPod' /\ RecyclerHandlesDeleted'
    BY <1>1, <1>2 DEF CallsKnowTheirPod, RecyclerHandlesDeleted, IdleRec
  <1>6. OneAdmission'
    BY <1>1, <1>3 DEF LockInv, OneAdmission, NoPod
  <1>7. CallWorksForLockHolder' /\ LockIsOfUnsettled'
    BY <1>1 DEF CallWorksForLockHolder, LockIsOfUnsettled
  <1> QED BY <1>1, <1>4, <1>5, <1>6, <1>7 DEF LockInv

LEMMA RestartPreserves ==
  ASSUME LockInv, StartProcess \/ RestartPlugins
  PROVE  LockInv'
  <1>1. CASE StartProcess
    <2>1. disturbed
      BY <1>1 DEF StartProcess, LockInv
    <2>2. /\ proc' = "up" /\ lock' = None /\ nodeDirty' = TRUE
          /\ UNCHANGED <<pods, unfixed, insts, profiles, record, calls,
                         kubelet, exec, rec, events, faults, disturbed>>
      BY <1>1 DEF StartProcess, driverVars, syncVars
    <2>3. TypeOK'
      BY <2>2 DEF LockInv, TypeOK
    <2>4. /\ CallsKnowTheirPod' /\ RecyclerHandlesDeleted' /\ OneAdmission'
          /\ CallWorksForLockHolder' /\ LockIsOfUnsettled'
      BY <2>1, <2>2 DEF LockInv, CallsKnowTheirPod, RecyclerHandlesDeleted,
                        OneAdmission, CallWorksForLockHolder,
                        LockIsOfUnsettled, NeedsUnlock
    <2> QED BY <2>2, <2>3, <2>4 DEF LockInv
  <1>2. CASE RestartPlugins
    <2>1. /\ disturbed' = TRUE /\ lock' = None /\ nodeDirty' = TRUE
          /\ proc = "up"
          /\ UNCHANGED <<unfixed, insts, profiles, record, exec, rec, events,
                         proc>>
      BY <1>2 DEF RestartPlugins, driverVars, syncVars
    <2>2. faults' \in 0..MaxFaults
      BY <1>2, FaultType DEF RestartPlugins, LockInv
    <2>3. /\ calls' \in [Call -> CallState]
          /\ \A c \in Call : /\ calls'[c].pc = calls[c].pc
                             /\ calls'[c].pod = calls[c].pod
                             /\ calls'[c].grant = calls[c].grant
      BY <1>2 DEF RestartPlugins, LockInv, TypeOK, CallState
    <2>4. /\ pods' \in [Pod -> PodState]
          /\ \A p \in Pod : /\ pods'[p].exists = pods[p].exists
                            /\ pods'[p].assigned = pods[p].assigned
                            /\ ~pods[p].exists => pods'[p].phase = pods[p].phase
          /\ kubelet' \in Admission
          /\ \/ kubelet' = NoPod
             \/ kubelet.call = None /\ UNCHANGED <<pods, kubelet>>
      <3>1. CASE kubelet.call # None
        <4>1. kubelet.pod \in Pod
          BY <3>1 DEF LockInv, TypeOK, Admission, OneAdmission
        <4>2. Report("Failed") /\ kubelet' = NoPod
          BY <1>2, <3>1 DEF RestartPlugins
        <4> QED BY <4>1, <4>2, ReportEffect, IdleTypes DEF LockInv
      <3>2. CASE kubelet.call = None
        BY <1>2, <3>2 DEF RestartPlugins, LockInv, TypeOK
      <3> QED BY <3>1, <3>2
    <2>5. TypeOK'
      BY <2>1, <2>2, <2>3, <2>4 DEF LockInv, TypeOK
    <2>6. CallsKnowTheirPod'
      BY <2>1, <2>3 DEF LockInv, CallsKnowTheirPod
    <2>7. RecyclerHandlesDeleted'
      BY <2>1, <2>4 DEF LockInv, TypeOK, RecyclerHandlesDeleted, NeedsUnlock,
                        CallsKnowTheirPod
    <2>8. OneAdmission'
      BY <2>1, <2>4 DEF LockInv, OneAdmission, NoPod
    <2>9. CallWorksForLockHolder' /\ LockIsOfUnsettled'
      BY <2>1 DEF CallWorksForLockHolder, LockIsOfUnsettled
    <2> QED BY <2>1, <2>5, <2>6, <2>7, <2>8, <2>9 DEF LockInv
  <1> QED BY <1>1, <1>2

-----------------------------------------------------------------------------
(* The scheduler and the owners of the pods.                                *)

LEMMA BindPreserves ==
  ASSUME LockInv, NEW p \in Pod, Bind(p)
  PROVE  LockInv'
  <1>1. /\ pods[p].phase = "New" /\ pods[p].exists /\ lock = None
        /\ lock' = p /\ nodeDirty' = TRUE
        /\ UNCHANGED <<unfixed, insts, profiles, record, calls, kubelet, exec,
                       rec, events, proc, faults, disturbed>>
    BY DEF Bind, driverVars, syncVars
  <1>2. /\ pods' \in [Pod -> PodState]
        /\ \A q \in Pod : /\ pods'[q].exists = pods[q].exists
                          /\ q # p => pods'[q] = pods[q]
    <2>1. pods' = [pods EXCEPT ![p] = [pods[p] EXCEPT !.phase = "Pending",
                                                      !.assigned = "false"]]
      BY DEF Bind, LockInv, TypeOK
    <2>2. /\ pods \in [Pod -> PodState]
          /\ [pods[p] EXCEPT !.phase = "Pending", !.assigned = "false"]
                \in PodState
          /\ [pods[p] EXCEPT !.phase = "Pending", !.assigned = "false"].exists
                = pods[p].exists
      BY DEF LockInv, TypeOK, PodState
    <2> QED BY <2>1, <2>2
  <1>3. TypeOK'
    BY <1>1, <1>2 DEF LockInv, TypeOK
  <1>4. CallsKnowTheirPod'
    BY <1>1 DEF LockInv, CallsKnowTheirPod
  <1>5. RecyclerHandlesDeleted'
    BY <1>1, <1>2 DEF LockInv, TypeOK, RecyclerHandlesDeleted, NeedsUnlock,
                      CallsKnowTheirPod
  <1>6. OneAdmission'
    BY <1>1, <1>2 DEF LockInv, TypeOK, Admission, OneAdmission
  <1>7. CallWorksForLockHolder'
    BY <1>1, <1>2, ConstantsAssumption
       DEF LockInv, CallWorksForLockHolder, CallsKnowTheirPod
  <1>8. LockIsOfUnsettled'
    <2> SUFFICES ASSUME ~disturbed', NEW q \in Pod, Unsettled(q)'
                 PROVE  lock' = q
      BY DEF LockIsOfUnsettled
    <2>1. q # p => Unsettled(q)
      BY <1>1, <1>2 DEF Unsettled, NeedsUnlock
    <2>2. q # p => lock = q
      BY <1>1, <2>1 DEF LockInv, LockIsOfUnsettled
    <2> QED BY <1>1, <2>2, ConstantsAssumption
  <1> QED BY <1>1, <1>3, <1>4, <1>5, <1>6, <1>7, <1>8 DEF LockInv

(* A pod that ends was running, so nobody is admitting it.                  *)
LEMMA FinishPreserves ==
  ASSUME LockInv, NEW p \in Pod, Finish(p)
  PROVE  LockInv'
  <1>1. /\ pods[p].phase = "Running" /\ pods[p].exists
        /\ UNCHANGED <<lock, nodeDirty, unfixed, insts, profiles, record, calls,
                       kubelet, exec, rec, events, proc, faults, disturbed>>
    BY DEF Finish, OnNode, driverVars, syncVars
  <1>2. /\ pods' \in [Pod -> PodState]
        /\ pods'[p].phase = "Succeeded"
        /\ \A q \in Pod : /\ pods'[q].exists = pods[q].exists
                          /\ pods'[q].assigned = pods[q].assigned
                          /\ q # p => pods'[q] = pods[q]
    BY DEF Finish, LockInv, TypeOK, PodState
  <1>3. TypeOK'
    BY <1>1, <1>2 DEF LockInv, TypeOK
  <1>4. CallsKnowTheirPod'
    BY <1>1 DEF LockInv, CallsKnowTheirPod
  <1>5. RecyclerHandlesDeleted'
    BY <1>1, <1>2 DEF LockInv, TypeOK, RecyclerHandlesDeleted, NeedsUnlock,
                      CallsKnowTheirPod
  <1>6. OneAdmission'
    BY <1>1, <1>2 DEF LockInv, TypeOK, Admission, OneAdmission
  <1>7. CallWorksForLockHolder'
    BY <1>1, <1>2 DEF LockInv, CallWorksForLockHolder, CallsKnowTheirPod
  <1>8. LockIsOfUnsettled'
    BY <1>1, <1>2 DEF LockInv, LockIsOfUnsettled, Unsettled, NeedsUnlock
  <1> QED BY <1>1, <1>3, <1>4, <1>5, <1>6, <1>7, <1>8 DEF LockInv

(* A deleted pod leaves an event while the informer runs.                   *)
LEMMA DeletePreserves ==
  ASSUME LockInv, NEW p \in Pod, Delete(p)
  PROVE  LockInv'
  <1>1. /\ pods[p].exists
        /\ events' = IF proc = "up" THEN events \cup {p} ELSE events
        /\ UNCHANGED <<lock, nodeDirty, unfixed, insts, profiles, record, calls,
                       kubelet, exec, rec, proc, faults, disturbed>>
    BY DEF Delete, OnNode, driverVars
  <1>2. /\ pods' \in [Pod -> PodState]
        /\ ~pods'[p].exists
        /\ \A q \in Pod : /\ pods'[q].assigned = pods[q].assigned
                          /\ pods'[q].phase = pods[q].phase
                          /\ q # p => pods'[q] = pods[q]
    <2>1. PICK b \in BOOLEAN :
            pods' = [pods EXCEPT ![p] = [pods[p] EXCEPT !.exists = FALSE,
                                                        !.stamped = b]]
      BY DEF Delete, LockInv, TypeOK
    <2> DEFINE gone == [pods[p] EXCEPT !.exists = FALSE, !.stamped = b]
    <2>2. pods \in [Pod -> PodState]
      BY DEF LockInv, TypeOK
    <2>3. /\ gone \in PodState /\ ~gone.exists
          /\ gone.assigned = pods[p].assigned /\ gone.phase = pods[p].phase
      BY <2>2 DEF PodState
    <2>4. pods' = [pods EXCEPT ![p] = gone]
      BY <2>1
    <2> HIDE DEF gone
    <2> QED BY <2>2, <2>3, <2>4
  <1>3. TypeOK'
    BY <1>1, <1>2 DEF LockInv, TypeOK
  <1>4. CallsKnowTheirPod'
    BY <1>1 DEF LockInv, CallsKnowTheirPod
  <1>5. RecyclerHandlesDeleted'
    BY <1>1, <1>2 DEF LockInv, TypeOK, RecyclerHandlesDeleted, NeedsUnlock,
                      CallsKnowTheirPod
  <1>6. OneAdmission'
    BY <1>1, <1>2 DEF LockInv, TypeOK, Admission, OneAdmission
  <1>7. CallWorksForLockHolder'
    BY <1>1, <1>2 DEF LockInv, CallWorksForLockHolder, CallsKnowTheirPod
  <1>8. LockIsOfUnsettled'
    <2> SUFFICES ASSUME ~disturbed', NEW q \in Pod, Unsettled(q)'
                 PROVE  lock' = q
      BY DEF LockIsOfUnsettled
    <2>1. Unsettled(q)
      BY <1>1, <1>2 DEF LockInv, Unsettled, NeedsUnlock
    <2> QED BY <1>1, <2>1 DEF LockInv, LockIsOfUnsettled
  <1> QED BY <1>1, <1>3, <1>4, <1>5, <1>6, <1>7, <1>8 DEF LockInv

-----------------------------------------------------------------------------
(* The kubelet.                                                             *)

LEMMA AllocatePreserves ==
  ASSUME LockInv, NEW p \in Pod, Allocate(p)
  PROVE  LockInv'
  <1>1. PICK c \in Call :
          /\ calls[c].pc = "idle"
          /\ calls' = [calls EXCEPT ![c].pc = "list"]
          /\ kubelet' = [kubelet EXCEPT !.pod = p, !.call = c]
    BY DEF Allocate
  <1>2. /\ kubelet.call = None
        /\ \/ kubelet.pod = None /\ Pending(p)
           \/ kubelet.pod = p /\ kubelet.granted = 1
        /\ UNCHANGED <<pods, lock, nodeDirty, unfixed, insts, profiles,
                       record, exec, rec, events, proc, faults, disturbed>>
    BY DEF Allocate, apiVars, driverVars, syncVars
  <1>3. /\ calls' \in [Call -> CallState]
        /\ calls'[c].pc = "list"
        /\ \A d \in Call : d # c => calls'[d] = calls[d]
    BY <1>1 DEF LockInv, TypeOK, CallState
  <1>4. /\ kubelet' \in Admission
        /\ kubelet'.pod = p /\ kubelet'.call = c
        /\ kubelet'.granted = kubelet.granted
    BY <1>1 DEF LockInv, TypeOK, Admission
  <1>5. TypeOK'
    BY <1>2, <1>3, <1>4 DEF LockInv, TypeOK
  <1>6. CallsKnowTheirPod'
    BY <1>2, <1>3 DEF LockInv, CallsKnowTheirPod
  <1>7. RecyclerHandlesDeleted' /\ LockIsOfUnsettled'
    BY <1>2 DEF LockInv, RecyclerHandlesDeleted, LockIsOfUnsettled, Unsettled,
                NeedsUnlock
  <1>8. OneAdmission'
    <2>1. pods[p].phase = "Pending" /\ kubelet.granted < 2
      <3>1. kubelet.granted > 0 => kubelet.pod # None
        BY DEF LockInv, OneAdmission
      <3>2. kubelet.granted \in 0..2
        BY DEF LockInv, TypeOK, Admission
      <3>3. p # None
        BY ConstantsAssumption
      <3> QED BY <1>2, <3>1, <3>2, <3>3 DEF LockInv, OneAdmission, Pending
    <2>2. ~disturbed => \A d \in Call : calls[d].pc = "idle"
      BY <1>2, ConstantsAssumption DEF LockInv, OneAdmission
    <2>3. p # None /\ c # None
      BY ConstantsAssumption
    <2> QED BY <1>2, <1>3, <1>4, <2>1, <2>2, <2>3 DEF OneAdmission
  <1>9. CallWorksForLockHolder'
    BY <1>2, <1>3 DEF LockInv, CallWorksForLockHolder
  <1> QED BY <1>2, <1>5, <1>6, <1>7, <1>8, <1>9 DEF LockInv

(* The kubelet's verdict about the pod it was admitting.                    *)
LEMMA VerdictPreserves ==
  ASSUME LockInv, Reject \/ StartContainers
  PROVE  LockInv'
  <1>1. PICK phase \in {"Running", "Failed"} : Report(phase)
    BY DEF Reject, StartContainers
  <1>2. /\ kubelet.pod \in Pod
        /\ pods[kubelet.pod].phase = "Pending"
        /\ kubelet.call = None
    BY DEF LockInv, TypeOK, Admission, OneAdmission, Reject, StartContainers
  <1>3. /\ pods' \in [Pod -> PodState]
        /\ \A q \in Pod :
             /\ pods'[q].assigned = pods[q].assigned
             /\ pods'[q].exists = pods[q].exists
             /\ q # kubelet.pod \/ ~pods[q].exists
                   => pods'[q].phase = pods[q].phase
    BY <1>1, <1>2, ReportEffect DEF LockInv
  <1>4. /\ kubelet' = NoPod
        /\ UNCHANGED <<lock, nodeDirty, unfixed, insts, profiles, record,
                       calls, exec, rec, events, proc, disturbed>>
    BY DEF Reject, StartContainers, driverVars, syncVars
  <1>5. faults' \in 0..MaxFaults
    BY FaultType DEF LockInv, Reject, StartContainers
  <1>6. TypeOK'
    BY <1>3, <1>4, <1>5, IdleTypes DEF LockInv, TypeOK
  <1>7. CallsKnowTheirPod'
    BY <1>4 DEF LockInv, CallsKnowTheirPod
  <1>8. RecyclerHandlesDeleted'
    BY <1>3, <1>4 DEF LockInv, TypeOK, RecyclerHandlesDeleted, NeedsUnlock,
                      CallsKnowTheirPod
  <1>9. OneAdmission'
    BY <1>2, <1>4, ConstantsAssumption DEF LockInv, OneAdmission, NoPod
  <1>10. CallWorksForLockHolder'
    BY <1>2, <1>4, ConstantsAssumption
       DEF LockInv, CallWorksForLockHolder, OneAdmission
  <1>11. LockIsOfUnsettled'
    <2> SUFFICES ASSUME ~disturbed', NEW q \in Pod, Unsettled(q)'
                 PROVE  lock' = q
      BY DEF LockIsOfUnsettled
    <2>1. Unsettled(q)
      BY <1>2, <1>3, <1>4 DEF Unsettled, NeedsUnlock
    <2> QED BY <1>4, <2>1 DEF LockInv, LockIsOfUnsettled
  <1> QED BY <1>4, <1>6, <1>7, <1>8, <1>9, <1>10, <1>11 DEF LockInv

-----------------------------------------------------------------------------
(* allocateDynamicSmlu: a handler fails, answers, goes on, or panics.       *)

DataTyped ==
    /\ unfixed \subseteq Pod
    /\ insts \in [Handle -> Pod \cup {None}]
    /\ profiles \subseteq Profile
    /\ record \in Record \cup {None}
    /\ exec \in ExecState
    /\ faults \in 0..MaxFaults

LEMMA ErrorPreserves ==
  ASSUME LockInv, NEW c \in Call, calls[c].pc # "idle", ReturnError(c),
         DataTyped',
         UNCHANGED <<lock, nodeDirty, unfixed, rec, events, proc, disturbed>>
  PROVE  LockInv'
  <1>1. /\ calls' \in [Call -> CallState]
        /\ calls' = [calls EXCEPT ![c] = IdleCall]
        /\ pods' \in [Pod -> PodState]
        /\ kubelet' \in Admission
        /\ \/ /\ kubelet.call = c
              /\ kubelet' = NoPod
              /\ kubelet.pod \in Pod
              /\ pods[kubelet.pod].phase = "Pending"
              /\ \A p \in Pod :
                   /\ pods'[p].assigned = pods[p].assigned
                   /\ pods'[p].exists = pods[p].exists
                   /\ p # kubelet.pod => pods'[p].phase = pods[p].phase
                   /\ pods'[kubelet.pod].phase \in {"Pending", "Failed"}
           \/ kubelet.call # c /\ UNCHANGED <<pods, kubelet>>
    BY ReturnErrorEffect DEF LockInv
  <1>2. TypeOK'
    BY <1>1 DEF LockInv, TypeOK, DataTyped
  <1>3. /\ calls'[c].pc = "idle"
        /\ \A d \in Call : d # c => calls'[d] = calls[d]
    BY <1>1 DEF IdleCall, LockInv, TypeOK
  <1>4. CallsKnowTheirPod'
    BY <1>3 DEF LockInv, CallsKnowTheirPod
  <1>5. RecyclerHandlesDeleted'
    BY <1>1 DEF LockInv, TypeOK, RecyclerHandlesDeleted, NeedsUnlock,
                CallsKnowTheirPod
  <1>6. OneAdmission'
    BY <1>1, <1>3, ConstantsAssumption
       DEF LockInv, OneAdmission, NoPod, TypeOK, Admission
  <1>7. ~disturbed => \A d \in Call : calls'[d].pc = "idle"
    BY <1>3 DEF LockInv, OneAdmission
  <1>8. CallWorksForLockHolder'
    BY <1>7 DEF CallWorksForLockHolder
  <1>9. LockIsOfUnsettled'
    <2> SUFFICES ASSUME ~disturbed', NEW q \in Pod, Unsettled(q)'
                 PROVE  lock' = q
      BY DEF LockIsOfUnsettled
    <2>1. Unsettled(q)
      BY <1>1 DEF Unsettled, NeedsUnlock
    <2> QED BY <2>1 DEF LockInv, LockIsOfUnsettled
  <1> QED BY <1>2, <1>4, <1>5, <1>6, <1>8, <1>9 DEF LockInv

LEMMA ResponsePreserves ==
  ASSUME LockInv, NEW c \in Call, calls[c].pc # "idle", ReturnResponse(c),
         DataTyped', lock' \in Pod \cup {None}, nodeDirty' \in BOOLEAN,
         UNCHANGED <<pods, rec, events, proc, disturbed>>,
         \/ lock' = lock
         \/ ~disturbed => \A p \in Pod : ~Unsettled(p)
  PROVE  LockInv'
  <1>1. /\ calls' \in [Call -> CallState]
        /\ calls' = [calls EXCEPT ![c] = IdleCall]
        /\ kubelet' \in Admission
        /\ \/ /\ kubelet.call = c
              /\ kubelet'.call = None
              /\ kubelet'.pod = kubelet.pod
              /\ kubelet.pod \in Pod
           \/ kubelet.call # c /\ UNCHANGED kubelet
    BY ReturnResponseEffect DEF LockInv
  <1>2. TypeOK'
    BY <1>1 DEF LockInv, TypeOK, DataTyped
  <1>3. /\ calls'[c].pc = "idle"
        /\ \A d \in Call : d # c => calls'[d] = calls[d]
    BY <1>1 DEF IdleCall, LockInv, TypeOK
  <1>4. CallsKnowTheirPod'
    BY <1>3 DEF LockInv, CallsKnowTheirPod
  <1>5. RecyclerHandlesDeleted'
    BY <1>1 DEF LockInv, RecyclerHandlesDeleted, NeedsUnlock
  <1>6. ~disturbed => \A d \in Call : calls'[d].pc = "idle"
    BY <1>3 DEF LockInv, OneAdmission
  <1>7. OneAdmission'
    BY <1>1, <1>3, <1>6, ConstantsAssumption
       DEF LockInv, OneAdmission, TypeOK, Admission
  <1>8. CallWorksForLockHolder'
    BY <1>6 DEF CallWorksForLockHolder
  <1>9. LockIsOfUnsettled'
    BY DEF LockInv, LockIsOfUnsettled, Unsettled, NeedsUnlock
  <1> QED BY <1>2, <1>4, <1>5, <1>7, <1>8, <1>9 DEF LockInv

LEMMA MovePreserves ==
  ASSUME LockInv, NEW c \in Call, calls[c].pc # "idle",
         calls' \in [Call -> CallState],
         \A d \in Call : d # c => calls'[d] = calls[d],
         calls'[c].pc \in {"profile", "create", "info", "patch", "lockPatch"},
         calls'[c].pod \in Pod,
         calls'[c].pc \in {"info", "patch", "lockPatch"}
            => calls'[c].grant \in Grant,
         calls'[c].pc = "patch" => Candidate(calls'[c].pod),
         calls'[c].pc = "lockPatch"
            => calls[c].pc = "lockGet" /\ calls'[c].pod = calls[c].pod,
         DataTyped',
         UNCHANGED <<pods, lock, nodeDirty, unfixed, kubelet, rec, events, proc,
                     disturbed>>
  PROVE  LockInv'
  <1>1. TypeOK'
    BY DEF LockInv, TypeOK, DataTyped
  <1>2. CallsKnowTheirPod'
    BY DEF LockInv, CallsKnowTheirPod
  <1>3. RecyclerHandlesDeleted' /\ LockIsOfUnsettled'
    BY DEF LockInv, RecyclerHandlesDeleted, LockIsOfUnsettled, Unsettled,
           NeedsUnlock
  <1>4. OneAdmission'
    BY DEF LockInv, OneAdmission, TypeOK, Admission
  <1>5. CallWorksForLockHolder'
    BY DEF LockInv, CallWorksForLockHolder, Candidate, Pending
  <1> QED BY <1>1, <1>2, <1>3, <1>4, <1>5 DEF LockInv

LEMMA DataTypedNow == LockInv => DataTyped
  BY DEF LockInv, TypeOK, DataTyped

LEMMA ListPreserves ==
  ASSUME LockInv, NEW c \in Call, List(c)
  PROVE  LockInv'
  <1>1. /\ calls[c].pc = "list"
        /\ UNCHANGED <<lock, nodeDirty, unfixed, insts, profiles, exec, rec,
                       events, proc, disturbed>>
    BY DEF List, driverVars, syncVars
  <1>2. faults' \in 0..MaxFaults
    BY FaultType DEF LockInv, List
  <1>3. CASE ReturnError(c) /\ record' \in {record, None}
    <2>1. DataTyped'
      BY <1>1, <1>2, <1>3, DataTypedNow DEF DataTyped
    <2> QED BY <1>1, <1>3, <2>1, ErrorPreserves
  <1>4. CASE \E p \in Pod :
               /\ Candidate(p)
               /\ UNCHANGED <<record, pods, kubelet>>
               /\ \/ /\ record # None
                     /\ calls' = [calls EXCEPT ![c].pc = "patch",
                                     ![c].pod = p, ![c].grant = record.grant]
                  \/ calls' = [calls EXCEPT ![c].pc = "profile", ![c].pod = p]
    <2>1. DataTyped'
      BY <1>1, <1>2, <1>4, DataTypedNow DEF DataTyped
    <2>2. PICK p \in Pod :
            /\ Candidate(p)
            /\ \/ /\ record # None
                  /\ calls' = [calls EXCEPT ![c].pc = "patch",
                                  ![c].pod = p, ![c].grant = record.grant]
               \/ calls' = [calls EXCEPT ![c].pc = "profile", ![c].pod = p]
      BY <1>4
    <2>3. CASE /\ record # None
               /\ calls' = [calls EXCEPT ![c].pc = "patch",
                               ![c].pod = p, ![c].grant = record.grant]
      <3> DEFINE n == [calls[c] EXCEPT !.pc = "patch", !.pod = p,
                                       !.grant = record.grant]
      <3>1. record.grant \in Grant
        BY <2>3 DEF LockInv, TypeOK, Record
      <3>2. n \in CallState /\ n.pc = "patch" /\ n.pod = p
            /\ n.grant = record.grant
        BY <3>1 DEF LockInv, TypeOK, CallState
      <3>3. calls' = [calls EXCEPT ![c] = n]
        BY <2>3
      <3> HIDE DEF n
      <3>4. /\ calls' \in [Call -> CallState] /\ calls'[c] = n
            /\ \A d \in Call : d # c => calls'[d] = calls[d]
        BY <3>2, <3>3 DEF LockInv, TypeOK
      <3> QED BY <1>1, <1>4, <2>1, <2>2, <3>1, <3>2, <3>4, MovePreserves
    <2>4. CASE calls' = [calls EXCEPT ![c].pc = "profile", ![c].pod = p]
      <3> DEFINE n == [calls[c] EXCEPT !.pc = "profile", !.pod = p]
      <3>1. n \in CallState /\ n.pc = "profile" /\ n.pod = p
        BY DEF LockInv, TypeOK, CallState
      <3>2. calls' = [calls EXCEPT ![c] = n]
        BY <2>4
      <3> HIDE DEF n
      <3>3. /\ calls' \in [Call -> CallState] /\ calls'[c] = n
            /\ \A d \in Call : d # c => calls'[d] = calls[d]
        BY <3>1, <3>2 DEF LockInv, TypeOK
      <3> QED BY <1>1, <1>4, <2>1, <3>1, <3>3, MovePreserves
    <2> QED BY <2>2, <2>3, <2>4
  <1>5. (ReturnError(c) /\ record' \in {record, None})
        \/ \E p \in Pod :
               /\ Candidate(p)
               /\ UNCHANGED <<record, pods, kubelet>>
               /\ \/ /\ record # None
                     /\ calls' = [calls EXCEPT ![c].pc = "patch",
                                     ![c].pod = p, ![c].grant = record.grant]
                  \/ calls' = [calls EXCEPT ![c].pc = "profile", ![c].pod = p]
    BY DEF List, NoCandidate
  <1> QED BY <1>3, <1>4, <1>5

LEMMA FindProfilePreserves ==
  ASSUME LockInv, NEW c \in Call, FindProfile(c)
  PROVE  LockInv'
  <1>1. /\ calls[c].pc = "profile"
        /\ UNCHANGED <<lock, nodeDirty, unfixed, insts>>
    BY DEF FindProfile
  <1>2. calls[c].pod \in Pod /\ ProfileOf[calls[c].pod] \in Profile
    BY <1>1, ConstantsAssumption DEF LockInv, CallsKnowTheirPod
  <1>3. faults' \in 0..MaxFaults
    BY FaultType DEF LockInv, FindProfile
  <1>4. profiles' \subseteq Profile
    BY <1>2 DEF LockInv, TypeOK, FindProfile
  <1>5. CASE Crash /\ UNCHANGED profiles
    BY <1>1, <1>3, <1>5, CrashPreserves DEF driverVars
  <1>6. CASE /\ ReturnError(c)
             /\ UNCHANGED <<record, exec, rec, events, proc, disturbed>>
    <2>1. DataTyped'
      BY <1>1, <1>3, <1>4, <1>6, DataTypedNow DEF DataTyped
    <2> QED BY <1>1, <1>6, <2>1, ErrorPreserves
  <1>7. CASE /\ calls' = [calls EXCEPT ![c].pc = "create"]
             /\ UNCHANGED <<pods, kubelet, record, exec, rec, events, proc,
                            disturbed>>
    <2>1. /\ calls' \in [Call -> CallState]
          /\ calls'[c].pc = "create" /\ calls'[c].pod = calls[c].pod
          /\ \A d \in Call : d # c => calls'[d] = calls[d]
      BY <1>7 DEF LockInv, TypeOK, CallState
    <2>2. DataTyped'
      BY <1>1, <1>3, <1>4, <1>7, DataTypedNow DEF DataTyped
    <2> QED BY <1>1, <1>2, <1>7, <2>1, <2>2, MovePreserves
  <1> QED BY <1>5, <1>6, <1>7 DEF FindProfile, syncVars

LEMMA CreateInstancePreserves ==
  ASSUME LockInv, NEW c \in Call, CreateInstance(c)
  PROVE  LockInv'
  <1>1. /\ calls[c].pc = "create"
        /\ UNCHANGED <<lock, nodeDirty, unfixed, profiles, record, rec,
                       events, proc, disturbed>>
    BY DEF CreateInstance
  <1>2. calls[c].pod \in Pod
    BY <1>1 DEF LockInv, CallsKnowTheirPod
  <1>3. faults' \in 0..MaxFaults
    BY FaultType DEF LockInv, CreateInstance
  <1>4. CASE ReturnError(c) /\ UNCHANGED <<insts, exec>>
    <2>1. DataTyped'
      BY <1>1, <1>3, <1>4, DataTypedNow DEF DataTyped
    <2> QED BY <1>1, <1>4, <2>1, ErrorPreserves
  <1>5. CASE \E h \in Handle :
               /\ insts' = [insts EXCEPT ![h] = calls[c].pod]
               /\ calls' = [calls EXCEPT ![c].pc = "info",
                               ![c].grant = [inst |-> h,
                                             owner |-> calls[c].pod]]
               /\ exec' = [exec EXCEPT !.fresh =
                              IF exec.pc = "idle" THEN {} ELSE @ \cup {h}]
               /\ UNCHANGED <<pods, kubelet>>
    <2>1. PICK h \in Handle :
            /\ insts' = [insts EXCEPT ![h] = calls[c].pod]
            /\ calls' = [calls EXCEPT ![c].pc = "info",
                            ![c].grant = [inst |-> h, owner |-> calls[c].pod]]
            /\ exec' = [exec EXCEPT !.fresh =
                           IF exec.pc = "idle" THEN {} ELSE @ \cup {h}]
      BY <1>5
    <2>2. insts' \in [Handle -> Pod \cup {None}]
      BY <1>2, <2>1 DEF LockInv, TypeOK
    <2>3. exec' \in ExecState
      BY <2>1 DEF LockInv, TypeOK, ExecState
    <2>4. DataTyped'
      BY <1>1, <1>3, <2>2, <2>3, DataTypedNow DEF DataTyped
    <2> DEFINE g == [inst |-> h, owner |-> calls[c].pod]
               n == [calls[c] EXCEPT !.pc = "info", !.grant = g]
    <2>5. g \in Grant
      BY <1>2 DEF Grant
    <2> HIDE DEF g
    <2>6. /\ n \in CallState /\ n.pc = "info" /\ n.grant = g
          /\ n.pod = calls[c].pod
      BY <2>5 DEF LockInv, TypeOK, CallState
    <2>7. calls' = [calls EXCEPT ![c] = n]
      BY <2>1 DEF g
    <2> HIDE DEF n
    <2>8. /\ calls' \in [Call -> CallState] /\ calls'[c] = n
          /\ \A d \in Call : d # c => calls'[d] = calls[d]
      BY <2>6, <2>7 DEF LockInv, TypeOK
    <2> QED BY <1>1, <1>2, <1>5, <2>4, <2>5, <2>6, <2>8, MovePreserves
  <1> QED BY <1>4, <1>5 DEF CreateInstance

LEMMA MatchInfoPreserves ==
  ASSUME LockInv, NEW c \in Call, MatchInfo(c)
  PROVE  LockInv'
  <1>1. /\ calls[c].pc = "info"
        /\ UNCHANGED <<lock, nodeDirty, unfixed, profiles, exec, rec, events,
                       proc, disturbed>>
    BY DEF MatchInfo, syncVars
  <1>2. calls[c].pod \in Pod /\ calls[c].grant \in Grant
    BY <1>1 DEF LockInv, CallsKnowTheirPod
  <1>3. faults' \in 0..MaxFaults
    BY FaultType DEF LockInv, MatchInfo
  <1>4. CASE /\ record' = [name |-> NameOf[calls[c].pod],
                           grant |-> calls[c].grant]
             /\ ReturnResponse(c)
             /\ UNCHANGED <<insts, pods, faults>>
    <2>1. record' \in Record
      BY <1>2, <1>4 DEF Record
    <2>2. DataTyped'
      BY <1>1, <1>3, <1>4, <2>1, DataTypedNow DEF DataTyped
    <2>3. lock \in Pod \cup {None} /\ nodeDirty \in BOOLEAN
      BY DEF LockInv, TypeOK
    <2> QED BY <1>1, <1>4, <2>2, <2>3, ResponsePreserves
  <1>5. CASE /\ insts' \in {insts, [insts EXCEPT ![calls[c].grant.inst] = None]}
             /\ ReturnError(c)
             /\ UNCHANGED record
    <2>1. insts' \in [Handle -> Pod \cup {None}]
      BY <1>2, <1>5 DEF LockInv, TypeOK, Grant
    <2>2. DataTyped'
      BY <1>1, <1>3, <1>5, <2>1, DataTypedNow DEF DataTyped
    <2> QED BY <1>1, <1>5, <2>2, ErrorPreserves
  <1> QED BY <1>4, <1>5 DEF MatchInfo

(* The patch assigns the pod that holds the lock.                           *)
LEMMA PatchPodPreserves ==
  ASSUME LockInv, NEW c \in Call, PatchPod(c)
  PROVE  LockInv'
  <1>1. /\ calls[c].pc = "patch"
        /\ UNCHANGED <<lock, nodeDirty, unfixed, insts, profiles>>
    BY DEF PatchPod, driverVars
  <1>2. calls[c].pod \in Pod /\ calls[c].grant \in Grant
    BY <1>1 DEF LockInv, CallsKnowTheirPod
  <1>3. CASE Crash /\ faults' \in 0..MaxFaults
    BY <1>1, <1>3, CrashPreserves DEF driverVars
  <1>4. CASE /\ pods[calls[c].pod].exists
             /\ pods' = [pods EXCEPT ![calls[c].pod].assigned = "true",
                                     ![calls[c].pod].anno = calls[c].grant]
             /\ calls' = [calls EXCEPT ![c].pc = "lockGet"]
             /\ UNCHANGED <<record, kubelet, exec, rec, events, proc, faults,
                            disturbed>>
    <2> DEFINE p == calls[c].pod
               g == calls[c].grant
               n == [pods[p] EXCEPT !.assigned = "true", !.anno = g]
    <2>1. /\ n \in PodState /\ n.assigned = "true"
          /\ n.phase = pods[p].phase /\ n.exists = pods[p].exists
      <3>1. pods[p] \in PodState /\ g \in Grant
        BY <1>2 DEF LockInv, TypeOK
      <3> HIDE DEF p, g
      <3> QED BY <3>1 DEF PodState
    <2>2. pods' = [pods EXCEPT ![p] = n]
      BY <1>2, <1>4 DEF LockInv, TypeOK
    <2> HIDE DEF n
    <2>3. /\ pods' \in [Pod -> PodState]
          /\ pods'[p].assigned = "true"
          /\ pods[p].exists
          /\ \A q \in Pod : /\ pods'[q].exists = pods[q].exists
                            /\ pods'[q].phase = pods[q].phase
                            /\ q # p => pods'[q] = pods[q]
      BY <1>2, <1>4, <2>1, <2>2 DEF LockInv, TypeOK
    <2>4. /\ calls' \in [Call -> CallState]
          /\ calls'[c].pc = "lockGet" /\ calls'[c].pod = p
          /\ calls'[c].grant = calls[c].grant
          /\ \A d \in Call : d # c => calls'[d] = calls[d]
      BY <1>4 DEF LockInv, TypeOK, CallState
    <2>5. ~disturbed => /\ lock = p
                        /\ \A d \in Call : d # c => calls[d].pc = "idle"
      <3> SUFFICES ASSUME ~disturbed
                   PROVE  /\ lock = p
                          /\ \A d \in Call : d # c => calls[d].pc = "idle"
        OBVIOUS
      <3>1. Unsettled(p)
        BY <1>1, <2>3 DEF LockInv, CallWorksForLockHolder, Unsettled,
                          NeedsUnlock
      <3>2. lock = p
        BY <1>2, <3>1 DEF LockInv, LockIsOfUnsettled
      <3> QED BY <1>1, <3>2 DEF LockInv, OneAdmission
    <2>6. TypeOK'
      BY <1>1, <1>4, <2>3, <2>4 DEF LockInv, TypeOK
    <2>7. CallsKnowTheirPod'
      BY <1>2, <1>4, <2>4 DEF LockInv, CallsKnowTheirPod
    <2>8. RecyclerHandlesDeleted'
      BY <1>2, <1>4, <2>3 DEF LockInv, TypeOK, RecyclerHandlesDeleted,
                              NeedsUnlock, CallsKnowTheirPod
    <2>9. OneAdmission'
      BY <1>1, <1>4, <2>3, <2>4 DEF LockInv, TypeOK, Admission, OneAdmission
    <2>10. CallWorksForLockHolder'
      BY <1>1, <1>2, <1>4, <2>3, <2>4, <2>5
         DEF LockInv, CallWorksForLockHolder
    <2>11. LockIsOfUnsettled'
      <3> SUFFICES ASSUME ~disturbed', NEW q \in Pod, Unsettled(q)'
                   PROVE  lock' = q
        BY DEF LockIsOfUnsettled
      <3>1. q # p
        BY <2>3 DEF Unsettled, NeedsUnlock
      <3>2. Unsettled(q)
        BY <1>4, <2>3, <3>1 DEF Unsettled, NeedsUnlock
      <3> QED BY <1>1, <1>4, <3>2 DEF LockInv, LockIsOfUnsettled
    <2> QED BY <1>4, <2>6, <2>7, <2>8, <2>9, <2>10, <2>11 DEF LockInv
  <1>5. Crash => faults' \in 0..MaxFaults
    BY FaultType DEF LockInv, PatchPod, Crash
  <1> QED BY <1>3, <1>4, <1>5 DEF PatchPod, syncVars

LEMMA GetNodePreserves ==
  ASSUME LockInv, NEW c \in Call, GetNode(c)
  PROVE  LockInv'
  <1>1. /\ calls[c].pc = "lockGet"
        /\ UNCHANGED <<lock, nodeDirty, unfixed, insts, profiles>>
    BY DEF GetNode, driverVars
  <1>2. CASE /\ Assigned(c)
             /\ UNCHANGED <<pods, exec, rec, events, proc, faults, disturbed>>
    <2>1. DataTyped'
      BY <1>1, <1>2, DataTypedNow DEF DataTyped, Assigned
    <2>2. lock' \in Pod \cup {None} /\ nodeDirty' \in BOOLEAN
      BY <1>1 DEF LockInv, TypeOK
    <2> QED BY <1>1, <1>2, <2>1, <2>2, ResponsePreserves DEF Assigned
  <1>3. CASE /\ calls' = [calls EXCEPT ![c].pc = "lockPatch"]
             /\ UNCHANGED <<pods, record, kubelet, exec, rec, events, proc,
                            faults, disturbed>>
    <2>1. calls[c].pod \in Pod /\ calls[c].grant \in Grant
      BY <1>1 DEF LockInv, CallsKnowTheirPod
    <2>2. /\ calls' \in [Call -> CallState]
          /\ calls'[c].pc = "lockPatch" /\ calls'[c].pod = calls[c].pod
          /\ calls'[c].grant = calls[c].grant
          /\ \A d \in Call : d # c => calls'[d] = calls[d]
      BY <1>3 DEF LockInv, TypeOK, CallState
    <2>3. DataTyped'
      BY <1>1, <1>3, DataTypedNow DEF DataTyped
    <2> QED BY <1>1, <1>3, <2>1, <2>2, <2>3, MovePreserves
  <1>4. CASE Fault("api") /\ Crash
    BY <1>1, <1>4, CrashPreserves, FaultType DEF driverVars, LockInv
  <1> QED BY <1>2, <1>3, <1>4 DEF GetNode, syncVars

(* The lock that is released is that of the pod just assigned.              *)
LEMMA PatchNodePreserves ==
  ASSUME LockInv, NEW c \in Call, PatchNode(c)
  PROVE  LockInv'
  <1>1. calls[c].pc = "lockPatch" /\ UNCHANGED <<unfixed, insts, profiles>>
    BY DEF PatchNode, driverVars
  <1>2. CASE /\ lock' = None /\ nodeDirty' = TRUE
             /\ Assigned(c)
             /\ UNCHANGED <<pods, exec, rec, events, proc, faults, disturbed>>
    <2>1. DataTyped'
      BY <1>1, <1>2, DataTypedNow DEF DataTyped, Assigned
    <2>2. ~disturbed => \A p \in Pod : ~Unsettled(p)
      BY <1>1 DEF LockInv, LockIsOfUnsettled, CallWorksForLockHolder,
                  Unsettled, NeedsUnlock
    <2> QED BY <1>1, <1>2, <2>1, <2>2, ResponsePreserves DEF Assigned
  <1>3. CASE /\ Fault("api") \/ UNCHANGED faults
             /\ Crash
             /\ UNCHANGED <<lock, nodeDirty>>
    BY <1>1, <1>3, CrashPreserves, FaultType DEF driverVars, LockInv
  <1> QED BY <1>2, <1>3 DEF PatchNode, syncVars

-----------------------------------------------------------------------------
(* The resync touches only the driver's state and its own.                  *)

LEMMA DriverOnlyPreserves ==
  ASSUME LockInv, DataTyped',
         UNCHANGED <<pods, lock, nodeDirty, unfixed, calls, kubelet, rec,
                     events, proc, disturbed>>
  PROVE  LockInv'
  <1>1. TypeOK'
    BY DEF LockInv, TypeOK, DataTyped
  <1>2. /\ CallsKnowTheirPod' /\ RecyclerHandlesDeleted' /\ OneAdmission'
        /\ CallWorksForLockHolder' /\ LockIsOfUnsettled'
    BY DEF LockInv, CallsKnowTheirPod, RecyclerHandlesDeleted, OneAdmission,
           CallWorksForLockHolder, LockIsOfUnsettled, Unsettled, NeedsUnlock
  <1> QED BY <1>1, <1>2 DEF LockInv

LEMMA ExecPreserves ==
  ASSUME LockInv, ExecStep
  PROVE  LockInv'
  <1>1. UNCHANGED <<pods, lock, nodeDirty, unfixed, record, calls, kubelet,
                    rec, events, proc, disturbed>>
    BY DEF ExecStep, ExecList, ExecSlot, ExecInstances, ExecProfiles, apiVars
  <1>2. faults' \in 0..MaxFaults
    BY FaultType DEF LockInv, ExecStep, ExecList, ExecSlot, ExecInstances,
                     ExecProfiles
  <1>3. insts' \in [Handle -> Pod \cup {None}] /\ profiles' \subseteq Profile
    BY DEF LockInv, TypeOK, ExecStep, ExecList, ExecSlot, ExecInstances,
           ExecProfiles, driverVars
  <1>4. exec \in ExecState /\ profiles \subseteq Profile
    BY DEF LockInv, TypeOK
  <1>5. exec' \in ExecState
    <2>1. CASE ExecList
      <3> DEFINE kept == {p \in Pod : Kept(p)}
                 grants == {pods[p].anno : p \in kept}
                 keep == {g.inst : g \in grants}
                 keepProfiles == {ProfileOf[g.owner] : g \in grants}
      <3>1. grants \subseteq Grant
        BY DEF LockInv, TypeOK, PodState, Kept
      <3>2. keep \subseteq Handle /\ keepProfiles \subseteq Profile
        BY <3>1, ConstantsAssumption DEF Grant
      <3>3. exec' = [IdleExec EXCEPT !.pc = "slot", !.slots = Slot,
                        !.keep = keep, !.keepProfiles = keepProfiles]
        BY <2>1 DEF ExecList
      <3> HIDE DEF keep, keepProfiles
      <3> QED BY <3>2, <3>3 DEF ExecState, IdleExec
    <2>2. CASE ExecSlot
      <3>1. CASE EndExec
        BY <3>1, IdleTypes DEF EndExec
      <3>2. CASE \E s \in exec.slots :
                   exec' = [exec EXCEPT !.slots = @ \ {s}]
        BY <1>4, <3>2 DEF ExecState
      <3>3. CASE \E s \in exec.slots :
                   exec' = [exec EXCEPT !.pc = "instances", !.slot = s,
                              !.slots = @ \ {s},
                              !.todo = {h \in Handle : h[1] = s
                                           /\ insts[h] # None} \ exec.keep]
        <4>1. PICK s \in exec.slots :
                exec' = [exec EXCEPT !.pc = "instances", !.slot = s,
                           !.slots = @ \ {s},
                           !.todo = {h \in Handle : h[1] = s
                                        /\ insts[h] # None} \ exec.keep]
          BY <3>3
        <4> DEFINE t == {h \in Handle : h[1] = s /\ insts[h] # None}
                           \ exec.keep
        <4>2. t \subseteq Handle \cup Profile /\ s \in Slot
          BY <1>4 DEF ExecState
        <4>3. exec' = [exec EXCEPT !.pc = "instances", !.slot = s,
                         !.slots = @ \ {s}, !.todo = t]
          BY <4>1
        <4> HIDE DEF t
        <4> QED BY <1>4, <4>2, <4>3 DEF ExecState
      <3> QED BY <2>2, <3>1, <3>2, <3>3 DEF ExecSlot
    <2>3. CASE ExecInstances
      BY <1>4, <2>3, IdleTypes DEF ExecInstances, EndExec, ExecState
    <2>4. CASE ExecProfiles
      BY <1>4, <2>4 DEF ExecProfiles, ExecState
    <2> QED BY <2>1, <2>2, <2>3, <2>4 DEF ExecStep
  <1>6. DataTyped'
    BY <1>1, <1>2, <1>3, <1>5, DataTypedNow DEF DataTyped
  <1> QED BY <1>1, <1>6, DriverOnlyPreserves

-----------------------------------------------------------------------------
(* The recycler.  A deleted pod stays unsettled from its event to the end   *)
(* of fixNodeLock.                                                          *)

LEMMA RecyclePreserves ==
  ASSUME LockInv, NEW p \in Pod, Recycle(p)
  PROVE  LockInv'
  <1>1. /\ rec.pc = "idle" /\ p \in events /\ events' = events \ {p}
        /\ UNCHANGED <<pods, lock, nodeDirty, unfixed, profiles, record,
                       calls, kubelet, exec, proc, disturbed>>
    BY DEF Recycle, apiVars
  <1>2. /\ rec' \in RecState
        /\ rec'.pod = p /\ rec'.pc \in {"profile", "lockGet"}
    BY DEF Recycle, RecState
  <1>3. insts' \in [Handle -> Pod \cup {None}] /\ faults' \in 0..MaxFaults
    BY FaultType DEF LockInv, TypeOK, Recycle
  <1>4. TypeOK'
    BY <1>1, <1>2, <1>3 DEF LockInv, TypeOK
  <1>5. CallsKnowTheirPod' /\ OneAdmission' /\ CallWorksForLockHolder'
    BY <1>1, <1>2 DEF LockInv, CallsKnowTheirPod, OneAdmission,
                      CallWorksForLockHolder
  <1>6. RecyclerHandlesDeleted'
    BY <1>1, <1>2 DEF LockInv, RecyclerHandlesDeleted
  <1>7. LockIsOfUnsettled'
    BY <1>1, <1>2 DEF LockInv, LockIsOfUnsettled, Unsettled, NeedsUnlock
  <1> QED BY <1>1, <1>4, <1>5, <1>6, <1>7 DEF LockInv

LEMMA RecycleProfilePreserves ==
  ASSUME LockInv, RecycleProfile
  PROVE  LockInv'
  <1>1. rec.pc = "profile" /\ UNCHANGED <<lock, nodeDirty, unfixed, insts>>
    BY DEF RecycleProfile
  <1>2. profiles' \subseteq Profile /\ faults' \in 0..MaxFaults
    BY FaultType DEF LockInv, TypeOK, RecycleProfile
  <1>3. CASE Crash /\ UNCHANGED profiles
    BY <1>1, <1>2, <1>3, CrashPreserves DEF driverVars
  <1>4. CASE /\ rec' = [rec EXCEPT !.pc = "lockGet"]
             /\ UNCHANGED <<pods, record, calls, kubelet, exec, events, proc,
                            disturbed>>
    <2>1. rec' \in RecState /\ rec'.pc = "lockGet" /\ rec'.pod = rec.pod
      BY <1>4 DEF LockInv, TypeOK, RecState
    <2>2. TypeOK'
      BY <1>1, <1>2, <1>4, <2>1 DEF LockInv, TypeOK
    <2>3. /\ CallsKnowTheirPod' /\ RecyclerHandlesDeleted' /\ OneAdmission'
          /\ CallWorksForLockHolder' /\ LockIsOfUnsettled'
      BY <1>1, <1>4, <2>1
         DEF LockInv, CallsKnowTheirPod, RecyclerHandlesDeleted, OneAdmission,
             CallWorksForLockHolder, LockIsOfUnsettled, Unsettled, NeedsUnlock
    <2> QED BY <1>1, <1>4, <2>2, <2>3 DEF LockInv
  <1> QED BY <1>3, <1>4 DEF RecycleProfile

LEMMA FixNodeLockGetPreserves ==
  ASSUME LockInv, FixNodeLockGet
  PROVE  LockInv'
  <1>1. /\ rec.pc = "lockGet"
        /\ UNCHANGED <<pods, lock, insts, profiles, record, calls, kubelet,
                       exec, events, proc, disturbed>>
    BY DEF FixNodeLockGet, driverVars
  <1>2. /\ rec' \in RecState
        /\ \/ rec'.pc = "idle"
           \/ /\ rec'.pc = "lockUpdate" /\ rec'.pod = rec.pod
              /\ NeedsUnlock(rec.pod)
    BY IdleTypes DEF FixNodeLockGet, LockInv, TypeOK, RecState, IdleRec
  <1>3. /\ nodeDirty' \in BOOLEAN
        /\ unfixed' \subseteq Pod
        /\ faults' \in 0..MaxFaults
    BY <1>1, FaultType
       DEF LockInv, TypeOK, CallsKnowTheirPod, FixNodeLockGet
  <1>4. TypeOK'
    BY <1>1, <1>2, <1>3 DEF LockInv, TypeOK
  <1>5. /\ CallsKnowTheirPod' /\ OneAdmission' /\ CallWorksForLockHolder'
        /\ LockIsOfUnsettled'
    BY <1>1, <1>2 DEF LockInv, CallsKnowTheirPod, OneAdmission,
                      CallWorksForLockHolder, LockIsOfUnsettled, Unsettled,
                      NeedsUnlock
  <1>6. RecyclerHandlesDeleted'
    BY <1>1, <1>2 DEF LockInv, RecyclerHandlesDeleted, NeedsUnlock
  <1> QED BY <1>1, <1>4, <1>5, <1>6 DEF LockInv

(* fixNodeLock removes whatever lock there is; undisturbed, it is the       *)
(* deleted pod's own.                                                       *)
LEMMA FixNodeLockUpdatePreserves ==
  ASSUME LockInv, FixNodeLockUpdate
  PROVE  LockInv'
  <1>1. /\ rec.pc = "lockUpdate" /\ rec' = IdleRec
        /\ lock' \in {lock, None}
        /\ UNCHANGED <<pods, insts, profiles, record, calls, kubelet, exec,
                       events, proc, disturbed>>
    BY DEF FixNodeLockUpdate, driverVars
  <1>2. /\ nodeDirty' \in BOOLEAN
        /\ unfixed' \subseteq Pod
        /\ faults' \in 0..MaxFaults
    BY <1>1, FaultType
       DEF LockInv, TypeOK, CallsKnowTheirPod, FixNodeLockUpdate
  <1>3. TypeOK'
    BY <1>1, <1>2, IdleTypes DEF LockInv, TypeOK
  <1>4. CallsKnowTheirPod' /\ RecyclerHandlesDeleted' /\ OneAdmission'
    BY <1>1 DEF LockInv, CallsKnowTheirPod, RecyclerHandlesDeleted,
                OneAdmission, IdleRec
  <1>5. /\ rec.pod \in Pod /\ NeedsUnlock(rec.pod)
        /\ ~pods[rec.pod].exists /\ rec.pod \notin events
    BY <1>1 DEF LockInv, CallsKnowTheirPod, RecyclerHandlesDeleted
  <1>6. ~disturbed => lock = rec.pod
    BY <1>1, <1>5 DEF LockInv, LockIsOfUnsettled, Unsettled
  <1>7. CallWorksForLockHolder'
    BY <1>1, <1>5, <1>6 DEF LockInv, CallWorksForLockHolder, NeedsUnlock
  <1>8. LockIsOfUnsettled'
    <2> SUFFICES ASSUME ~disturbed', NEW q \in Pod, Unsettled(q)'
                 PROVE  lock' = q
      BY DEF LockIsOfUnsettled
    <2>1. Unsettled(q) /\ q # rec.pod
      BY <1>1, <1>5 DEF Unsettled, NeedsUnlock, IdleRec
    <2>2. lock = q
      BY <1>1, <2>1 DEF LockInv, LockIsOfUnsettled
    <2> QED BY <1>1, <1>6, <2>1, <2>2
  <1> QED BY <1>1, <1>3, <1>4, <1>7, <1>8 DEF LockInv

LEMMA TombstonePreserves ==
  ASSUME LockInv, RecycleTombstone
  PROVE  LockInv'
  <1>1. Crash /\ UNCHANGED <<lock, nodeDirty, unfixed, driverVars>>
    BY DEF RecycleTombstone
  <1>2. faults' \in 0..MaxFaults
    BY FaultType DEF LockInv, RecycleTombstone
  <1> QED BY <1>1, <1>2, CrashPreserves

-----------------------------------------------------------------------------
LEMMA StepPreserves == LockInv /\ [Next]_vars => LockInv'
  <1> SUFFICES ASSUME LockInv, [Next]_vars PROVE LockInv'
    OBVIOUS
  <1>1. ASSUME NEW p \in Pod, Bind(p) \/ Finish(p) \/ Delete(p)
        PROVE  LockInv'
    BY <1>1, BindPreserves, FinishPreserves, DeletePreserves
  <1>2. CASE KubeletStep
    BY <1>2, AllocatePreserves, VerdictPreserves DEF KubeletStep
  <1>3. ASSUME NEW c \in Call, HandlerStep(c)
        PROVE  LockInv'
    BY <1>3, ListPreserves, FindProfilePreserves, CreateInstancePreserves,
       MatchInfoPreserves, PatchPodPreserves, GetNodePreserves,
       PatchNodePreserves DEF HandlerStep
  <1>4. CASE ExecStep
    BY <1>4, ExecPreserves
  <1>5. CASE RecyclerStep
    BY <1>5, RecyclePreserves, RecycleProfilePreserves,
       FixNodeLockGetPreserves, FixNodeLockUpdatePreserves DEF RecyclerStep
  <1>6. CASE RecycleTombstone
    BY <1>6, TombstonePreserves
  <1>7. CASE StartProcess \/ RestartPlugins
    BY <1>7, RestartPreserves
  <1>8. CASE UNCHANGED vars
    <2>1. DataTyped'
      BY <1>8, DataTypedNow DEF vars, DataTyped
    <2> QED BY <1>8, <2>1, DriverOnlyPreserves DEF vars
  <1> QED BY <1>1, <1>2, <1>3, <1>4, <1>5, <1>6, <1>7, <1>8 DEF Next

(* The strengthened invariant of the node lock holds in every reachable     *)
(* state, for any pods, cards, handlers and faults.                         *)
THEOREM LockInductive == Spec => []LockInv
  BY InitEstablishes, StepPreserves, PTL DEF Spec

(* Every variable keeps its type.                                           *)
THEOREM TypeCorrect == Spec => []TypeOK
  <1>1. LockInv => TypeOK
    BY DEF LockInv
  <1> QED BY <1>1, LockInductive, PTL

(* Until the plugin is restarted or dies, a pod waiting to be assigned      *)
(* holds the node lock (getDynamicSmluCandidatePod relies on it: Allocate   *)
(* is not told the pod).                                                    *)
THEOREM NodeLockProtectsCandidate == Spec => []LockProtectsCandidate
  <1>1. LockInv => LockProtectsCandidate
    BY DEF LockInv, LockIsOfUnsettled, LockProtectsCandidate, Unsettled,
           NeedsUnlock, Candidate, Pending, OnNode
  <1> QED BY <1>1, LockInductive, PTL

(* There is never a second candidate, so the search of                      *)
(* getDynamicSmluCandidatePod for exactly one does not fail for want of a   *)
(* lock.                                                                    *)
THEOREM AtMostOneCandidate ==
  Spec => [](~disturbed => \A p, q \in Pod :
                              Candidate(p) /\ Candidate(q) => p = q)
  <1>1. LockProtectsCandidate =>
          (~disturbed => \A p, q \in Pod :
                            Candidate(p) /\ Candidate(q) => p = q)
    BY DEF LockProtectsCandidate
  <1> QED BY <1>1, NodeLockProtectsCandidate, PTL

-----------------------------------------------------------------------------
(* A pod's annotation names its own instance.                               *)

LEMMA RecordFacts ==
  ASSUME LockInv, record # None
  PROVE  record \in Record /\ record.grant \in Grant /\ record.grant.owner \in Pod
  BY DEF LockInv, TypeOK, Record, Grant

LEMMA InitOwnership == Init => Ownership
  <1> SUFFICES ASSUME Init PROVE Ownership
    OBVIOUS
  <1>1. AnnotationIsOwn
    BY DEF Init, AnnotationIsOwn
  <1>2. RecordIsOfUnassigned /\ CallsFollowRecord /\ AdmissionServesItsPod
    BY DEF Init, RecordIsOfUnassigned, CallsFollowRecord, IdleCall,
           AdmissionServesItsPod, NoPod
  <1> QED BY <1>1, <1>2 DEF Ownership

(* The resync, the recycler and a new process leave all of it alone.        *)
LEMMA OwnershipUntouched ==
  ASSUME Ownership, UNCHANGED <<pods, record, calls, kubelet>>
  PROVE  Ownership'
  BY DEF Ownership, AnnotationIsOwn, RecordIsOfUnassigned, CallsFollowRecord,
         AdmissionServesItsPod, Forsaken, HasRecord, Candidate, Pending, OnNode

-----------------------------------------------------------------------------
(* The scheduler and the owners of the pods.                                *)

LEMMA BindKeepsOwnership ==
  ASSUME LockInv, Ownership, NEW p \in Pod, Bind(p)
  PROVE  Ownership'
  <1>1. /\ pods[p].phase = "New" /\ pods[p].exists
        /\ UNCHANGED <<record, calls, kubelet>>
    BY DEF Bind
  <1>2. /\ pods'[p].phase = "Pending" /\ pods'[p].assigned = "false"
        /\ pods'[p].anno = pods[p].anno /\ pods'[p].exists = pods[p].exists
        /\ \A q \in Pod : q # p => pods'[q] = pods[q]
    BY DEF Bind, LockInv, TypeOK, PodState
  <1>3. pods[p].assigned = "none" /\ pods[p].anno = None
    BY <1>1 DEF Ownership, AnnotationIsOwn
  <1>4. AnnotationIsOwn'
    <2> SUFFICES ASSUME NEW q \in Pod
                 PROVE  /\ pods'[q].phase = "New" <=> pods'[q].assigned = "none"
                        /\ pods'[q].assigned = "true" <=> pods'[q].anno # None
                        /\ pods'[q].phase \in {"Running", "Succeeded"}
                             => pods'[q].anno # None
                        /\ pods'[q].anno # None =>
                             \/ pods'[q].anno.owner = q
                             \/ Forsaken(pods[q].anno.owner, q)'
      BY <1>2, <1>3 DEF AnnotationIsOwn
    <2>1. CASE q = p
      BY <1>2, <1>3, <2>1
    <2>2. CASE q # p
      <3>1. pods'[q] = pods[q]
        BY <1>2, <2>2
      <3>2. pods[q].anno # None => pods[q].anno.owner \in Pod
        BY DEF LockInv, TypeOK, PodState, Grant
      <3>3. pods[q].anno # None /\ Forsaken(pods[q].anno.owner, q)
              => Forsaken(pods[q].anno.owner, q)'
        BY <1>2, <1>3, <3>1, <3>2 DEF Forsaken
      <3> QED BY <3>1, <3>3 DEF Ownership, AnnotationIsOwn
    <2> QED BY <2>1, <2>2
  <1>5. RecordIsOfUnassigned'
    BY <1>1, <1>2, RecordFacts DEF Ownership, RecordIsOfUnassigned, HasRecord
  <1>6. CallsFollowRecord'
    BY <1>1, <1>2 DEF Ownership, CallsFollowRecord, HasRecord, LockInv,
                      CallsKnowTheirPod
  <1>7. AdmissionServesItsPod'
    <2>1. kubelet.pod # None => kubelet.pod \in Pod /\ kubelet.pod # p
      BY <1>1 DEF LockInv, OneAdmission, TypeOK, Admission
    <2> QED BY <1>1, <1>2, <2>1
            DEF Ownership, AdmissionServesItsPod, HasRecord, Candidate,
                Pending, OnNode
  <1> QED BY <1>4, <1>5, <1>6, <1>7 DEF Ownership

(* A phase reported for one pod changes nothing about who owns what, if     *)
(* only an annotated pod is reported running.                               *)
LEMMA PhaseKeepsAnnotations ==
  ASSUME LockInv, Ownership, NEW k \in Pod, NEW phase \in {"Running", "Succeeded", "Failed"},
         pods[k].phase # "New",
         pods[k].exists /\ phase # "Failed" => pods[k].anno # None,
         \A p \in Pod : /\ pods'[p].assigned = pods[p].assigned
                        /\ pods'[p].anno = pods[p].anno
                        /\ pods'[p].exists = pods[p].exists
                        /\ \/ pods'[p].phase = pods[p].phase
                           \/ p = k /\ pods[p].exists /\ pods'[p].phase = phase
  PROVE  AnnotationIsOwn'
  <1> SUFFICES ASSUME NEW q \in Pod
               PROVE  /\ pods'[q].phase = "New" <=> pods'[q].assigned = "none"
                      /\ pods'[q].assigned = "true" <=> pods'[q].anno # None
                      /\ pods'[q].phase \in {"Running", "Succeeded"}
                           => pods'[q].anno # None
                      /\ pods'[q].anno # None =>
                           \/ pods'[q].anno.owner = q
                           \/ Forsaken(pods[q].anno.owner, q)'
    BY DEF AnnotationIsOwn
  <1>1. pods[q].anno # None => pods[q].anno.owner \in Pod
    BY DEF LockInv, TypeOK, PodState, Grant
  <1>2. pods[q].anno # None /\ Forsaken(pods[q].anno.owner, q)
          => Forsaken(pods[q].anno.owner, q)'
    BY <1>1 DEF Forsaken
  <1> QED BY <1>2 DEF Ownership, AnnotationIsOwn

LEMMA FinishKeepsOwnership ==
  ASSUME LockInv, Ownership, NEW p \in Pod, Finish(p)
  PROVE  Ownership'
  <1>1. /\ pods[p].phase = "Running" /\ UNCHANGED <<record, calls, kubelet>>
    BY DEF Finish
  <1>2. \A q \in Pod : /\ pods'[q].assigned = pods[q].assigned
                       /\ pods'[q].anno = pods[q].anno
                       /\ pods'[q].exists = pods[q].exists
                       /\ \/ pods'[q].phase = pods[q].phase
                          \/ q = p /\ pods[q].exists /\ pods'[q].phase = "Succeeded"
    BY DEF Finish, OnNode, LockInv, TypeOK, PodState
  <1>3. AnnotationIsOwn'
    <2>1. pods[p].anno # None
      BY <1>1 DEF Ownership, AnnotationIsOwn
    <2> QED BY <1>1, <1>2, <2>1, PhaseKeepsAnnotations
  <1>4. RecordIsOfUnassigned'
    BY <1>1, <1>2, RecordFacts DEF Ownership, RecordIsOfUnassigned, HasRecord
  <1>5. CallsFollowRecord'
    BY <1>1, <1>2 DEF Ownership, CallsFollowRecord, HasRecord, LockInv,
                      CallsKnowTheirPod
  <1>6. AdmissionServesItsPod'
    <2>1. kubelet.pod # None =>
            kubelet.pod \in Pod /\ pods[kubelet.pod].phase = "Pending"
      BY DEF LockInv, OneAdmission, TypeOK, Admission
    <2> QED BY <1>1, <1>2, <2>1
            DEF Ownership, AdmissionServesItsPod, HasRecord, Candidate,
                Pending, OnNode
  <1> QED BY <1>3, <1>4, <1>5, <1>6 DEF Ownership

(* A deletion can only forsake a pod.                                       *)
LEMMA DeleteKeepsOwnership ==
  ASSUME LockInv, Ownership, NEW p \in Pod, Delete(p)
  PROVE  Ownership'
  <1>1. UNCHANGED <<record, calls, kubelet>>
    BY DEF Delete
  <1>2. \A q \in Pod : /\ pods'[q].assigned = pods[q].assigned
                       /\ pods'[q].anno = pods[q].anno
                       /\ pods'[q].phase = pods[q].phase
                       /\ pods'[q].exists => pods[q].exists
    BY DEF Delete, LockInv, TypeOK, PodState
  <1>3. AnnotationIsOwn'
    <2> SUFFICES ASSUME NEW q \in Pod
                 PROVE  /\ pods'[q].phase = "New" <=> pods'[q].assigned = "none"
                        /\ pods'[q].assigned = "true" <=> pods'[q].anno # None
                        /\ pods'[q].phase \in {"Running", "Succeeded"}
                             => pods'[q].anno # None
                        /\ pods'[q].anno # None =>
                             \/ pods'[q].anno.owner = q
                             \/ Forsaken(pods[q].anno.owner, q)'
      BY <1>2 DEF AnnotationIsOwn
    <2>1. pods[q].anno # None => pods[q].anno.owner \in Pod
      BY DEF LockInv, TypeOK, PodState, Grant
    <2>2. pods[q].anno # None /\ Forsaken(pods[q].anno.owner, q)
            => Forsaken(pods[q].anno.owner, q)'
      BY <1>2, <2>1 DEF Forsaken, LockInv, TypeOK, PodState
    <2> QED BY <1>2, <2>2 DEF Ownership, AnnotationIsOwn
  <1>4. RecordIsOfUnassigned'
    BY <1>1, <1>2, RecordFacts DEF Ownership, RecordIsOfUnassigned, HasRecord
  <1>5. CallsFollowRecord'
    BY <1>1, <1>2 DEF Ownership, CallsFollowRecord, HasRecord, LockInv,
                      CallsKnowTheirPod
  <1>6. AdmissionServesItsPod'
    <2>1. kubelet.pod # None => kubelet.pod \in Pod
      BY DEF LockInv, TypeOK, Admission
    <2> QED BY <1>1, <1>2, <2>1
            DEF Ownership, AdmissionServesItsPod, HasRecord, Candidate,
                Pending, OnNode
  <1> QED BY <1>3, <1>4, <1>5, <1>6 DEF Ownership

-----------------------------------------------------------------------------
(* The kubelet.                                                             *)

LEMMA AllocateKeepsOwnership ==
  ASSUME LockInv, Ownership, ~disturbed, NEW p \in Pod, Allocate(p)
  PROVE  Ownership'
  <1>1. PICK c \in Call :
          /\ calls[c].pc = "idle"
          /\ calls' = [calls EXCEPT ![c].pc = "list"]
          /\ kubelet' = [kubelet EXCEPT !.pod = p, !.call = c]
    BY DEF Allocate
  <1>2. /\ kubelet.call = None
        /\ \/ kubelet.pod = None
           \/ kubelet.pod = p /\ kubelet.granted = 1
        /\ UNCHANGED <<pods, record>>
    BY DEF Allocate, apiVars
  <1>3. /\ calls'[c].pc = "list"
        /\ \A d \in Call : d # c => calls'[d] = calls[d]
    BY <1>1 DEF LockInv, TypeOK, CallState
  <1>4. kubelet'.pod = p /\ kubelet'.granted = kubelet.granted
    BY <1>1 DEF LockInv, TypeOK, Admission
  <1>5. \A d \in Call : calls[d].pc = "idle"
    BY <1>2, ConstantsAssumption DEF LockInv, OneAdmission
  <1>6. AnnotationIsOwn'
    BY <1>2 DEF Ownership, AnnotationIsOwn, Forsaken
  <1>7. RecordIsOfUnassigned'
    BY <1>2, <1>5 DEF Ownership, RecordIsOfUnassigned, HasRecord
  <1>8. CallsFollowRecord'
    BY <1>3, <1>5 DEF CallsFollowRecord
  <1>9. AdmissionServesItsPod'
    <2>1. \A d \in Call : calls'[d].pc \in {"idle", "list"}
      BY <1>3, <1>5
    <2>2. kubelet.granted > 0 => kubelet.pod = p
      BY <1>2 DEF LockInv, OneAdmission
    <2>3. p # None /\ kubelet.granted \in 0..2
      BY ConstantsAssumption DEF LockInv, TypeOK, Admission
    <2> QED BY <1>2, <1>4, <2>1, <2>2, <2>3
            DEF Ownership, AdmissionServesItsPod, HasRecord, Candidate,
                Pending, OnNode
  <1> QED BY <1>6, <1>7, <1>8, <1>9 DEF Ownership

(* Whom the kubelet starts was granted twice: it is assigned or gone.       *)
LEMMA VerdictKeepsOwnership ==
  ASSUME LockInv, Ownership, ~disturbed, Reject \/ StartContainers
  PROVE  Ownership'
  <1>1. /\ kubelet.pod \in Pod
        /\ pods[kubelet.pod].phase = "Pending"
        /\ kubelet.call = None
    BY DEF LockInv, TypeOK, Admission, OneAdmission, Reject, StartContainers
  <1>2. PICK phase \in {"Running", "Failed"} :
          /\ Report(phase)
          /\ phase = "Running" => kubelet.granted = 2
    BY DEF Reject, StartContainers
  <1>3. \A q \in Pod :
          /\ pods'[q].assigned = pods[q].assigned
          /\ pods'[q].anno = pods[q].anno
          /\ pods'[q].exists = pods[q].exists
          /\ \/ pods'[q].phase = pods[q].phase
             \/ q = kubelet.pod /\ pods[q].exists /\ pods'[q].phase = phase
    BY <1>1, <1>2, ReportEffect DEF LockInv
  <1>4. kubelet' = NoPod /\ UNCHANGED <<record, calls>>
    BY DEF Reject, StartContainers
  <1>5. AnnotationIsOwn'
    <2>1. pods[kubelet.pod].exists /\ phase # "Failed"
            => pods[kubelet.pod].anno # None
      <3>1. kubelet.granted = 2 => ~Candidate(kubelet.pod)
        BY <1>1, ConstantsAssumption DEF Ownership, AdmissionServesItsPod
      <3>2. pods[kubelet.pod].assigned \in {"none", "false", "true"}
        BY <1>1 DEF LockInv, TypeOK, PodState
      <3> QED BY <1>1, <1>2, <3>1, <3>2
              DEF Candidate, Pending, OnNode, Ownership, AnnotationIsOwn
    <2> QED BY <1>1, <1>3, <2>1, PhaseKeepsAnnotations
  <1>6. RecordIsOfUnassigned'
    BY <1>3, <1>4, RecordFacts DEF Ownership, RecordIsOfUnassigned, HasRecord
  <1>7. CallsFollowRecord'
    BY <1>3, <1>4 DEF Ownership, CallsFollowRecord, HasRecord, LockInv,
                      CallsKnowTheirPod
  <1>8. AdmissionServesItsPod'
    BY <1>4 DEF AdmissionServesItsPod, NoPod
  <1> QED BY <1>5, <1>6, <1>7, <1>8 DEF Ownership

-----------------------------------------------------------------------------
(* allocateDynamicSmlu.  Undisturbed, the call the kubelet waits for is the *)
(* only one.                                                                *)

LEMMA OnlyCall ==
  ASSUME LockInv, ~disturbed, NEW c \in Call, calls[c].pc # "idle"
  PROVE  /\ kubelet.call = c
         /\ kubelet.pod \in Pod /\ pods[kubelet.pod].phase = "Pending"
         /\ kubelet.granted \in {0, 1}
         /\ \A d \in Call : d # c => calls[d].pc = "idle"
  <1>1. kubelet.call = c /\ \A d \in Call : d # c => calls[d].pc = "idle"
    BY DEF LockInv, OneAdmission
  <1>2. kubelet.pod # None /\ kubelet.granted < 2
    BY <1>1, ConstantsAssumption DEF LockInv, OneAdmission
  <1> QED BY <1>1, <1>2 DEF LockInv, OneAdmission, TypeOK, Admission

LEMMA ErrorKeepsOwnership ==
  ASSUME LockInv, Ownership, ~disturbed, NEW c \in Call,
         calls[c].pc \notin {"idle", "lockGet", "lockPatch"},
         ReturnError(c), record' \in {record, None}
  PROVE  Ownership'
  <1>1. /\ kubelet.call = c /\ kubelet.pod \in Pod
        /\ pods[kubelet.pod].phase = "Pending"
        /\ \A d \in Call : d # c => calls[d].pc = "idle"
    BY OnlyCall
  <1>2. /\ calls' = [calls EXCEPT ![c] = IdleCall]
        /\ Report("Failed") /\ kubelet' = NoPod
    BY <1>1 DEF ReturnError
  <1>3. \A d \in Call : calls'[d].pc = "idle"
    BY <1>1, <1>2 DEF IdleCall, LockInv, TypeOK
  <1>4. \A q \in Pod :
          /\ pods'[q].assigned = pods[q].assigned
          /\ pods'[q].anno = pods[q].anno
          /\ pods'[q].exists = pods[q].exists
          /\ \/ pods'[q].phase = pods[q].phase
             \/ q = kubelet.pod /\ pods[q].exists /\ pods'[q].phase = "Failed"
    BY <1>1, <1>2, ReportEffect DEF LockInv
  <1>5. AnnotationIsOwn'
    BY <1>1, <1>4, PhaseKeepsAnnotations
  <1>6. RecordIsOfUnassigned'
    BY <1>1, <1>4, RecordFacts DEF Ownership, RecordIsOfUnassigned, HasRecord
  <1>7. CallsFollowRecord' /\ AdmissionServesItsPod'
    BY <1>2, <1>3 DEF CallsFollowRecord, AdmissionServesItsPod, NoPod
  <1> QED BY <1>5, <1>6, <1>7 DEF Ownership

(* A response raises granted by one and leaves no call.                     *)
LEMMA ResponseCounts ==
  ASSUME LockInv, ~disturbed, NEW c \in Call, calls[c].pc # "idle",
         ReturnResponse(c)
  PROVE  /\ kubelet'.pod = kubelet.pod
         /\ kubelet'.granted = kubelet.granted + 1
         /\ \A d \in Call : calls'[d].pc = "idle"
  <1>1. /\ kubelet.call = c
        /\ \A d \in Call : d # c => calls[d].pc = "idle"
    BY OnlyCall
  <1>2. /\ calls' = [calls EXCEPT ![c] = IdleCall]
        /\ kubelet' = [kubelet EXCEPT !.granted = @ + 1, !.call = None]
    BY <1>1 DEF ReturnResponse
  <1>3. \A d \in Call : calls'[d].pc = "idle"
    BY <1>1, <1>2 DEF IdleCall, LockInv, TypeOK
  <1>4. kubelet'.pod = kubelet.pod /\ kubelet'.granted = kubelet.granted + 1
    BY <1>2 DEF LockInv, TypeOK, Admission
  <1> QED BY <1>3, <1>4

(* The second answer: the pod served is assigned, and no record is left.    *)
LEMMA AssignedKeepsOwnership ==
  ASSUME LockInv, Ownership, ~disturbed, NEW c \in Call,
         calls[c].pc \in {"lockGet", "lockPatch"}, Assigned(c), UNCHANGED pods
  PROVE  Ownership'
  <1>1. /\ record' = None /\ kubelet'.pod = kubelet.pod
        /\ \A d \in Call : calls'[d].pc = "idle"
    BY ResponseCounts DEF Assigned
  <1>2. AnnotationIsOwn'
    BY DEF Ownership, AnnotationIsOwn, Forsaken
  <1>3. RecordIsOfUnassigned' /\ CallsFollowRecord'
    BY <1>1 DEF RecordIsOfUnassigned, CallsFollowRecord
  <1>4. AdmissionServesItsPod'
    <2>1. pods[calls[c].pod].assigned = "true"
      BY DEF LockInv, CallWorksForLockHolder
    <2>2. kubelet.pod # None => ~Candidate(kubelet.pod)
      BY <2>1 DEF Ownership, AdmissionServesItsPod, Candidate
    <2> QED BY <1>1, <2>2
            DEF AdmissionServesItsPod, Candidate, Pending, OnNode
  <1> QED BY <1>2, <1>3, <1>4 DEF Ownership

(* A call that goes on, with the record and the pods as they were.          *)
LEMMA MoveKeepsOwnership ==
  ASSUME LockInv, Ownership, ~disturbed, NEW c \in Call, calls[c].pc # "idle",
         \A d \in Call : d # c => calls'[d] = calls[d],
         UNCHANGED <<pods, record, kubelet>>,
         calls[c].pc \in {"lockGet", "lockPatch"}
            => calls'[c].pc \in {"lockGet", "lockPatch"},
         calls'[c].pc \in {"profile", "create", "info"} =>
            pods[calls'[c].pod].assigned = "false" /\ ~HasRecord(calls'[c].pod),
         calls'[c].pc = "info" => calls'[c].grant.owner = calls'[c].pod,
         calls'[c].pc = "patch" =>
            HasRecord(calls'[c].pod) /\ calls'[c].grant = record.grant,
         Candidate(kubelet.pod) => calls'[c].pod = kubelet.pod
  PROVE  Ownership'
  <1>1. \A d \in Call : d # c => calls'[d].pc = "idle"
    BY OnlyCall
  <1>2. AnnotationIsOwn'
    BY DEF Ownership, AnnotationIsOwn, Forsaken
  <1>3. RecordIsOfUnassigned'
    <2>1. ASSUME NEW d \in Call, calls[d].pc \in {"lockGet", "lockPatch"}
          PROVE  calls'[c].pc \in {"lockGet", "lockPatch"}
      BY <2>1, OnlyCall
    <2> QED BY <2>1 DEF Ownership, RecordIsOfUnassigned, HasRecord
  <1>4. CallsFollowRecord'
    BY <1>1 DEF CallsFollowRecord, HasRecord
  <1>5. AdmissionServesItsPod'
    BY <1>1 DEF Ownership, AdmissionServesItsPod, HasRecord, Candidate,
                Pending, OnNode
  <1> QED BY <1>2, <1>3, <1>4, <1>5 DEF Ownership

(* The candidate List finds is the pod under admission, if that one waits.  *)
LEMMA ListKeepsOwnership ==
  ASSUME LockInv, Ownership, ~disturbed, NEW c \in Call, List(c)
  PROVE  Ownership'
  <1>1. calls[c].pc = "list"
    BY DEF List
  <1>2. CASE ReturnError(c) /\ record' \in {record, None}
    BY <1>1, <1>2, ErrorKeepsOwnership
  <1>3. ASSUME NEW p \in Pod, Candidate(p),
               UNCHANGED <<record, pods, kubelet>>,
               \/ /\ HasRecord(p)
                  /\ calls' = [calls EXCEPT ![c].pc = "patch", ![c].pod = p,
                                            ![c].grant = record.grant]
               \/ /\ ~HasRecord(p)
                  /\ calls' = [calls EXCEPT ![c].pc = "profile", ![c].pod = p]
        PROVE  Ownership'
    <2>1. /\ \A d \in Call : d # c => calls'[d] = calls[d]
          /\ calls'[c].pod = p
          /\ \/ /\ HasRecord(p)
                /\ calls'[c].pc = "patch" /\ calls'[c].grant = record.grant
             \/ ~HasRecord(p) /\ calls'[c].pc = "profile"
      BY <1>3 DEF LockInv, TypeOK, CallState
    <2>2. pods[p].assigned = "false"
      BY <1>3 DEF Candidate
    <2>3. Candidate(kubelet.pod) => kubelet.pod = p
      <3>1. kubelet.pod \in Pod
        BY <1>1, OnlyCall
      <3> QED BY <1>3, <3>1
              DEF LockInv, LockIsOfUnsettled, Unsettled, NeedsUnlock,
                  Candidate, Pending, OnNode
    <2> QED BY <1>1, <1>3, <2>1, <2>2, <2>3, MoveKeepsOwnership
  <1>4. \/ ReturnError(c) /\ record' \in {record, None}
        \/ \E p \in Pod :
              /\ Candidate(p)
              /\ UNCHANGED <<record, pods, kubelet>>
              /\ \/ /\ HasRecord(p)
                    /\ calls' = [calls EXCEPT ![c].pc = "patch", ![c].pod = p,
                                              ![c].grant = record.grant]
                 \/ /\ ~HasRecord(p)
                    /\ calls' = [calls EXCEPT ![c].pc = "profile", ![c].pod = p]
    BY DEF List, NoCandidate, HasRecord
  <1> QED BY <1>2, <1>3, <1>4

(* What a call that looks for an instance knows when it goes on.            *)
LEMMA CallFacts ==
  ASSUME LockInv, Ownership, ~disturbed, NEW c \in Call,
         calls[c].pc \notin {"idle", "list"}
  PROVE  /\ calls[c].pod \in Pod
         /\ Candidate(kubelet.pod) => calls[c].pod = kubelet.pod
         /\ calls[c].pc \in {"profile", "create", "info"} =>
              /\ pods[calls[c].pod].assigned = "false"
              /\ ~HasRecord(calls[c].pod)
  <1>1. kubelet.pod \in Pod
    BY OnlyCall
  <1> QED BY <1>1, ConstantsAssumption
          DEF LockInv, CallsKnowTheirPod, Ownership, AdmissionServesItsPod,
              CallsFollowRecord

LEMMA FindProfileKeepsOwnership ==
  ASSUME LockInv, Ownership, ~disturbed, NEW c \in Call, FindProfile(c),
         ~disturbed'
  PROVE  Ownership'
  <1>1. calls[c].pc = "profile" /\ UNCHANGED record
    BY DEF FindProfile, Crash
  <1>2. CASE ReturnError(c)
    BY <1>1, <1>2, ErrorKeepsOwnership
  <1>3. CASE /\ calls' = [calls EXCEPT ![c].pc = "create"]
             /\ UNCHANGED <<pods, kubelet>>
    <2>1. /\ \A d \in Call : d # c => calls'[d] = calls[d]
          /\ calls'[c].pc = "create" /\ calls'[c].pod = calls[c].pod
      BY <1>3 DEF LockInv, TypeOK, CallState
    <2> QED BY <1>1, <1>3, <2>1, CallFacts, MoveKeepsOwnership
  <1> QED BY <1>2, <1>3 DEF FindProfile, Crash

LEMMA CreateInstanceKeepsOwnership ==
  ASSUME LockInv, Ownership, ~disturbed, NEW c \in Call, CreateInstance(c)
  PROVE  Ownership'
  <1>1. calls[c].pc = "create" /\ UNCHANGED record
    BY DEF CreateInstance
  <1>2. CASE ReturnError(c)
    BY <1>1, <1>2, ErrorKeepsOwnership
  <1>3. CASE /\ \E h \in Handle :
                  calls' = [calls EXCEPT ![c].pc = "info",
                               ![c].grant = [inst |-> h, owner |-> calls[c].pod]]
             /\ UNCHANGED <<pods, kubelet>>
    <2>1. /\ \A d \in Call : d # c => calls'[d] = calls[d]
          /\ calls'[c].pc = "info" /\ calls'[c].pod = calls[c].pod
          /\ calls'[c].grant.owner = calls[c].pod
      BY <1>3 DEF LockInv, TypeOK, CallState
    <2> QED BY <1>1, <1>3, <2>1, CallFacts, MoveKeepsOwnership
  <1> QED BY <1>2, <1>3 DEF CreateInstance

(* The first answer: the record is of the pod served, which is the pod      *)
(* under admission if that one waits, and had no record before.             *)
LEMMA MatchInfoKeepsOwnership ==
  ASSUME LockInv, Ownership, ~disturbed, NEW c \in Call, MatchInfo(c)
  PROVE  Ownership'
  <1> DEFINE p == calls[c].pod
  <1>1. calls[c].pc = "info"
    BY DEF MatchInfo
  <1>2. CASE ReturnError(c) /\ UNCHANGED record
    BY <1>1, <1>2, ErrorKeepsOwnership
  <1>3. CASE /\ record' = [name |-> NameOf[p], grant |-> calls[c].grant]
             /\ ReturnResponse(c)
             /\ UNCHANGED pods
    <2>1. /\ kubelet'.pod = kubelet.pod
          /\ kubelet'.granted = kubelet.granted + 1
          /\ \A d \in Call : calls'[d].pc = "idle"
      BY <1>1, <1>3, ResponseCounts
    <2>2. /\ p \in Pod /\ pods[p].assigned = "false" /\ ~HasRecord(p)
          /\ Candidate(kubelet.pod) => p = kubelet.pod
      BY <1>1, CallFacts
    <2>3. calls[c].grant \in Grant /\ calls[c].grant.owner = p
      BY <1>1 DEF LockInv, CallsKnowTheirPod, Ownership, CallsFollowRecord
    <2>4. record' # None
      BY <1>3, <2>2, <2>3, ConstantsAssumption DEF Record
    <2>5. record'.name = NameOf[p] /\ record'.grant.owner = p
      BY <1>3, <2>3
    <2>6. AnnotationIsOwn'
      BY <1>3 DEF Ownership, AnnotationIsOwn, Forsaken
    <2>7. RecordIsOfUnassigned'
      BY <1>3, <2>2, <2>4, <2>5 DEF RecordIsOfUnassigned, HasRecord
    <2>8. CallsFollowRecord'
      BY <2>1 DEF CallsFollowRecord
    <2>9. AdmissionServesItsPod'
      <3>1. kubelet.pod \in Pod /\ kubelet.granted \in {0, 1}
        BY <1>1, OnlyCall
      <3>2. Candidate(kubelet.pod) => kubelet.granted = 0
        BY <2>2, <3>1, ConstantsAssumption DEF Ownership, AdmissionServesItsPod
      <3>3. Candidate(kubelet.pod) => HasRecord(kubelet.pod)'
        BY <2>1, <2>2, <2>4, <2>5 DEF HasRecord
      <3> QED BY <1>3, <2>1, <3>2, <3>3
              DEF AdmissionServesItsPod, Candidate, Pending, OnNode, HasRecord
    <2> QED BY <2>6, <2>7, <2>8, <2>9 DEF Ownership
  <1> QED BY <1>2, <1>3 DEF MatchInfo

(* The annotation: what the record names was created for the pod, or for a  *)
(* namesake without an assignment, which cannot be there any more: it would *)
(* hold the lock, and the pod holds it.                                     *)
LEMMA RecordIsOwnOrForsaken ==
  ASSUME LockInv, Ownership, ~disturbed, NEW c \in Call, calls[c].pc = "patch",
         pods[calls[c].pod].exists
  PROVE  LET p == calls[c].pod
             o == calls[c].grant.owner
         IN  /\ p \in Pod /\ o \in Pod /\ calls[c].grant \in Grant
             /\ pods[p].phase = "Pending" /\ pods[p].assigned = "false"
             /\ o = p \/ Forsaken(o, p)
  <1> DEFINE p == calls[c].pod
             o == calls[c].grant.owner
  <1>1. /\ p \in Pod
        /\ calls[c].grant = record.grant /\ record # None
        /\ record.name = NameOf[p]
        /\ pods[p].phase = "Pending" /\ pods[p].assigned = "false"
    BY DEF LockInv, CallsKnowTheirPod, CallWorksForLockHolder, Ownership,
           CallsFollowRecord, HasRecord
  <1>2. calls[c].grant \in Grant /\ o \in Pod
    BY <1>1, RecordFacts
  <1>3. \A d \in Call : calls[d].pc \notin {"lockGet", "lockPatch"}
    BY OnlyCall
  <1>4. NameOf[o] = NameOf[p] /\ pods[o].assigned = "false"
    BY <1>1, <1>3 DEF Ownership, RecordIsOfUnassigned, HasRecord
  <1>5. ASSUME pods[o].exists PROVE o = p
    <2>1. pods[o].phase \in {"New", "Pending", "Running", "Succeeded", "Failed"}
      BY <1>2 DEF LockInv, TypeOK, PodState
    <2>2. NeedsUnlock(o)
      BY <1>2, <1>4, <2>1 DEF Ownership, AnnotationIsOwn, NeedsUnlock
    <2>3. lock = o
      BY <1>2, <1>5, <2>2 DEF LockInv, LockIsOfUnsettled, Unsettled
    <2>4. lock = p
      BY <1>1 DEF LockInv, LockIsOfUnsettled, Unsettled, NeedsUnlock
    <2> QED BY <2>3, <2>4
  <1> QED BY <1>1, <1>2, <1>4, <1>5 DEF Forsaken, LockInv, TypeOK, PodState

LEMMA PatchPodKeepsOwnership ==
  ASSUME LockInv, Ownership, ~disturbed, NEW c \in Call, PatchPod(c), ~disturbed'
  PROVE  Ownership'
  <1> DEFINE p == calls[c].pod
  <1>1. /\ calls[c].pc = "patch" /\ pods[p].exists
        /\ pods' = [pods EXCEPT ![p].assigned = "true",
                                ![p].anno = calls[c].grant]
        /\ calls' = [calls EXCEPT ![c].pc = "lockGet"]
        /\ UNCHANGED <<record, kubelet>>
    BY DEF PatchPod, Crash
  <1>2. /\ p \in Pod /\ calls[c].grant.owner \in Pod
        /\ calls[c].grant \in Grant
        /\ pods[p].phase = "Pending"
        /\ calls[c].grant.owner = p \/ Forsaken(calls[c].grant.owner, p)
    BY <1>1, RecordIsOwnOrForsaken
  <1>3. /\ pods'[p].assigned = "true" /\ pods'[p].anno = calls[c].grant
        /\ pods'[p].phase = pods[p].phase /\ pods'[p].exists = pods[p].exists
        /\ \A q \in Pod : q # p => pods'[q] = pods[q]
    BY <1>1, <1>2 DEF LockInv, TypeOK, PodState
  <1>4. /\ calls'[c].pc = "lockGet"
        /\ \A d \in Call : d # c => calls'[d].pc = "idle"
    <2>1. \A d \in Call : d # c => calls[d].pc = "idle"
      BY <1>1, OnlyCall
    <2> QED BY <1>1, <2>1 DEF LockInv, TypeOK, CallState
  <1>5. \A o, q \in Pod : Forsaken(o, q) => Forsaken(o, q)'
    BY <1>1, <1>3 DEF Forsaken
  <1>6. AnnotationIsOwn'
    <2> SUFFICES ASSUME NEW q \in Pod
                 PROVE  /\ pods'[q].phase = "New" <=> pods'[q].assigned = "none"
                        /\ pods'[q].assigned = "true" <=> pods'[q].anno # None
                        /\ pods'[q].phase \in {"Running", "Succeeded"}
                             => pods'[q].anno # None
                        /\ pods'[q].anno # None =>
                             \/ pods'[q].anno.owner = q
                             \/ Forsaken(pods[q].anno.owner, q)'
      BY DEF AnnotationIsOwn
    <2>1. CASE q = p
      <3>1. pods'[q].anno # None
        BY <1>2, <1>3, <2>1, ConstantsAssumption
      <3> QED BY <1>2, <1>3, <1>5, <2>1, <3>1
    <2>2. CASE q # p
      <3>1. pods'[q] = pods[q]
        BY <1>3, <2>2
      <3>2. pods[q].anno # None => pods[q].anno.owner \in Pod
        BY DEF LockInv, TypeOK, PodState, Grant
      <3> QED BY <1>5, <3>1, <3>2 DEF Ownership, AnnotationIsOwn
    <2> QED BY <2>1, <2>2
  <1>7. RecordIsOfUnassigned'
    BY <1>1, <1>4 DEF Ownership, RecordIsOfUnassigned, HasRecord
  <1>8. CallsFollowRecord'
    BY <1>4 DEF CallsFollowRecord
  <1>9. AdmissionServesItsPod'
    <2>1. kubelet.pod \in Pod /\ (Candidate(kubelet.pod) => p = kubelet.pod)
      BY <1>1, CallFacts, OnlyCall
    <2>2. ~Candidate(kubelet.pod)'
      BY <1>1, <1>3, <2>1 DEF Candidate, Pending, OnNode
    <2> QED BY <1>1, <2>2 DEF AdmissionServesItsPod
  <1> QED BY <1>6, <1>7, <1>8, <1>9 DEF Ownership

LEMMA UnlockKeepsOwnership ==
  ASSUME LockInv, Ownership, ~disturbed, NEW c \in Call,
         GetNode(c) \/ PatchNode(c), ~disturbed'
  PROVE  Ownership'
  <1>1. calls[c].pc \in {"lockGet", "lockPatch"}
    BY DEF GetNode, PatchNode
  <1>2. CASE Assigned(c) /\ UNCHANGED pods
    BY <1>1, <1>2, AssignedKeepsOwnership
  <1>3. CASE /\ calls' = [calls EXCEPT ![c].pc = "lockPatch"]
             /\ UNCHANGED <<pods, record, kubelet>>
    <2>1. /\ \A d \in Call : d # c => calls'[d] = calls[d]
          /\ calls'[c].pc = "lockPatch" /\ calls'[c].pod = calls[c].pod
      BY <1>3 DEF LockInv, TypeOK, CallState
    <2> QED BY <1>1, <1>3, <2>1, CallFacts, MoveKeepsOwnership
  <1> QED BY <1>2, <1>3 DEF GetNode, PatchNode, Crash

-----------------------------------------------------------------------------
(* Nothing ends the disturbance.                                            *)
LEMMA DisturbedStays == ASSUME LockInv, [Next]_vars PROVE disturbed => disturbed'
  BY DEF Next, KubeletStep, HandlerStep, ExecStep, RecyclerStep, Bind, Finish,
         Delete, Allocate, Reject, StartContainers, List, FindProfile,
         CreateInstance, MatchInfo, PatchPod, GetNode, PatchNode, ExecList,
         ExecSlot, ExecInstances, ExecProfiles, Recycle, RecycleProfile,
         FixNodeLockGet, FixNodeLockUpdate, RecycleTombstone, StartProcess,
         RestartPlugins, Crash, vars

LEMMA OwnershipStep ==
  ASSUME LockInv, Ownership, ~disturbed, [Next]_vars, ~disturbed'
  PROVE  Ownership'
  <1>1. ASSUME NEW p \in Pod, Bind(p) \/ Finish(p) \/ Delete(p)
        PROVE  Ownership'
    BY <1>1, BindKeepsOwnership, FinishKeepsOwnership, DeleteKeepsOwnership
  <1>2. CASE KubeletStep
    BY <1>2, AllocateKeepsOwnership, VerdictKeepsOwnership DEF KubeletStep
  <1>3. ASSUME NEW c \in Call, HandlerStep(c)
        PROVE  Ownership'
    BY <1>3, ListKeepsOwnership, FindProfileKeepsOwnership,
       CreateInstanceKeepsOwnership, MatchInfoKeepsOwnership,
       PatchPodKeepsOwnership, UnlockKeepsOwnership DEF HandlerStep
  <1>4. CASE ExecStep \/ RecyclerStep \/ StartProcess \/ UNCHANGED vars
    <2>1. UNCHANGED <<pods, record, calls, kubelet>>
      BY <1>4 DEF ExecStep, ExecList, ExecSlot, ExecInstances, ExecProfiles,
                  RecyclerStep, Recycle, RecycleProfile, FixNodeLockGet,
                  FixNodeLockUpdate, StartProcess, Crash, apiVars, vars
    <2> QED BY <2>1, OwnershipUntouched
  <1>5. CASE RecycleTombstone \/ RestartPlugins
    BY <1>5 DEF RecycleTombstone, RestartPlugins, Crash
  <1> QED BY <1>1, <1>2, <1>3, <1>4, <1>5 DEF Next

(* The strengthened invariant of ownership holds in every reachable state.  *)
THEOREM OwnershipInductive == Spec => []OwnInv
  <1>1. Init => OwnInv
    BY InitEstablishes, InitOwnership DEF OwnInv
  <1>2. OwnInv /\ [Next]_vars => OwnInv'
    BY StepPreserves, DisturbedStays, OwnershipStep DEF OwnInv
  <1> QED BY <1>1, <1>2, PTL DEF Spec

(* Until the plugin is restarted or dies, a running pod is annotated, and   *)
(* an annotation names the pod's own instance, or one left by a pod of its  *)
(* name that was deleted before it was assigned - for any pods and names,   *)
(* and any faults.                                                          *)
THEOREM AnnotationsNameOwnInstances == Spec => []PodOwnsInstance
  <1>1. OwnInv => PodOwnsInstance
    BY DEF OwnInv, Ownership, AnnotationIsOwn, PodOwnsInstance
  <1> QED BY <1>1, OwnershipInductive, PTL

(* If no two pods have one name, the instance is the pod's own.             *)
THEOREM UniqueNamesOwnTheirs ==
  ASSUME \A p, q \in Pod : NameOf[p] = NameOf[q] => p = q
  PROVE  Spec => [](~disturbed =>
                      \A p \in Pod : pods[p].anno # None => pods[p].anno.owner = p)
  <1>1. OwnInv => (~disturbed =>
                     \A p \in Pod : pods[p].anno # None => pods[p].anno.owner = p)
    BY DEF OwnInv, LockInv, TypeOK, PodState, Grant, Ownership,
           AnnotationIsOwn, Forsaken
  <1> QED BY <1>1, OwnershipInductive, PTL

-----------------------------------------------------------------------------
(* The resync spares what was there when it listed the pods.                *)

(* What a step does to pods that have been bound: none comes back to life,  *)
(* and none is annotated a second time.                                     *)
LEMMA PodsSettle ==
  ASSUME OwnInv, [Next]_vars, ~disturbed', NEW p \in Pod,
         pods[p].phase # "New"
  PROVE  /\ pods'[p].phase # "New"
         /\ Live(p)' => Live(p)
         /\ pods[p].anno # None => pods'[p].anno = pods[p].anno
  <1>1. LockInv /\ Ownership /\ ~disturbed
    BY DisturbedStays DEF OwnInv
  <1>2. pods \in [Pod -> PodState]
    BY <1>1 DEF LockInv, TypeOK
  <1>3. CASE UNCHANGED pods
    BY <1>3 DEF Live, OnNode
  <1>4. ASSUME NEW q \in Pod, Bind(q) \/ Finish(q) \/ Delete(q)
        PROVE  /\ pods'[p].phase # "New"
               /\ Live(p)' => Live(p)
               /\ pods'[p].anno = pods[p].anno
    BY <1>2, <1>4 DEF Bind, Finish, Delete, Live, OnNode, PodState
  <1>5. ASSUME NEW phase \in {"Running", "Failed"}, Report(phase),
               kubelet.pod \in Pod, pods[kubelet.pod].phase = "Pending"
        PROVE  /\ pods'[p].phase # "New"
               /\ Live(p)' => Live(p)
               /\ pods'[p].anno = pods[p].anno
    BY <1>1, <1>5, ReportEffect DEF LockInv, Live, OnNode
  <1>6. CASE Reject \/ StartContainers
    <2>1. kubelet.pod \in Pod /\ pods[kubelet.pod].phase = "Pending"
      BY <1>1, <1>6 DEF LockInv, TypeOK, Admission, OneAdmission, Reject,
                        StartContainers
    <2>2. Report("Failed") \/ Report("Running")
      BY <1>6 DEF Reject, StartContainers
    <2> QED BY <1>5, <2>1, <2>2
  <1>7. ASSUME NEW c \in Call, HandlerStep(c)
        PROVE  /\ pods'[p].phase # "New"
               /\ Live(p)' => Live(p)
               /\ pods[p].anno # None => pods'[p].anno = pods[p].anno
    <2>1. calls[c].pc # "idle"
      BY <1>7 DEF HandlerStep, List, FindProfile, CreateInstance, MatchInfo,
                  PatchPod, GetNode, PatchNode
    <2>2. CASE ReturnError(c)
      <3>1. /\ kubelet.pod \in Pod /\ pods[kubelet.pod].phase = "Pending"
            /\ Report("Failed")
        BY <1>1, <2>1, <2>2, OnlyCall DEF ReturnError
      <3> QED BY <1>5, <3>1
    <2>3. CASE PatchPod(c)
      <3> DEFINE q == calls[c].pod
      <3>1. /\ calls[c].pc = "patch" /\ pods[q].exists
            /\ pods' = [pods EXCEPT ![q].assigned = "true",
                                    ![q].anno = calls[c].grant]
        BY <2>3 DEF PatchPod, Crash
      <3>2. q \in Pod /\ pods[q].assigned = "false"
        BY <1>1, <3>1, RecordIsOwnOrForsaken
      <3>3. pods[q].anno = None
        BY <1>1, <3>2 DEF Ownership, AnnotationIsOwn
      <3> QED BY <1>2, <3>1, <3>2, <3>3 DEF PodState, Live, OnNode
    <2>4. ReturnError(c) \/ PatchPod(c) \/ UNCHANGED pods
      BY <1>7 DEF HandlerStep, List, NoCandidate, FindProfile, CreateInstance,
                  MatchInfo, GetNode, PatchNode, Crash
    <2> QED BY <1>3, <2>2, <2>3, <2>4
  <1>8. CASE \/ \E q \in Pod : Allocate(q)
             \/ ExecStep \/ RecyclerStep \/ StartProcess \/ UNCHANGED vars
    BY <1>3, <1>8
       DEF Allocate, ExecStep, ExecList, ExecSlot, ExecInstances, ExecProfiles,
           RecyclerStep, Recycle, RecycleProfile, FixNodeLockGet,
           FixNodeLockUpdate, StartProcess, Crash, apiVars, vars
  <1>9. CASE RecycleTombstone \/ RestartPlugins
    BY <1>9 DEF RecycleTombstone, RestartPlugins, Crash
  <1> QED BY <1>4, <1>6, <1>7, <1>8, <1>9 DEF Next, KubeletStep

(* An instance that stays, out of use, stays out of use.                    *)
LEMMA UseEnds ==
  ASSUME OwnInv, [Next]_vars, ~disturbed', InstancesOfBound,
         NEW h \in Handle, insts'[h] = insts[h], insts[h] # None, ~InUse(h)
  PROVE  ~InUse(h)'
  <1>1. insts[h] \in Pod /\ pods[insts[h]].phase # "New"
    BY DEF InstancesOfBound, OwnInv, LockInv, TypeOK
  <1>2. /\ Live(insts[h])' => Live(insts[h])
        /\ pods[insts[h]].anno # None
              => pods'[insts[h]].anno = pods[insts[h]].anno
    BY <1>1, PodsSettle
  <1> QED BY <1>2 DEF InUse, Live, OnNode

(* Steps that create no instance and leave the pass where it is, or take it *)
(* on with what it has listed.                                              *)
LEMMA NoInstanceCreated ==
  ASSUME OwnInv, [Next]_vars, ~disturbed', Sparing,
         \A h \in Handle : insts'[h] \in {insts[h], None},
         exec'.pc # "idle" => /\ exec.pc # "idle"
                              /\ exec'.fresh = exec.fresh
                              /\ exec'.keep = exec.keep
  PROVE  InstancesOfBound' /\ ListedIsSettled'
  <1>1. InstancesOfBound'
    <2> SUFFICES ASSUME NEW h \in Handle, insts'[h] # None
                 PROVE  pods'[insts'[h]].phase # "New"
      BY DEF InstancesOfBound
    <2>1. insts'[h] = insts[h] /\ insts[h] \in Pod
      BY DEF OwnInv, LockInv, TypeOK
    <2> QED BY <2>1, PodsSettle DEF Sparing, InstancesOfBound
  <1>2. ListedIsSettled'
    <2> SUFFICES ASSUME exec'.pc # "idle", NEW h \in Handle \ exec.fresh,
                        insts'[h] # None, h \notin exec.keep
                 PROVE  ~InUse(h)'
      BY DEF ListedIsSettled
    <2>1. insts'[h] = insts[h] /\ ~InUse(h)
      BY DEF Sparing, ListedIsSettled
    <2> QED BY <2>1, UseEnds DEF Sparing
  <1> QED BY <1>1, <1>2

(* The listing: every pod waiting is annotated, and so is every running     *)
(* one; what they are annotated with is kept.                               *)
LEMMA ExecListSpares ==
  ASSUME OwnInv, ~disturbed, Sparing, ExecList
  PROVE  Sparing'
  <1>1. /\ exec'.pc = "slot" /\ exec'.fresh = {}
        /\ exec'.keep = {g.inst : g \in {pods[p].anno : p \in {q \in Pod : Kept(q)}}}
        /\ UNCHANGED <<pods, insts>>
    BY DEF ExecList, IdleExec, apiVars, driverVars
  <1>2. ListedIsSettled'
    <2> SUFFICES ASSUME NEW h \in Handle, insts[h] # None, InUse(h)
                 PROVE  h \in exec'.keep
      BY <1>1 DEF ListedIsSettled, InUse, Live, OnNode
    <2>1. insts[h] \in Pod
      BY DEF OwnInv, LockInv, TypeOK
    <2>2. pods[insts[h]].anno # None
      <3>1. CASE Pending(insts[h])
        BY <2>1, <3>1 DEF ExecList, NoneInHandling
      <3>2. CASE pods[insts[h]].phase = "Running"
        BY <2>1, <3>2 DEF OwnInv, Ownership, AnnotationIsOwn
      <3> QED BY <3>1, <3>2 DEF InUse, Live, Pending
    <2>3. Kept(insts[h]) /\ pods[insts[h]].anno.inst = h
      BY <2>2 DEF InUse, Kept
    <2> QED BY <1>1, <2>1, <2>3
  <1>3. InstancesOfBound' /\ KeptIsNotListed'
    BY <1>1 DEF Sparing, InstancesOfBound, KeptIsNotListed
  <1> QED BY <1>2, <1>3 DEF Sparing

LEMMA ExecPassSpares ==
  ASSUME OwnInv, [Next]_vars, ~disturbed', Sparing,
         ExecSlot \/ ExecInstances \/ ExecProfiles
  PROVE  Sparing'
  <1>1. exec \in ExecState
    BY DEF OwnInv, LockInv, TypeOK
  <1>2. \A h \in Handle : insts'[h] \in {insts[h], None}
    BY DEF ExecSlot, ExecInstances, ExecProfiles, OwnInv, LockInv, TypeOK, driverVars
  <1>3. /\ exec.pc # "idle"
        /\ \/ exec'.pc = "idle"
           \/ /\ exec'.fresh = exec.fresh /\ exec'.keep = exec.keep
              /\ exec'.pc = "instances" =>
                    \/ exec'.todo \cap exec.keep = {}
                    \/ exec.pc = "instances" /\ exec'.todo \subseteq exec.todo
    <2>1. CASE EndExec /\ exec.pc # "idle"
      BY <2>1 DEF EndExec, IdleExec
    <2>2. CASE ExecSlot /\ ~EndExec
      <3>1. exec.pc = "slot"
        BY <2>2 DEF ExecSlot
      <3>2. PICK s \in Slot :
              \/ exec' = [exec EXCEPT !.slots = @ \ {s}]
              \/ exec' = [exec EXCEPT !.pc = "instances", !.slot = s,
                             !.slots = @ \ {s},
                             !.todo = {h \in Handle : h[1] = s
                                          /\ insts[h] # None} \ exec.keep]
        BY <1>1, <2>2 DEF ExecSlot, ExecState
      <3>3. CASE exec' = [exec EXCEPT !.slots = @ \ {s}]
        BY <1>1, <3>1, <3>3 DEF ExecState
      <3>4. CASE exec' = [exec EXCEPT !.pc = "instances", !.slot = s,
                             !.slots = @ \ {s},
                             !.todo = {h \in Handle : h[1] = s
                                          /\ insts[h] # None} \ exec.keep]
        <4> DEFINE t == {h \in Handle : h[1] = s /\ insts[h] # None} \ exec.keep
        <4>1. t \cap exec.keep = {}
          OBVIOUS
        <4>2. exec' = [exec EXCEPT !.pc = "instances", !.slot = s,
                         !.slots = @ \ {s}, !.todo = t]
          BY <3>4
        <4> HIDE DEF t
        <4> QED BY <1>1, <3>1, <4>1, <4>2 DEF ExecState
      <3> QED BY <3>2, <3>3, <3>4
    <2>3. CASE ExecInstances /\ ~EndExec
      <3>1. /\ exec.pc = "instances"
            /\ \/ \E h \in exec.todo : exec' = [exec EXCEPT !.todo = @ \ {h}]
               \/ \E t : exec' = [exec EXCEPT !.pc = "profiles", !.todo = t]
        BY <2>3 DEF ExecInstances
      <3> QED BY <1>1, <3>1 DEF ExecState
    <2>4. CASE ExecProfiles
      <3>1. /\ exec.pc = "profiles"
            /\ \/ \E h \in exec.todo : exec' = [exec EXCEPT !.todo = @ \ {h}]
               \/ exec' = [exec EXCEPT !.pc = "slot", !.slot = None]
        BY <2>4 DEF ExecProfiles
      <3> QED BY <1>1, <3>1 DEF ExecState
    <2> QED BY <2>1, <2>2, <2>3, <2>4 DEF ExecSlot, ExecInstances
  <1>4. InstancesOfBound' /\ ListedIsSettled'
    BY <1>2, <1>3, NoInstanceCreated
  <1>5. KeptIsNotListed'
    BY <1>3 DEF Sparing, KeptIsNotListed
  <1> QED BY <1>4, <1>5 DEF Sparing

(* An instance created during a pass is fresh, and of a bound pod.          *)
LEMMA CreateInstanceSpares ==
  ASSUME OwnInv, [Next]_vars, ~disturbed', Sparing, NEW c \in Call,
         CreateInstance(c)
  PROVE  Sparing'
  <1>1. LockInv /\ Ownership /\ ~disturbed /\ exec \in ExecState
    BY DisturbedStays DEF OwnInv, LockInv, TypeOK
  <1>2. CASE UNCHANGED <<insts, exec>>
    <2>1. InstancesOfBound' /\ ListedIsSettled'
      BY <1>2, NoInstanceCreated
    <2> QED BY <1>2, <2>1 DEF Sparing, KeptIsNotListed
  <1>3. ASSUME NEW k \in Handle, insts[k] = None,
               insts' = [insts EXCEPT ![k] = calls[c].pod],
               exec' = [exec EXCEPT !.fresh =
                          IF exec.pc = "idle" THEN {} ELSE @ \cup {k}],
               UNCHANGED pods
        PROVE  Sparing'
    <2>1. calls[c].pod \in Pod /\ pods[calls[c].pod].phase # "New"
      <3>1. calls[c].pc = "create"
        BY DEF CreateInstance
      <3> QED BY <1>1, <3>1, CallFacts DEF Ownership, AnnotationIsOwn
    <2>2. /\ insts'[k] = calls[c].pod
          /\ \A h \in Handle : h # k => insts'[h] = insts[h]
      BY <1>1, <1>3 DEF LockInv, TypeOK
    <2>3. /\ exec'.pc = exec.pc /\ exec'.keep = exec.keep /\ exec'.todo = exec.todo
          /\ exec.pc # "idle" => exec'.fresh = exec.fresh \cup {k}
      BY <1>1, <1>3 DEF ExecState
    <2>4. InstancesOfBound'
      BY <1>3, <2>1, <2>2 DEF Sparing, InstancesOfBound
    <2>5. ListedIsSettled'
      <3> SUFFICES ASSUME exec.pc # "idle", NEW h \in Handle \ exec'.fresh,
                          insts'[h] # None, h \notin exec.keep
                   PROVE  ~InUse(h)'
        BY <2>3 DEF ListedIsSettled
      <3>1. h # k /\ h \notin exec.fresh
        BY <2>3
      <3>2. insts'[h] = insts[h] /\ ~InUse(h)
        BY <2>2, <3>1 DEF Sparing, ListedIsSettled
      <3> QED BY <3>2, UseEnds DEF Sparing
    <2>6. KeptIsNotListed'
      BY <2>3 DEF Sparing, KeptIsNotListed
    <2> QED BY <2>4, <2>5, <2>6 DEF Sparing
  <1>4. \/ UNCHANGED <<insts, exec>>
        \/ \E k \in Handle :
              /\ insts[k] = None
              /\ insts' = [insts EXCEPT ![k] = calls[c].pod]
              /\ exec' = [exec EXCEPT !.fresh =
                            IF exec.pc = "idle" THEN {} ELSE @ \cup {k}]
              /\ UNCHANGED pods
    BY DEF CreateInstance
  <1> QED BY <1>2, <1>3, <1>4

(* Nobody else creates an instance or has a part in the pass.               *)
LEMMA OthersSpare ==
  ASSUME OwnInv, [Next]_vars, ~disturbed', Sparing,
         ~ExecStep, \A c \in Call : ~CreateInstance(c)
  PROVE  Sparing'
  <1>1. insts \in [Handle -> Pod \cup {None}]
    BY DEF OwnInv, LockInv, TypeOK
  <1>2. UNCHANGED exec
    BY DEF Next, KubeletStep, HandlerStep, RecyclerStep, Bind, Finish,
           Delete, Allocate, Reject, StartContainers, List, FindProfile,
           MatchInfo, PatchPod, GetNode, PatchNode, Recycle, RecycleProfile,
           FixNodeLockGet, FixNodeLockUpdate, RecycleTombstone, StartProcess,
           RestartPlugins, Crash, vars, syncVars
  <1>3. \A h \in Handle : insts'[h] \in {insts[h], None}
    BY <1>1
       DEF Next, KubeletStep, HandlerStep, RecyclerStep, Bind, Finish,
           Delete, Allocate, Reject, StartContainers, List, FindProfile,
           MatchInfo, PatchPod, GetNode, PatchNode, Recycle, RecycleProfile,
           FixNodeLockGet, FixNodeLockUpdate, RecycleTombstone, StartProcess,
           RestartPlugins, vars, driverVars
  <1>4. InstancesOfBound' /\ ListedIsSettled'
    BY <1>2, <1>3, NoInstanceCreated
  <1> QED BY <1>2, <1>4 DEF Sparing, KeptIsNotListed

(* The strengthened invariant of the resync holds in every reachable state. *)
THEOREM SparingInductive == Spec => []SpareInv
  <1>1. Init => SpareInv
    <2>1. Init => Sparing
      BY DEF Init, Sparing, InstancesOfBound, ListedIsSettled, KeptIsNotListed,
             IdleExec
    <2> QED BY <2>1, InitEstablishes, InitOwnership DEF SpareInv, OwnInv
  <1>2. OwnInv /\ OwnInv' /\ SpareInv /\ [Next]_vars => SpareInv'
    <2> SUFFICES ASSUME OwnInv, SpareInv, [Next]_vars, ~disturbed'
                 PROVE  Sparing'
      BY DEF SpareInv
    <2>1. ~disturbed /\ Sparing
      BY DisturbedStays DEF SpareInv, OwnInv
    <2>2. CASE ExecStep
      BY <2>1, <2>2, ExecListSpares, ExecPassSpares DEF ExecStep
    <2>3. CASE \E c \in Call : CreateInstance(c)
      BY <2>1, <2>3, CreateInstanceSpares
    <2> QED BY <2>1, <2>2, <2>3, OthersSpare
  <1> QED BY <1>1, <1>2, OwnershipInductive, PTL DEF Spec

(* A pass of exec never destroys an instance in use that was there when the *)
(* pass listed the pods, until the plugin is restarted or dies.             *)
THEOREM ListedAreSpared == Spec => ExecSparesListed
  <1>1. SpareInv /\ [Next]_vars =>
          \A h \in Handle : ExecDestroys(h) /\ ~disturbed /\ h \notin exec.fresh
                              => ~InUse(h)
    BY DEF SpareInv, Sparing, ListedIsSettled, KeptIsNotListed, ExecDestroys
  <1> QED BY <1>1, SparingInductive, PTL DEF Spec, ExecSparesListed
=============================================================================

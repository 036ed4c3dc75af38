------------------------------ MODULE HealthFeed ------------------------------
(***************************************************************************)
(* What the health pipeline of a plugin promises to the kubelet: reports   *)
(* are changes of state, none is lost, none overtakes another, at most     *)
(* Depth are on their way, and while the stream is up each one that        *)
(* arrives is passed on as a full list of devices.                         *)
(***************************************************************************)
EXTENDS Naturals, Sequences

CONSTANTS
    Device,
    Listed,     \* the devices of the list; others are reported in vain
    Depth,      \* reports on their way
    None

VARIABLES
    judged,     \* the state of each device as last judged
    pending,    \* reports on their way, oldest first
    told,       \* the list of devices as last updated
    view,       \* the list the kubelet has, or None
    up          \* is the stream up?

vars == <<judged, pending, told, view, up>>

Other(h) == IF h = "Healthy" THEN "Unhealthy" ELSE "Healthy"

Init ==
    /\ judged = [d \in Device |-> "Healthy"]
    /\ pending = <<>>
    /\ told = [d \in Listed |-> "Healthy"]
    /\ view = None
    /\ up = TRUE

(* A device is judged differently from before.                              *)
Report(d) ==
    /\ Len(pending) < Depth
    /\ judged' = [judged EXCEPT ![d] = Other(@)]
    /\ pending' = Append(pending, [id |-> d, health |-> judged'[d]])
    /\ UNCHANGED <<told, view, up>>

(* The kubelet asks for the list.                                           *)
FirstList ==
    /\ up
    /\ view = None
    /\ view' = told
    /\ UNCHANGED <<judged, pending, told, up>>

(* The oldest report arrives; on a broken stream it goes no further.        *)
Deliver ==
    /\ pending # <<>>
    /\ up => view # None
    /\ told' = IF Head(pending).id \in Listed
               THEN [told EXCEPT ![Head(pending).id] = Head(pending).health]
               ELSE told
    /\ view' = IF up THEN told' ELSE view
    /\ pending' = Tail(pending)
    /\ UNCHANGED <<judged, up>>

(* The stream breaks, for good.                                             *)
Break ==
    /\ up
    /\ up' = FALSE
    /\ UNCHANGED <<judged, pending, told, view>>

Next ==
    \/ \E d \in Device : Report(d)
    \/ FirstList
    \/ Deliver
    \/ Break

(* While the stream is up, reports keep arriving.                           *)
Spec == Init /\ [][Next]_vars /\ WF_vars(up /\ Deliver)
=============================================================================

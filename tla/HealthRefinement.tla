--------------------------- MODULE HealthRefinement ---------------------------
(* The goroutines of HealthWatch implement HealthFeed.  The two unbuffered  *)
(* channels with their blocked senders are the queue.                       *)
EXTENDS HealthWatch, Sequences

OneOrNone(event) == IF event = None THEN <<>> ELSE <<event>>

Feed == INSTANCE HealthFeed WITH
            Depth   <- 2,
            judged  <- [d \in Device |-> IF d \in unhealthy THEN "Unhealthy"
                                                            ELSE "Healthy"],
            pending <- OneOrNone(held) \o OneOrNone(sending),
            told    <- devs,
            up      <- (conn = "up")

(* What the watcher judges reaches the kubelet as the abstract feed says:   *)
(* in order, nothing lost, nothing repeated, and for ever while the stream  *)
(* is up.                                                                   *)
ImplementsFeed == Feed!Spec
=============================================================================

--------------------------- MODULE MCHealthWatch ---------------------------
(* A card with a listed device and one that Allocate adds.                  *)
EXTENDS HealthRefinement

CONSTANTS d1, added, s1

MCSlotOf == [d \in Device |-> s1]
=============================================================================

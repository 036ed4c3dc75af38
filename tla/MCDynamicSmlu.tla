--------------------------- MODULE MCDynamicSmlu ---------------------------
(* DynamicSmlu on one card with two ids, for pods of one shape.             *)
EXTENDS DynamicSmlu, TLC

CONSTANTS p1, p2, s1, shape, i1, i2, c1, c2

MCProfileOf == [p \in Pod |-> <<s1, shape>>]
MCOwnName   == [p \in Pod |-> p]
MCSameName  == [p \in Pod |-> p1]

Symmetry == Permutations(Call) \cup Permutations(InstanceId)
=============================================================================

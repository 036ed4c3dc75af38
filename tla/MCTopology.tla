------------------------------ MODULE MCTopology ------------------------------
(* Four cards in a chain: two links between 0 and 1, one between 1 and 2,   *)
(* none to 3 but in the ring of all four.  Each pod wants two cards.        *)
EXTENDS Topology

CONSTANTS p1, p2

MCCard     == 0..3
MCDemand   == [p \in Pod |-> 2]
MCTopoRule == [size \in {2, 4} |-> size]

RingsOfTwo(cards) ==
    IF {0, 1} \subseteq cards THEN 2 ELSE IF {1, 2} \subseteq cards THEN 1 ELSE 0

MCRings ==
    [cards \in SUBSET MCCard |->
        [size \in {2, 4} |->
            IF size = 2 THEN RingsOfTwo(cards)
            ELSE IF cards = MCCard THEN 4 ELSE 0]]
=============================================================================

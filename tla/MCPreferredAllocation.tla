------------------------ MODULE MCPreferredAllocation ------------------------
(* Nodes with eight cards on two motherboards, two cards to a board, under  *)
(* each allocator, of which the default one's form no ring of all eight;    *)
(* nodes with shares and with instances.                                    *)
EXTENDS PreferredAllocation

CONSTANTS spider, board, pcie, plain, shares, mim, mimRuntime

Slots == 0..7
Left  == 0..3

(* Two rings on a board and one across boards; four of the left half, two   *)
(* of the right one, whose links are slower; three cards never.             *)
RingsOf(cards) ==
    CASE Cardinality(cards) = 2 /\ \E b \in 0..3 : cards = {2 * b, 2 * b + 1} -> 2
      [] cards \in {{0, 2}, {1, 3}, {4, 6}} -> 1
      [] cards = Left -> 6
      [] cards \in {Slots \ Left, {0, 1, 4, 5}} -> 2
      [] cards = Slots -> 2
      [] OTHER -> 0

Base == [mode        |-> "topology-aware",
         how         |-> "nodes",
         has         |-> {},
         card        |-> Slots,
         board       |-> [c \in Slots |-> c \div 2],
         motherboard |-> [c \in Slots |-> c \div 4],
         link        |-> [c \in Slots |-> IF c \in Left THEN Left ELSE Slots \ Left],
         linkFails   |-> FALSE,
         rings       |-> [cards \in SUBSET Slots |-> RingsOf(cards)],
         allocator   |-> "default",
         topoRule    |-> [s \in {} |-> 0]]

Shares == [Base EXCEPT !.mode = "env-share", !.card = 0..2, !.has = {"ipcm", "cmsg"},
                       !.rings = [cards \in SUBSET (0..2) |-> 0]]
            @@ [virtualizationNum |-> 2]

Mim == [Base EXCEPT !.mode = "mim", !.card = 0..1, !.has = {"ipcm", "cmsg"},
                    !.rings = [cards \in SUBSET (0..1) |-> 0]]
         @@ [instances |-> [c \in 0..1 |-> 1..2]]

Nodes == [nm \in Name |->
    CASE nm = plain -> [Base EXCEPT !.rings[Slots] = 0]
      [] nm = spider -> [Base EXCEPT !.allocator = "spider", !.topoRule = (2 :> 2 @@ 4 :> 4)]
      [] nm = board -> [Base EXCEPT !.allocator = "board", !.topoRule = (2 :> 2 @@ 4 :> 6)]
      [] nm = pcie -> [Base EXCEPT !.allocator = "board", !.linkFails = TRUE]
      [] nm = shares -> Shares
      [] nm = mim -> Mim
      [] nm = mimRuntime -> [Mim EXCEPT !.how = "runtime"]]
=============================================================================

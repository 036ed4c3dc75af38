------------------------------ MODULE Allocators ------------------------------
(***************************************************************************)
(* Which cards the plugin prefers for a container: the three allocators of *)
(* mode topology-aware, and the choice of shares in mode env-share.        *)
(*                                                                         *)
(* A node n is a record: the cards (slots), the board and the motherboard  *)
(* of each, the cards each has a link to, the groups these form, the rings *)
(* libcntopo finds in a set of cards, and the allocator of its model.  Go  *)
(* leaves the order of maps and of equal elements of a sort open: an       *)
(* operator is the set of the answers the code can give.                   *)
(***************************************************************************)
EXTENDS Naturals, FiniteSets, SequencesExt, FiniteSetsExt

CONSTANT None    \* an answer: error

(* Mutant: in any order.                                                    *)
OrdersUnsorted(parts) == SetToSeqs(parts)

(* Sets of cards, those with fewer cards first.                             *)
Orders(parts) ==
    {order \in SetToSeqs(parts) :
        \A i \in DOMAIN order : \A j \in 1..(i - 1) :
            Cardinality(order[j]) <= Cardinality(order[i])}

(* splitByBoards, splitByMotherBoards: the available cards of each.         *)
Split(available, home) ==
    {{c \in available : home[c] = b} : b \in {home[c] : c \in available}}

(***************************************************************************)
(* GetMLULinkGroups, and what is available of each group                   *)
(***************************************************************************)
Reached(n, slot) ==
    {c \in n.card : \A cards \in SUBSET n.card :
        slot \in cards /\ (\A d \in cards : n.link[d] \subseteq cards) => c \in cards}

(* The elements of S in order: the k-th has k - 1 of them before it.        *)
Sorted(S, Before(_, _)) ==
    [k \in 1..Cardinality(S) |->
        CHOOSE x \in S : Cardinality({y \in S : Before(y, x)}) = k - 1]

(* The search starts at the first slot no earlier search has visited.       *)
LinkGroups(n) ==
    Sorted({Reached(n, s) \ UNION {Reached(n, r) : r \in {q \in n.card : q < s}} :
                s \in n.card} \ {{}},
           LAMBDA f, g : Min(f) < Min(g))

(* getCPUGroups: none when a link cannot be read.                           *)
CPUGroups(n) == IF n.linkFails THEN <<>> ELSE LinkGroups(n)

(* filterAvaliableDevsByGroup: none when a card is in none.  The sort keeps *)
(* groups of one size in order.                                             *)
Groups(n, available) ==
    LET left  == [i \in DOMAIN n.groups |-> n.groups[i] \cap available]
        order == Sorted(DOMAIN n.groups,
                     LAMBDA i, j : \/ Cardinality(left[i]) < Cardinality(left[j])
                                   \/ /\ Cardinality(left[i]) = Cardinality(left[j])
                                      /\ i < j)
    IN  IF \A c \in available : \E i \in DOMAIN n.groups : c \in n.groups[i]
        THEN [k \in DOMAIN order |-> left[order[k]]]
        ELSE <<>>

(***************************************************************************)
(* Without rings: fill up one board after the other                        *)
(***************************************************************************)
(* Mutant: a board is looked through to its end before it stops.            *)
AllocateWholeBoard(devices, a) ==
    LET new == devices \ a.got
    IN  IF a.needed = 0
        THEN {a}
        ELSE {[got |-> a.got \cup new,
               needed |-> IF Cardinality(new) >= a.needed THEN 0
                          ELSE a.needed - Cardinality(new)]}

(* The cards of one board, as many as are still needed.                     *)
AllocateRemainingFrom(devices, a) ==
    LET new == devices \ a.got
    IN  IF Cardinality(new) <= a.needed
        THEN {[got |-> a.got \cup new, needed |-> a.needed - Cardinality(new)]}
        ELSE {[got |-> a.got \cup some, needed |-> 0] : some \in kSubset(a.needed, new)}

(* What can have been chosen when all parts were gone through in order.     *)
Fill(parts, size) ==
    FoldLeft(LAMBDA fills, part : UNION {AllocateRemainingFrom(part, a) : a \in fills},
             {[got |-> {}, needed |-> size]}, parts)

(* The boards in the order in which the board allocator turns to them:      *)
(* for each group all boards, of which it passes over those of others.      *)
BoardParts(n, available, boards) ==
    LET groups == Groups(n, available)
        Visited(group, b) == IF b \subseteq group THEN b ELSE {}
    IN  IF groups = <<>>
        THEN boards
        ELSE [k \in 1..(Len(groups) * Len(boards)) |->
                 Visited(groups[((k - 1) \div Len(boards)) + 1],
                         boards[((k - 1) % Len(boards)) + 1])]

Remaining(n, available, size) ==
    LET fills ==
          IF n.allocator = "spider"
          THEN UNION {Fill(mbs, size) : mbs \in Orders(Split(available, n.motherboard))}
          ELSE UNION {Fill(BoardParts(n, available, boards) \o <<available>>, size) :
                        boards \in Orders(Split(available, n.board))}
    IN  IF n.allocator = "default"
        THEN kSubset(size, available)
        ELSE {IF a.needed = 0 THEN a.got ELSE None : a \in fills}

(***************************************************************************)
(* With rings: a combination with most of them, on few boards              *)
(***************************************************************************)
GetRings(n, available, size) == {c \in kSubset(size, available) : n.rings[c] > 0}

(* Mutant: every combination is a candidate.                                *)
BestUncut(n, rings) == rings

Best(n, rings) == {c \in rings : \A d \in rings : n.rings[d] <= n.rings[c]}

(* The candidates in the first place that holds one, or all.                *)
InFirst(candidates, places) ==
    LET holds == {i \in DOMAIN places : \E c \in candidates : c \subseteq places[i]}
    IN  IF holds = {} THEN candidates
                      ELSE {c \in candidates : c \subseteq places[Min(holds)]}

Preferred(n, available, candidates) ==
    CASE n.allocator = "default" -> candidates
      [] n.allocator = "spider" ->
           UNION {InFirst(candidates, mbs) : mbs \in Orders(Split(available, n.motherboard))}
      [] n.allocator = "board" -> InFirst(candidates, Groups(n, available))

(***************************************************************************)
(* Allocate of the three allocators                                        *)
(***************************************************************************)
SizeAlwaysFailsToFormRing(n, size) ==
    CASE n.allocator = "default" -> FALSE
      [] n.allocator = "spider" -> size <= 1 \/ size > 8
      [] n.allocator = "board" -> size <= 1 \/ size > 8 \/ size % 2 = 1

(* The least number of rings that policy restricted asks for.               *)
RingsNeeded(n, size) ==
    IF \/ n.allocator = "spider" /\ size \in {2, 4}
       \/ n.allocator = "board" /\ size = 2
    THEN size ELSE 0

(* The default allocator does not ask for rings.                            *)
WithoutRings(n, available, size) ==
    /\ n.allocator = "default"
    /\ \/ size = 1
       \/ size = 8 /\ Cardinality(available) = 8

Allocate(n, policy, available, size) ==
    LET rings == GetRings(n, available, size)
        best  == Best(n, rings)
    IN  CASE WithoutRings(n, available, size) -> kSubset(size, available)
          [] ~WithoutRings(n, available, size) /\ rings = {} ->
               IF policy # "best-effort" /\ ~SizeAlwaysFailsToFormRing(n, size)
               THEN {None}
               ELSE Remaining(n, available, size)
          [] OTHER ->
               IF policy = "restricted" /\ \E c \in best : n.rings[c] < RingsNeeded(n, size)
               THEN {None}
               ELSE Preferred(n, available, best)

(* After 60 s, whatever GetRings is doing.                                  *)
AllocateLate(policy, available, size) ==
    IF policy = "best-effort" THEN kSubset(size, available) ELSE {None}

(***************************************************************************)
(* getPreferredEnvShareDeviceID: shares are <<card, number>>               *)
(***************************************************************************)
SharesOf(available, card) == {d[2] : d \in {e \in available : e[1] = card}}

(* Mutant: the cards with fewest free shares first.                         *)
ByUsedShares(available) ==
    LET free(card) == Cardinality(SharesOf(available, card))
    IN  {es \in SetToSeqs({d[1] : d \in available}) :
            \A i \in DOMAIN es : \A j \in 1..(i - 1) : free(es[j]) <= free(es[i])}

(* The cards with a free share, those with most free shares first.          *)
ByFreeShares(available) ==
    LET free(card) == Cardinality(SharesOf(available, card))
    IN  {es \in SetToSeqs({d[1] : d \in available}) :
            \A i \in DOMAIN es : \A j \in 1..(i - 1) : free(es[j]) >= free(es[i])}

(* Mutant: the numbers of shares start at zero.                             *)
PreferredSharesFromZero(available, size) ==
    {IF size > Len(es) THEN None
     ELSE {<<es[i], Min(SharesOf(available, es[i])) - 1>> : i \in 1..size} :
        es \in ByFreeShares(available)}

(* Mutant: as many as there are cards is one too many.                      *)
PreferredSharesFewer(available, size) ==
    {IF size > 1 /\ size >= Len(es) THEN None
     ELSE {<<es[i], Min(SharesOf(available, es[i]))>> : i \in 1..size} :
        es \in ByFreeShares(available)}

PreferredShares(available, size) ==
    {IF size > Len(es) THEN None
     ELSE {<<es[i], Min(SharesOf(available, es[i]))>> : i \in 1..size} :
        es \in ByFreeShares(available)}
=============================================================================

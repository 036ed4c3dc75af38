---------------------------- MODULE AllocationProofs ----------------------------
(***************************************************************************)
(* Proofs about PreferredAllocation, for any nodes: what the plugin        *)
(* prefers fits and keeps the policy, whatever the hardware, and the       *)
(* container gets what it needs.                                           *)
(*                                                                         *)
(* The folds of the allocators are over finite sets: FoldExists says that  *)
(* such a fold is defined, SubsetInduction proves its invariant.           *)
(***************************************************************************)
EXTENDS PreferredAllocation, FiniteSetTheorems, NaturalsInduction,
        WellFoundedInduction, TLAPS

-----------------------------------------------------------------------------
(* Natural numbers *)

(* A set of natural numbers has a least element.                            *)
LEMMA LeastNat ==
  ASSUME NEW T \in SUBSET Nat, T # {}
  PROVE  \E x \in T : \A y \in T : x <= y
  <1>1. IsWellFoundedOn(OpToRel(<, Nat), Nat)
    BY NatLessThanWellFounded
  <1>2. \E x \in T : \A y \in T : ~ (<<y, x>> \in OpToRel(<, Nat))
    BY <1>1, WFMin
  <1>3. \A x, y \in Nat : <<y, x>> \in OpToRel(<, Nat) <=> y < x
    BY DEF OpToRel
  <1>4. PICK x \in T : \A y \in T : ~ (<<y, x>> \in OpToRel(<, Nat))
    BY <1>2
  <1>5. \A y \in T : ~ (y < x)
    BY <1>3, <1>4
  <1> QED BY <1>5

(* Induction up to m.                                                       *)
LEMMA UpTo ==
  ASSUME NEW m \in Nat, NEW T, 0 \in T,
         \A i \in 0..m : i \in T /\ i < m => i + 1 \in T
  PROVE  0..m \subseteq T
  <1> SUFFICES ASSUME ~(0..m \subseteq T) PROVE FALSE
    OBVIOUS
  <1> DEFINE U == (0..m) \ T
  <1>0. U \in SUBSET Nat /\ U # {}
    OBVIOUS
  <1>1. PICK x \in U : \A y \in U : x <= y
    <2> HIDE DEF U
    <2> QED BY <1>0, LeastNat
  <1>2. x # 0 /\ x - 1 \in 0..m /\ x - 1 \in T
    BY <1>1
  <1> QED BY <1>1, <1>2

(* Min is in its set.                                                       *)
LEMMA MinIn ==
  ASSUME NEW T \in SUBSET Nat, T # {}
  PROVE  Min(T) \in T /\ \A y \in T : Min(T) <= y
  BY LeastNat DEF Min

(* Max is in its set.                                                       *)
LEMMA MaxIn ==
  ASSUME NEW m \in Nat, NEW T \in SUBSET (1..m), T # {}
  PROVE  Max(T) \in T /\ \A y \in T : y <= Max(T)
  <1> DEFINE U == {k \in 0..m : m - k \in T}
  <1>1. U # {} /\ U \in SUBSET Nat
    <2>1. PICK y \in T : y \in 1..m
      OBVIOUS
    <2>2. m - (m - y) = y /\ m - y \in 0..m
      BY <2>1
    <2>3. m - y \in U
      BY <2>1, <2>2
    <2>4. \A k \in U : k \in Nat
      OBVIOUS
    <2> HIDE DEF U
    <2> QED BY <2>3, <2>4
  <1>2. PICK x \in U : \A y \in U : x <= y
    BY <1>1, LeastNat
  <1>3. ASSUME NEW y \in T PROVE m - x >= y
    <2>1. y \in 1..m /\ m - (m - y) = y
      OBVIOUS
    <2>2. m - y \in U
      BY <2>1
    <2>3. x <= m - y /\ x \in 0..m
      BY <1>2, <2>2
    <2> QED BY <2>1, <2>3
  <1>4. \E z \in T : \A y \in T : z >= y
    BY <1>2, <1>3
  <1>5. Max(T) \in T /\ \A y \in T : Max(T) >= y
    BY <1>4 DEF Max
  <1> QED BY <1>5

-----------------------------------------------------------------------------
(* Folds *)

(* A fold over a finite set D: the element of s to take last is pick[s], the *)
(* step is G, on values V.                                                  *)
Picks(pick, D) == \A s \in SUBSET D : s # {} => pick[s] \in s

Steps(G, D, V) == \A x \in D : \A v \in V : G[<<x, v>>] \in V

IsFold(f, D, pick, b, G, V) ==
    /\ f = [s \in SUBSET D |-> IF s = {} THEN b ELSE G[<<pick[s], f[s \ {pick[s]}]>>]]
    /\ \A s \in SUBSET D : f[s] \in V

(* A step of an induction over subsets.                                     *)
Climbs(T, pick, D) == \A s \in SUBSET D : s # {} /\ s \ {pick[s]} \in T => s \in T

(* Induction over the subsets of D in the order of a fold.                  *)
LEMMA SubsetInduction ==
  ASSUME NEW D, IsFiniteSet(D),
         NEW pick, Picks(pick, D),
         NEW T, {} \in T, Climbs(T, pick, D)
  PROVE  SUBSET D \subseteq T
  <1> DEFINE N == Cardinality(D)
             U == {m \in 0..N : \A s \in SUBSET D : Cardinality(s) <= m => s \in T}
  <1>1. N \in Nat
    BY FS_CardinalityType
  <1>2. \A s \in SUBSET D : IsFiniteSet(s) /\ Cardinality(s) \in 0..N
    BY FS_Subset, FS_CardinalityType
  <1>3. 0 \in U
    <2>1. \A s \in SUBSET D : Cardinality(s) <= 0 => s = {}
      BY <1>2, FS_EmptySet
    <2>2. 0 \in 0..N
      BY <1>1
    <2> QED BY <2>1, <2>2
  <1>4. ASSUME NEW m \in 0..N, m \in U, m < N
        PROVE  m + 1 \in U
    <2>1. ASSUME NEW s \in SUBSET D, Cardinality(s) <= m + 1, s # {}
          PROVE  s \in T
      <3>1. Cardinality(s \ {pick[s]}) = Cardinality(s) - 1
        BY <1>2, <2>1, FS_RemoveElement DEF Picks
      <3>2. s \ {pick[s]} \in SUBSET D /\ Cardinality(s \ {pick[s]}) <= m
        BY <1>1, <1>2, <2>1, <3>1
      <3> QED BY <1>4, <2>1, <3>2 DEF Climbs
    <2>2. \A s \in SUBSET D : Cardinality(s) <= m + 1 => s \in T
      BY <2>1
    <2>3. m + 1 \in 0..N
      BY <1>1, <1>4
    <2> QED BY <2>2, <2>3
  <1>5. N \in U
    <2> HIDE DEF U
    <2>1. 0..N \subseteq U
      BY <1>1, <1>3, <1>4, UpTo
    <2> QED BY <1>1, <2>1
  <1> QED BY <1>2, <1>5

(* A fold is defined.                                                       *)
LEMMA FoldExists ==
  ASSUME NEW D, IsFiniteSet(D),
         NEW pick, Picks(pick, D),
         NEW V, NEW b \in V, NEW G, Steps(G, D, V)
  PROVE  \E f : IsFold(f, D, pick, b, G, V)
  <1> DEFINE N == Cardinality(D)
             Small(m) == {s \in SUBSET D : Cardinality(s) <= m}
             Body(f, s) == IF s = {} THEN b ELSE G[<<pick[s], f[s \ {pick[s]}]>>]
             T == {m \in 0..N : \E f : /\ f = [s \in Small(m) |-> Body(f, s)]
                                       /\ \A s \in Small(m) : f[s] \in V}
  <1>1. N \in Nat
    BY FS_CardinalityType
  <1>2. \A s \in SUBSET D : IsFiniteSet(s) /\ Cardinality(s) \in 0..N
    BY FS_Subset, FS_CardinalityType
  <1>3. 0 \in T
    <2> DEFINE f == [s \in Small(0) |-> b]
    <2>1. \A s \in Small(0) : s = {}
      BY <1>2, FS_EmptySet
    <2>2. \A s \in Small(0) : Body(f, s) = b
      BY <2>1
    <2>3. f = [s \in Small(0) |-> Body(f, s)]
      BY <2>2
    <2>4. \A s \in Small(0) : f[s] \in V
      BY <2>1
    <2>5. 0 \in 0..N
      BY <1>1
    <2> HIDE DEF f, Small, Body
    <2> QED BY <2>3, <2>4, <2>5
  <1>4. ASSUME NEW m \in 0..N, m \in T, m < N
        PROVE  m + 1 \in T
    <2>1. PICK g : /\ g = [s \in Small(m) |-> Body(g, s)]
                   /\ \A s \in Small(m) : g[s] \in V
      BY <1>4
    <2> DEFINE h == [s \in Small(m + 1) |-> Body(g, s)]
    <2>2. Small(m) \subseteq Small(m + 1)
      BY <1>1, <1>2
    <2>3. \A s \in Small(m + 1) : s # {} => s \ {pick[s]} \in Small(m)
      <3> SUFFICES ASSUME NEW s \in Small(m + 1), s # {}
                   PROVE  s \ {pick[s]} \in Small(m)
        OBVIOUS
      <3>1. IsFiniteSet(s) /\ Cardinality(s) \in Nat /\ pick[s] \in s
        BY <1>2 DEF Picks
      <3>2. Cardinality(s \ {pick[s]}) = Cardinality(s) - 1
        BY <3>1, FS_RemoveElement
      <3> QED BY <1>1, <3>1, <3>2
    <2>4. \A s \in Small(m) : h[s] = g[s]
      <3> HIDE DEF Body, Small
      <3> QED BY <2>1, <2>2
    <2>5. \A s \in Small(m + 1) : Body(h, s) = Body(g, s)
      <3> SUFFICES ASSUME NEW s \in Small(m + 1) PROVE Body(h, s) = Body(g, s)
        OBVIOUS
      <3>1. CASE s = {}
        BY <3>1
      <3>2. CASE s # {}
        <4>1. h[s \ {pick[s]}] = g[s \ {pick[s]}]
          BY <2>3, <2>4, <3>2
        <4> HIDE DEF h
        <4> QED BY <4>1
      <3> QED BY <3>1, <3>2
    <2>6. h = [s \in Small(m + 1) |-> Body(h, s)]
      <3>1. h = [s \in Small(m + 1) |-> Body(g, s)]
        OBVIOUS
      <3> HIDE DEF h, Body, Small
      <3> QED BY <2>5, <3>1
    <2>7. ASSUME NEW s \in Small(m + 1) PROVE h[s] \in V
      <3>1. h[s] = Body(g, s)
        OBVIOUS
      <3>2. CASE s = {}
        BY <3>1, <3>2
      <3>3. CASE s # {}
        <4>1. g[s \ {pick[s]}] \in V /\ pick[s] \in D
          BY <2>1, <2>3, <3>3 DEF Picks
        <4>2. Body(g, s) = G[<<pick[s], g[s \ {pick[s]}]>>]
          BY <3>3
        <4> HIDE DEF h, Body
        <4> QED BY <3>1, <4>1, <4>2 DEF Steps
      <3> QED BY <3>2, <3>3
    <2>8. m + 1 \in 0..N
      BY <1>1, <1>4
    <2> HIDE DEF h, Small, Body
    <2> QED BY <2>6, <2>7, <2>8
  <1>5. N \in T
    <2> HIDE DEF T
    <2>1. 0..N \subseteq T
      BY <1>1, <1>3, <1>4, UpTo
    <2> QED BY <1>1, <2>1
  <1>6. Small(N) = SUBSET D
    BY <1>1, <1>2
  <1>7. PICK f : /\ f = [s \in Small(N) |-> Body(f, s)]
                 /\ \A s \in Small(N) : f[s] \in V
    BY <1>5
  <1> QED BY <1>6, <1>7 DEF IsFold

-----------------------------------------------------------------------------
(* Sets and sequences *)

(* The image of a finite set is finite.                                     *)
LEMMA FiniteImage ==
  ASSUME NEW S, IsFiniteSet(S), NEW f
  PROVE  /\ IsFiniteSet({f[x] : x \in S})
         /\ Cardinality({f[x] : x \in S}) <= Cardinality(S)
  <1> DEFINE T == {f[x] : x \in S}
             g == [x \in S |-> f[x]]
  <1>1. g \in Surjection(S, T)
    BY DEF Surjection
  <1> HIDE DEF T, g
  <1>2. IsFiniteSet(T) /\ Cardinality(T) <= Cardinality(S)
    BY <1>1, FS_Surjection
  <1> QED BY <1>2 DEF T

(* A one-to-one image has as many elements.                                 *)
LEMMA OneToOneImage ==
  ASSUME NEW S, IsFiniteSet(S), NEW f,
         \A x, y \in S : f[x] = f[y] => x = y
  PROVE  /\ IsFiniteSet({f[x] : x \in S})
         /\ Cardinality({f[x] : x \in S}) = Cardinality(S)
  <1> DEFINE T == {f[x] : x \in S}
             g == [x \in S |-> f[x]]
  <1>1. g \in Bijection(S, T)
    BY DEF Bijection, Injection, Surjection, IsInjective
  <1> HIDE DEF T, g
  <1>2. ExistsBijection(S, T)
    BY <1>1 DEF ExistsBijection
  <1>3. IsFiniteSet(T) /\ Cardinality(T) = Cardinality(S)
    BY <1>2, FS_Bijection
  <1> QED BY <1>3 DEF T

(* SetToSeq lists the elements of a finite set.                             *)
LEMMA SetSeq ==
  ASSUME NEW S, IsFiniteSet(S)
  PROVE  /\ SetToSeq(S) \in Seq(S)
         /\ Len(SetToSeq(S)) = Cardinality(S)
         /\ \A i, j \in 1..Cardinality(S) :
               SetToSeq(S)[i] = SetToSeq(S)[j] => i = j
  <1>1. Cardinality(S) \in Nat /\ ExistsBijection(1..Cardinality(S), S)
    BY FS_CardinalityType
  <1>2. PICK f : f \in Bijection(1..Cardinality(S), S)
    BY <1>1 DEF ExistsBijection
  <1>3. f \in [1..Cardinality(S) -> S] /\ IsInjective(f)
    BY <1>2 DEF Bijection, Injection, IsInjective
  <1>4. SetToSeq(S) \in [1..Cardinality(S) -> S] /\ IsInjective(SetToSeq(S))
    BY <1>3 DEF SetToSeq
  <1> QED BY <1>1, <1>4 DEF IsInjective

(* An element of SetToSeqs lists them too, each once.                       *)
LEMMA SetSeqs ==
  ASSUME NEW S, IsFiniteSet(S), NEW es \in SetToSeqs(S)
  PROVE  /\ es \in Seq(S)
         /\ Len(es) = Cardinality(S) /\ Cardinality(S) \in Nat
         /\ \A i, j \in 1..Len(es) : es[i] = es[j] => i = j
         /\ \A x \in S : \E i \in 1..Len(es) : es[i] = x
  <1> DEFINE N == Cardinality(S)
  <1>1. N \in Nat
    BY FS_CardinalityType
  <1>2. es \in [1..N -> S] /\ \A i, j \in 1..N : i # j => es[i] # es[j]
    BY DEF SetToSeqs
  <1>3. es \in Seq(S) /\ Len(es) = N
    BY <1>1, <1>2
  <1>4. es \in Injection(1..N, S)
    BY <1>2 DEF Injection, IsInjective
  <1>5. Cardinality(1..N) = N
    BY <1>1, FS_Interval
  <1>6. es \in Surjection(1..N, S)
    BY <1>4, <1>5, FS_Injection
  <1>7. \A x \in S : \E i \in 1..N : es[i] = x
    BY <1>6 DEF Surjection
  <1> QED BY <1>1, <1>2, <1>3, <1>7

-----------------------------------------------------------------------------
(* Filling up boards *)

(* Subsets of the cards available, and how many are still needed.           *)
Filling(available) == [got : SUBSET available, needed : Nat]

(* One part: what was got is kept, and the part is used up or enough is got.*)
LEMMA FromOnePart ==
  ASSUME NEW available, IsFiniteSet(available), NEW devices \in SUBSET available,
         NEW a \in Filling(available),
         NEW b \in AllocateRemainingFrom(devices, a)
  PROVE  /\ b \in Filling(available)
         /\ Cardinality(b.got) + b.needed = Cardinality(a.got) + a.needed
         /\ a.got \subseteq b.got /\ b.got \subseteq a.got \cup devices
         /\ b.needed # 0 => a.needed # 0 /\ devices \subseteq b.got
         /\ a.needed = 0 => b.got = a.got
  <1> DEFINE new == devices \ a.got
  <1>1. a.got \in SUBSET available /\ a.needed \in Nat
    BY DEF Filling
  <1>2. IsFiniteSet(new) /\ IsFiniteSet(a.got) /\ Cardinality(new) \in Nat
          /\ Cardinality(a.got) \in Nat
    BY <1>1, FS_Subset, FS_CardinalityType
  <1>3. CASE Cardinality(new) <= a.needed
    <2>1. b = [got |-> a.got \cup new, needed |-> a.needed - Cardinality(new)]
      BY <1>3 DEF AllocateRemainingFrom
    <2>2. Cardinality(a.got \cup new) = Cardinality(a.got) + Cardinality(new)
      <3>1. a.got \cap new = {}
        OBVIOUS
      <3>2. Cardinality(a.got \cup new)
              = Cardinality(a.got) + Cardinality(new) - Cardinality(a.got \cap new)
        BY <1>2, FS_Union
      <3>3. Cardinality(a.got \cap new) = 0
        BY <3>1, FS_EmptySet
      <3> QED BY <1>2, <3>2, <3>3
    <2>3. b.got = a.got \cup devices /\ b.needed = a.needed - Cardinality(new)
      BY <2>1
    <2>4. b.needed \in Nat
      BY <1>1, <1>2, <1>3, <2>3
    <2>5. b \in Filling(available)
      BY <1>1, <2>1, <2>4 DEF Filling
    <2>6. Cardinality(b.got) + b.needed = Cardinality(a.got) + a.needed
      BY <1>1, <1>2, <2>1, <2>2
    <2>7. a.needed = 0 => new = {}
      BY <1>2, <1>3, FS_EmptySet
    <2>8. b.needed # 0 => a.needed # 0
      BY <1>1, <1>2, <1>3, <2>3
    <2> QED BY <2>3, <2>5, <2>6, <2>7, <2>8
  <1>4. CASE ~(Cardinality(new) <= a.needed)
    <2>1. PICK some \in kSubset(a.needed, new) : b = [got |-> a.got \cup some, needed |-> 0]
      BY <1>4 DEF AllocateRemainingFrom
    <2>2. some \in SUBSET new /\ Cardinality(some) = a.needed
      BY DEF kSubset
    <2>3. IsFiniteSet(some)
      BY <1>2, <2>2, FS_Subset
    <2>4. Cardinality(a.got \cup some) = Cardinality(a.got) + Cardinality(some)
      <3>1. a.got \cap some = {}
        BY <2>2
      <3>2. Cardinality(a.got \cup some)
              = Cardinality(a.got) + Cardinality(some) - Cardinality(a.got \cap some)
        BY <1>2, <2>3, FS_Union
      <3>3. Cardinality(a.got \cap some) = 0
        BY <3>1, FS_EmptySet
      <3> QED BY <1>1, <1>2, <2>2, <3>2, <3>3
    <2>5. b \in Filling(available)
      BY <1>1, <2>1, <2>2 DEF Filling
    <2>6. Cardinality(b.got) + b.needed = Cardinality(a.got) + a.needed
      BY <1>1, <1>2, <2>1, <2>2, <2>4
    <2>7. a.needed = 0 => some = {}
      BY <2>2, <2>3, FS_EmptySet
    <2> QED BY <2>1, <2>2, <2>5, <2>6, <2>7
  <1> QED BY <1>3, <1>4

(* The fold of Fill, from the parts s.                                      *)
FillOf(parts, wanted, f) ==
    [s \in SUBSET DOMAIN parts |->
        IF s = {} THEN {[got |-> {}, needed |-> wanted]}
        ELSE UNION {AllocateRemainingFrom(parts[Max(s)], a) : a \in f[s \ {Max(s)}]}]

(* What holds of a when the parts s were gone through: enough is got or all *)
(* of them are used up, and up to the last one that was touched they are.   *)
Filled(parts, s, available, wanted, a) ==
    /\ a \in Filling(available)
    /\ Cardinality(a.got) + a.needed = wanted
    /\ a.needed # 0 => \A j \in s : parts[j] \subseteq a.got
    /\ \E k \in s \cup {0} :
          /\ \A j \in s : j < k => parts[j] \subseteq a.got
          /\ \A c \in a.got : \E j \in s : j <= k /\ c \in parts[j]

LEMMA FillIsFold ==
  ASSUME NEW available, IsFiniteSet(available), NEW parts \in Seq(SUBSET available),
         NEW wanted \in Nat
  PROVE  \E f : f = FillOf(parts, wanted, f) /\ Fill(parts, wanted) = f[DOMAIN parts]
  <1> DEFINE D == DOMAIN parts
             V == SUBSET Filling(available)
             b == {[got |-> {}, needed |-> wanted]}
             pick == [s \in SUBSET D |-> Max(s)]
             G == [x \in D \X V |-> UNION {AllocateRemainingFrom(parts[x[1]], a) : a \in x[2]}]
  <1>1. D = 1..Len(parts) /\ Len(parts) \in Nat /\ IsFiniteSet(D)
    BY FS_Interval
  <1>2. \A s \in SUBSET D : s # {} => Max(s) \in s
    BY <1>1, MaxIn
  <1>3. Picks(pick, D)
    BY <1>2 DEF Picks
  <1>4. b \in V
    BY DEF Filling
  <1>5. ASSUME NEW i \in D, NEW F \in V
        PROVE  /\ G[<<i, F>>] = UNION {AllocateRemainingFrom(parts[i], a) : a \in F}
               /\ G[<<i, F>>] \in V
    <2>1. G[<<i, F>>] = UNION {AllocateRemainingFrom(parts[i], a) : a \in F}
      OBVIOUS
    <2>2. parts[i] \in SUBSET available
      OBVIOUS
    <2>3. \A a \in F : AllocateRemainingFrom(parts[i], a) \subseteq Filling(available)
      BY <2>2, FromOnePart
    <2> HIDE DEF G
    <2> QED BY <2>1, <2>3
  <1>6. PICK f : IsFold(f, D, pick, b, G, V)
    <2>1. Steps(G, D, V)
      BY <1>5 DEF Steps
    <2> HIDE DEF D, V, b, pick, G
    <2> QED BY <1>1, <1>3, <1>4, <2>1, FoldExists
  <1>7. \A s \in SUBSET D : s # {} =>
          G[<<pick[s], f[s \ {pick[s]}]>>]
            = UNION {AllocateRemainingFrom(parts[Max(s)], a) : a \in f[s \ {Max(s)}]}
    <2> SUFFICES ASSUME NEW s \in SUBSET D, s # {}
                 PROVE  G[<<pick[s], f[s \ {pick[s]}]>>]
                          = UNION {AllocateRemainingFrom(parts[Max(s)], a) :
                                       a \in f[s \ {Max(s)}]}
      OBVIOUS
    <2>1. pick[s] = Max(s) /\ Max(s) \in D
      BY <1>2
    <2>2. f[s \ {Max(s)}] \in V
      BY <1>6 DEF IsFold
    <2> HIDE DEF G, pick, D, V
    <2> QED BY <1>5, <2>1, <2>2
  <1>8. f = FillOf(parts, wanted, f)
    <2> HIDE DEF G, pick
    <2> QED BY <1>6, <1>7 DEF IsFold, FillOf
  <1> DEFINE h == CHOOSE g : g = FillOf(parts, wanted, g)
  <1>9. h = FillOf(parts, wanted, h)
    BY <1>8
  <1>10. Fill(parts, wanted) = h[DOMAIN parts]
    BY DEF Fill, FoldLeft, MapThenFoldSet, FillOf
  <1> QED BY <1>9, <1>10

LEMMA FillFits ==
  ASSUME NEW available, IsFiniteSet(available), NEW parts \in Seq(SUBSET available),
         NEW wanted \in Nat, NEW a \in Fill(parts, wanted)
  PROVE  Filled(parts, DOMAIN parts, available, wanted, a)
  <1>1. PICK f : f = FillOf(parts, wanted, f) /\ Fill(parts, wanted) = f[DOMAIN parts]
    BY FillIsFold
  <1> DEFINE D == DOMAIN parts
             pick == [s \in SUBSET D |-> Max(s)]
             T == {s \in SUBSET D : \A x \in f[s] : Filled(parts, s, available, wanted, x)}
  <1>2. D = 1..Len(parts) /\ Len(parts) \in Nat /\ IsFiniteSet(D)
    BY FS_Interval
  <1>3. \A s \in SUBSET D : s # {} => Max(s) \in s /\ \A j \in s : j <= Max(s)
    BY <1>2, MaxIn
  <1>4. {} \in T
    <2>1. f[{}] = {[got |-> {}, needed |-> wanted]}
      BY <1>1 DEF FillOf
    <2>2. Filled(parts, {}, available, wanted, [got |-> {}, needed |-> wanted])
      BY FS_EmptySet DEF Filled, Filling
    <2> QED BY <2>1, <2>2
  <1>5. ASSUME NEW s \in SUBSET D, s # {}, s \ {Max(s)} \in T
        PROVE  s \in T
    <2> SUFFICES ASSUME NEW y \in f[s] PROVE Filled(parts, s, available, wanted, y)
      OBVIOUS
    <2> DEFINE m == Max(s)
    <2>1. f[s] = UNION {AllocateRemainingFrom(parts[m], x) : x \in f[s \ {m}]}
      BY <1>1, <1>5 DEF FillOf
    <2>2. PICK x \in f[s \ {m}] : y \in AllocateRemainingFrom(parts[m], x)
      BY <2>1
    <2>3. Filled(parts, s \ {m}, available, wanted, x)
      BY <1>5
    <2>4. m \in s /\ (\A j \in s : j <= m) /\ m \in 1..Len(parts) /\ s \subseteq Nat
      BY <1>2, <1>3, <1>5
    <2>5. parts[m] \in SUBSET available
      BY <2>4
    <2> HIDE DEF m
    <2>6. /\ y \in Filling(available)
          /\ Cardinality(y.got) + y.needed = Cardinality(x.got) + x.needed
          /\ x.got \subseteq y.got /\ y.got \subseteq x.got \cup parts[m]
          /\ y.needed # 0 => x.needed # 0 /\ parts[m] \subseteq y.got
          /\ x.needed = 0 => y.got = x.got
      BY <2>2, <2>3, <2>5, FromOnePart DEF Filled
    <2>7. y.needed # 0 => \A j \in s : parts[j] \subseteq y.got
      BY <2>3, <2>6 DEF Filled
    <2>8. PICK k \in (s \ {m}) \cup {0} :
            /\ \A j \in s \ {m} : j < k => parts[j] \subseteq x.got
            /\ \A c \in x.got : \E j \in s \ {m} : j <= k /\ c \in parts[j]
      BY <2>3 DEF Filled
    <2>9. CASE x.needed = 0
      <3>1. ~ (m < k)
        BY <2>4, <2>8
      <3>2. k \in s \cup {0}
        BY <2>8
      <3>3. \A j \in s : j < k => parts[j] \subseteq y.got
        BY <2>6, <2>8, <2>9, <3>1
      <3>4. \A c \in y.got : \E j \in s : j <= k /\ c \in parts[j]
        BY <2>6, <2>8, <2>9
      <3> QED BY <2>3, <2>6, <2>7, <3>2, <3>3, <3>4 DEF Filled
    <2>10. CASE x.needed # 0
      <3>1. \A j \in s : j < m => parts[j] \subseteq y.got
        BY <2>3, <2>4, <2>6, <2>10 DEF Filled
      <3>2. \A c \in y.got : \E j \in s : j <= m /\ c \in parts[j]
        <4> SUFFICES ASSUME NEW c \in y.got
                     PROVE  \E j \in s : j <= m /\ c \in parts[j]
          OBVIOUS
        <4>1. CASE c \in parts[m]
          BY <2>4, <4>1
        <4>2. CASE c \notin parts[m]
          BY <2>4, <2>6, <2>8, <4>2
        <4> QED BY <4>1, <4>2
      <3> QED BY <2>3, <2>4, <2>6, <2>7, <3>1, <3>2 DEF Filled
    <2> QED BY <2>9, <2>10
  <1>6. SUBSET D \subseteq T
    <2>1. Picks(pick, D)
      BY <1>3 DEF Picks
    <2>2. Climbs(T, pick, D)
      <3>1. \A s \in SUBSET D : pick[s] = Max(s)
        OBVIOUS
      <3> HIDE DEF T, D, pick
      <3> QED BY <1>5, <3>1 DEF Climbs
    <2> HIDE DEF D, T, pick
    <2> QED BY <1>2, <1>4, <2>1, <2>2, SubsetInduction
  <1> QED BY <1>1, <1>6

-----------------------------------------------------------------------------
(* Groups, boards, and what is left without rings *)

IsSeq(s) == \E m \in Nat : DOMAIN s = 1..m

(* The groups read at the start are a sequence.                             *)
LEMMA CPUGroupsSeq ==
  ASSUME NEW h, IsFiniteSet(h.card)
  PROVE  IsSeq(CPUGroups(h))
  <1>1. CASE h.linkFails
    BY <1>1 DEF CPUGroups, IsSeq
  <1>2. CASE ~h.linkFails
    <2> DEFINE Visits(s) == Reached(h, s) \ UNION {Reached(h, r) : r \in {q \in h.card : q < s}}
               f == [s \in h.card |-> Visits(s)]
               S == {Visits(s) : s \in h.card} \ {{}}
    <2>1. IsFiniteSet(S)
      <3> HIDE DEF Visits
      <3>1. IsFiniteSet({f[s] : s \in h.card})
        <4> HIDE DEF f
        <4> QED BY FiniteImage
      <3>2. S \in SUBSET {f[s] : s \in h.card}
        OBVIOUS
      <3> HIDE DEF S, f
      <3> QED BY <3>1, <3>2, FS_Subset
    <2>2. Cardinality(S) \in Nat
      <3> HIDE DEF S
      <3> QED BY <2>1, FS_CardinalityType
    <2>3. DOMAIN LinkGroups(h) = 1..Cardinality(S)
      BY DEF LinkGroups, Sorted
    <2> HIDE DEF S
    <2> QED BY <1>2, <2>2, <2>3 DEF CPUGroups, IsSeq
  <1> QED BY <1>1, <1>2

(* What is available of them is, too.                                       *)
LEMMA GroupsSeq ==
  ASSUME NEW h, IsSeq(h.groups), NEW available
  PROVE  IsSeq(Groups(h, available)) /\ Len(Groups(h, available)) \in Nat
  <1> DEFINE G == Groups(h, available)
             D == DOMAIN h.groups
  <1>1. IsFiniteSet(D)
    BY FS_Interval DEF IsSeq
  <1>2. Cardinality(D) \in Nat
    <2> HIDE DEF D
    <2> QED BY <1>1, FS_CardinalityType
  <1>3. G = <<>> \/ DOMAIN G = 1..Cardinality(D)
    BY DEF Groups, Sorted
  <1>4. IsSeq(G)
    <2>1. CASE G = <<>>
      BY <2>1 DEF IsSeq
    <2>2. CASE DOMAIN G = 1..Cardinality(D)
      <3> HIDE DEF G, D
      <3> QED BY <1>2, <2>2 DEF IsSeq
    <2> QED BY <1>3, <2>1, <2>2
  <1>5. Len(G) \in Nat
    <2> HIDE DEF G
    <2> QED BY <1>4 DEF IsSeq
  <1> QED BY <1>4, <1>5

(* The boards in some order, those with fewer cards first.                  *)
ListsAll(order, available, home) ==
    /\ order \in Seq(SUBSET available)
    /\ order \in Seq(Split(available, home))
    /\ \A i, j \in 1..Len(order) : order[i] = order[j] => i = j
    /\ \A c \in available : \E i \in 1..Len(order) : c \in order[i]
    /\ \A i, j \in 1..Len(order) :
          j < i => Cardinality(order[j]) <= Cardinality(order[i])

LEMMA OrdersOfSplit ==
  ASSUME NEW available, IsFiniteSet(available), NEW home,
         NEW order \in Orders(Split(available, home))
  PROVE  ListsAll(order, available, home)
  <1> DEFINE S == Split(available, home)
             f == [c \in available |-> {d \in available : home[d] = home[c]}]
  <1>1. IsFiniteSet(S)
    <2>1. S = {f[c] : c \in available}
      BY DEF Split
    <2> HIDE DEF f
    <2> QED BY <2>1, FiniteImage
  <1>2. S \subseteq SUBSET available
    BY DEF Split
  <1>3. /\ order \in SetToSeqs(S)
        /\ \A i \in DOMAIN order : \A j \in 1..(i - 1) :
              Cardinality(order[j]) <= Cardinality(order[i])
    BY DEF Orders
  <1>4. \A c \in available : \E b \in S : c \in b
    <2> SUFFICES ASSUME NEW c \in available PROVE \E b \in S : c \in b
      OBVIOUS
    <2>1. {d \in available : home[d] = home[c]} \in S
      BY DEF Split
    <2> HIDE DEF S
    <2> QED BY <2>1
  <1> HIDE DEF S
  <1>5. /\ order \in Seq(S)
        /\ \A i, j \in 1..Len(order) : order[i] = order[j] => i = j
        /\ \A b \in S : \E i \in 1..Len(order) : order[i] = b
    BY <1>1, <1>3, SetSeqs
  <1>6. \A i, j \in 1..Len(order) :
           j < i => Cardinality(order[j]) <= Cardinality(order[i])
    BY <1>3, <1>5
  <1>7. order \in Seq(SUBSET available)
    BY <1>2, <1>5
  <1>8. \A c \in available : \E i \in 1..Len(order) : c \in order[i]
    BY <1>4, <1>5
  <1> QED BY <1>5, <1>6, <1>7, <1>8 DEF S, ListsAll

(* Visiting the boards group by group is still a sequence of parts.         *)
LEMMA BoardPartsSeq ==
  ASSUME NEW h, IsSeq(h.groups), NEW available,
         NEW boards \in Seq(SUBSET available)
  PROVE  BoardParts(h, available, boards) \in Seq(SUBSET available)
  <1> DEFINE groups == Groups(h, available)
             N == Len(groups)
             L == Len(boards)
             Visited(group, b) == IF b \subseteq group THEN b ELSE {}
             visit == [k \in 1..(N * L) |->
                         Visited(groups[((k - 1) \div L) + 1], boards[((k - 1) % L) + 1])]
  <1>1. BoardParts(h, available, boards) = IF groups = <<>> THEN boards ELSE visit
    BY DEF BoardParts
  <1>2. N \in Nat /\ L \in Nat
    BY GroupsSeq
  <1> HIDE DEF groups, N
  <1>3. N * L \in Nat
    <2> HIDE DEF L
    <2> QED BY <1>2
  <1>4. ASSUME NEW k \in 1..(N * L) PROVE ((k - 1) % L) + 1 \in 1..L
    <2> HIDE DEF L
    <2>1. L # 0
      BY <1>2, <1>4
    <2> QED BY <1>2, <1>3, <2>1
  <1>5. ASSUME NEW k \in 1..(N * L) PROVE visit[k] \in SUBSET available
    <2>1. boards[((k - 1) % L) + 1] \in SUBSET available
      BY <1>4
    <2> QED BY <2>1
  <1>6. visit \in [1..(N * L) -> SUBSET available]
    <2>1. visit = [k \in 1..(N * L) |-> visit[k]]
      OBVIOUS
    <2> HIDE DEF visit
    <2> QED BY <1>5, <2>1
  <1>7. visit \in Seq(SUBSET available)
    <2> HIDE DEF visit
    <2> QED BY <1>3, <1>6
  <1> QED BY <1>1, <1>7

(* The last part that is gone through makes up for all: whoever asks for no *)
(* more than there is gets it.                                              *)
LEMMA FillServes ==
  ASSUME NEW available, IsFiniteSet(available), NEW parts \in Seq(SUBSET available),
         \A c \in available : \E i \in 1..Len(parts) : c \in parts[i],
         NEW wanted \in Nat, wanted <= Cardinality(available),
         NEW a \in Fill(parts, wanted)
  PROVE  a.needed = 0 /\ a.got \in kSubset(wanted, available)
  <1>1. Filled(parts, DOMAIN parts, available, wanted, a)
    BY FillFits
  <1>2. a.got \in SUBSET available /\ a.needed \in Nat
    BY <1>1 DEF Filled, Filling
  <1>3. Cardinality(a.got) \in Nat /\ Cardinality(available) \in Nat
    BY <1>2, FS_Subset, FS_CardinalityType
  <1>4. a.needed = 0
    <2> SUFFICES ASSUME a.needed # 0 PROVE FALSE
      OBVIOUS
    <2>1. available \subseteq a.got
      BY <1>1 DEF Filled
    <2>2. a.got = available
      BY <1>2, <2>1
    <2> QED BY <1>1, <1>2, <1>3, <2>2 DEF Filled
  <1>5. Cardinality(a.got) = wanted
    BY <1>1, <1>3, <1>4 DEF Filled
  <1> QED BY <1>2, <1>4, <1>5 DEF kSubset

(* Without rings every allocator finds as many cards as the pod asks for.   *)
LEMMA RemainingServes ==
  ASSUME NEW h, h.allocator \in {"default", "spider", "board"}, IsSeq(h.groups),
         NEW available, IsFiniteSet(available),
         NEW wanted \in Nat, wanted <= Cardinality(available),
         NEW a \in Remaining(h, available, wanted)
  PROVE  a \in kSubset(wanted, available)
  <1>1. CASE h.allocator = "default"
    BY <1>1 DEF Remaining
  <1>2. CASE h.allocator = "spider"
    <2>1. PICK order \in Orders(Split(available, h.motherboard)) :
            \E x \in Fill(order, wanted) : a = IF x.needed = 0 THEN x.got ELSE None
      BY <1>2 DEF Remaining
    <2>2. PICK x \in Fill(order, wanted) : a = IF x.needed = 0 THEN x.got ELSE None
      BY <2>1
    <2>3. ListsAll(order, available, h.motherboard)
      BY OrdersOfSplit
    <2>4. x.needed = 0 /\ x.got \in kSubset(wanted, available)
      BY <2>2, <2>3, FillServes DEF ListsAll
    <2> QED BY <2>2, <2>4
  <1>3. CASE h.allocator = "board"
    <2>1. PICK order \in Orders(Split(available, h.board)) :
            \E x \in Fill(BoardParts(h, available, order) \o <<available>>, wanted) :
               a = IF x.needed = 0 THEN x.got ELSE None
      BY <1>3 DEF Remaining
    <2> DEFINE parts == BoardParts(h, available, order) \o <<available>>
    <2>2. PICK x \in Fill(parts, wanted) : a = IF x.needed = 0 THEN x.got ELSE None
      BY <2>1
    <2>3. order \in Seq(SUBSET available)
      BY OrdersOfSplit DEF ListsAll
    <2>4. BoardParts(h, available, order) \in Seq(SUBSET available)
      BY <2>3, BoardPartsSeq
    <2>5. /\ parts \in Seq(SUBSET available)
          /\ parts[Len(parts)] = available /\ Len(parts) \in 1..Len(parts)
      BY <2>4
    <2> HIDE DEF parts
    <2>6. x.needed = 0 /\ x.got \in kSubset(wanted, available)
      BY <2>2, <2>5, FillServes
    <2> QED BY <2>2, <2>6
  <1> QED BY <1>1, <1>2, <1>3

-----------------------------------------------------------------------------
(* The three allocators *)

(* What a policy asks of the cards a given out of those available.          *)
KeepsPolicy(h, pol, available, k, a) ==
    /\ \A cards \in kSubset(k, available) : h.rings[cards] <= h.rings[a]
    /\ pol # "best-effort" /\ k \in {2, 4, 8}
         /\ ~(h.allocator = "default" /\ k = 8 /\ Cardinality(available) = 8)
              => h.rings[a] > 0
    /\ pol = "restricted" => h.rings[a] >= RingsNeeded(h, k)

(* Preferring boards picks among the best.                                  *)
LEMMA PreferredIsCandidate ==
  ASSUME NEW h, h.allocator \in {"default", "spider", "board"},
         NEW available, NEW candidates, NEW a \in Preferred(h, available, candidates)
  PROVE  a \in candidates
  <1>1. \A places : InFirst(candidates, places) \subseteq candidates
    BY DEF InFirst
  <1>2. CASE h.allocator = "default"
    BY <1>2 DEF Preferred
  <1>3. CASE h.allocator = "spider"
    <2>1. a \in UNION {InFirst(candidates, mbs) : mbs \in Orders(Split(available, h.motherboard))}
      BY <1>3 DEF Preferred
    <2> QED BY <1>1, <2>1
  <1>4. CASE h.allocator = "board"
    <2>1. a \in InFirst(candidates, Groups(h, available))
      BY <1>4 DEF Preferred
    <2> QED BY <1>1, <2>1
  <1> QED BY <1>2, <1>3, <1>4

(* An allocator gives out as many cards as the pod asks for, keeping to the *)
(* policy, or an error, but not under best-effort.                          *)
LEMMA AllocateKeepsPolicy ==
  ASSUME NEW h, IsHost(h), IsSeq(h.groups),
         NEW available \in SUBSET h.card,
         NEW k \in Nat, k # 0, k <= Cardinality(available),
         NEW pol, NEW a \in Allocate(h, pol, available, k)
  PROVE  \/ a = None /\ pol # "best-effort"
         \/ a \in kSubset(k, available) /\ KeepsPolicy(h, pol, available, k, a)
  <1> DEFINE rings == GetRings(h, available, k)
             best == Best(h, rings)
  <1>1. /\ IsFiniteSet(available) /\ Cardinality(available) \in Nat
        /\ h.allocator \in {"default", "spider", "board"}
    BY FS_Subset, FS_CardinalityType DEF IsHost
  <1>2. \A c \in kSubset(k, available) :
           c \in SUBSET available /\ IsFiniteSet(c) /\ Cardinality(c) = k /\ h.rings[c] \in Nat
    BY <1>1, FS_Subset DEF kSubset, IsHost
  <1>3. CASE WithoutRings(h, available, k)
    <2>1. a \in kSubset(k, available)
      BY <1>3 DEF Allocate
    <2>2. h.allocator = "default" /\ RingsNeeded(h, k) = 0
      BY <1>3 DEF WithoutRings, RingsNeeded
    <2>3. ASSUME NEW cards \in kSubset(k, available)
          PROVE  h.rings[cards] <= h.rings[a]
      <3>1. CASE k = 1
        <4>1. PICK c : cards = {c}
          BY <1>2, <3>1, FS_Singleton
        <4>2. h.rings[cards] = 0
          BY <1>2, <4>1 DEF IsHost
        <4> QED BY <1>2, <2>1, <4>2
      <3>2. CASE k = 8 /\ Cardinality(available) = 8
        <4>1. cards = available /\ a = available
          BY <1>1, <1>2, <2>1, <3>2, FS_Subset
        <4> QED BY <1>2, <4>1
      <3> QED BY <1>3, <3>1, <3>2 DEF WithoutRings
    <2>4. k = 1 \/ (h.allocator = "default" /\ k = 8 /\ Cardinality(available) = 8)
      BY <1>3 DEF WithoutRings
    <2>5. k = 1 => k \notin {2, 4, 8}
      OBVIOUS
    <2> QED BY <1>2, <2>1, <2>2, <2>3, <2>4, <2>5 DEF KeepsPolicy
  <1>4. CASE ~WithoutRings(h, available, k) /\ rings = {}
    <2>1. a \in IF pol # "best-effort" /\ ~SizeAlwaysFailsToFormRing(h, k)
                THEN {None} ELSE Remaining(h, available, k)
      BY <1>4 DEF Allocate
    <2>2. CASE pol # "best-effort" /\ ~SizeAlwaysFailsToFormRing(h, k)
      BY <2>1, <2>2
    <2>3. CASE ~(pol # "best-effort" /\ ~SizeAlwaysFailsToFormRing(h, k))
      <3>1. a \in kSubset(k, available)
        BY <1>1, <2>1, <2>3, RemainingServes
      <3>2. \A c \in kSubset(k, available) : h.rings[c] = 0
        BY <1>2, <1>4 DEF GetRings
      <3>3. pol # "best-effort" => k \notin {2, 4, 8} /\ RingsNeeded(h, k) = 0
        <4> SUFFICES ASSUME pol # "best-effort"
                     PROVE  k \notin {2, 4, 8} /\ RingsNeeded(h, k) = 0
          OBVIOUS
        <4>1. CASE h.allocator = "default"
          BY <2>3, <4>1 DEF SizeAlwaysFailsToFormRing
        <4>2. CASE h.allocator = "spider"
          <5>1. k <= 1 \/ k > 8
            BY <2>3, <4>2 DEF SizeAlwaysFailsToFormRing
          <5> QED BY <4>2, <5>1 DEF RingsNeeded
        <4>3. CASE h.allocator = "board"
          <5>1. k <= 1 \/ k > 8 \/ k % 2 = 1
            BY <2>3, <4>3 DEF SizeAlwaysFailsToFormRing
          <5>2. k \notin {2, 4, 8}
            BY <5>1
          <5> QED BY <4>3, <5>2 DEF RingsNeeded
        <4> QED BY <1>1, <4>1, <4>2, <4>3
      <3> QED BY <3>1, <3>2, <3>3 DEF KeepsPolicy
    <2> QED BY <2>2, <2>3
  <1>5. CASE ~WithoutRings(h, available, k) /\ rings # {}
    <2> DEFINE tooFew == pol = "restricted" /\ \E c \in best : h.rings[c] < RingsNeeded(h, k)
    <2>1. a \in IF tooFew THEN {None} ELSE Preferred(h, available, best)
      BY <1>5 DEF Allocate
    <2>2. CASE tooFew
      <3>1. pol # "best-effort"
        BY <2>2
      <3> HIDE DEF tooFew
      <3> QED BY <2>1, <2>2, <3>1
    <2>3. CASE ~tooFew
      <3>1. a \in Preferred(h, available, best)
        <4> HIDE DEF tooFew
        <4> QED BY <2>1, <2>3
      <3>2. a \in best
        <4> HIDE DEF best
        <4> QED BY <1>1, <3>1, PreferredIsCandidate
      <3>3. a \in rings /\ \A d \in rings : h.rings[d] <= h.rings[a]
        BY <3>2 DEF Best
      <3>4. a \in kSubset(k, available) /\ h.rings[a] > 0
        BY <3>3 DEF GetRings
      <3>5. ASSUME NEW cards \in kSubset(k, available)
            PROVE  h.rings[cards] <= h.rings[a]
        <4>1. CASE cards \in rings
          BY <3>3, <4>1
        <4>2. CASE cards \notin rings
          <5>1. ~(h.rings[cards] > 0)
            BY <4>2 DEF GetRings
          <5> QED BY <1>2, <3>4, <5>1
        <4> QED BY <4>1, <4>2
      <3>6. pol = "restricted" => h.rings[a] >= RingsNeeded(h, k)
        <4>1. RingsNeeded(h, k) \in Nat
          BY DEF RingsNeeded
        <4>2. pol = "restricted" => ~(h.rings[a] < RingsNeeded(h, k))
          <5> HIDE DEF best
          <5> QED BY <2>3, <3>2
        <4> QED BY <1>2, <3>4, <4>1, <4>2
      <3> HIDE DEF best, rings
      <3> QED BY <3>4, <3>5, <3>6 DEF KeepsPolicy
    <2> QED BY <2>2, <2>3
  <1> QED BY <1>3, <1>4, <1>5

-----------------------------------------------------------------------------
(* Shares *)

(* The shares preferred are free, on different cards, as many as the pod    *)
(* asks for; there is none on a card with fewer free shares than another    *)
(* one that gives none.  It is refused if it asks for more than there are   *)
(* cards with a free share.                                                 *)
LEMMA SharesPreferred ==
  ASSUME NEW available, IsFiniteSet(available),
         NEW cards, available \subseteq cards \X Nat,
         NEW k \in Nat, k # 0, NEW a \in PreferredShares(available, k)
  PROVE  \/ a = None /\ k > Cardinality(CardsOf(available))
         \/ /\ a \in SUBSET available /\ Cardinality(a) = k
            /\ \A d, e \in a : d[1] = e[1] => d = e
            /\ \A d \in a, c \in CardsOf(available) \ CardsOf(a) :
                  Cardinality(SharesOf(available, d[1])) >= Cardinality(SharesOf(available, c))
  <1> DEFINE S == CardsOf(available)
             first == [d \in available |-> d[1]]
  <1>1. IsFiniteSet(S)
    <2>1. S = {first[d] : d \in available}
      BY DEF CardsOf
    <2> HIDE DEF first
    <2> QED BY <2>1, FiniteImage
  <1>2. PICK es \in ByFreeShares(available) :
           a = IF k > Len(es) THEN None
               ELSE {<<es[i], Min(SharesOf(available, es[i]))>> : i \in 1..k}
    BY DEF PreferredShares
  <1>3. /\ es \in SetToSeqs(S)
        /\ \A i \in DOMAIN es : \A j \in 1..(i - 1) :
              Cardinality(SharesOf(available, es[j])) >= Cardinality(SharesOf(available, es[i]))
    BY DEF ByFreeShares, CardsOf
  <1> HIDE DEF S
  <1>4. /\ es \in Seq(S) /\ Len(es) = Cardinality(S) /\ Cardinality(S) \in Nat
        /\ \A i, j \in 1..Len(es) : es[i] = es[j] => i = j
        /\ \A x \in S : \E i \in 1..Len(es) : es[i] = x
    BY <1>1, <1>3, SetSeqs
  <1>5. CASE k > Len(es)
    BY <1>2, <1>4, <1>5 DEF S
  <1>6. CASE ~(k > Len(es))
    <2> DEFINE share == [i \in 1..k |-> <<es[i], Min(SharesOf(available, es[i]))>>]
    <2>1. a = {share[i] : i \in 1..k}
      BY <1>2, <1>6
    <2>2. k <= Len(es) /\ \A i \in 1..k : i \in 1..Len(es)
      BY <1>4, <1>6
    <2>3. ASSUME NEW i \in 1..k PROVE share[i] \in available /\ share[i][1] = es[i]
      <3>1. es[i] \in S
        BY <1>4, <2>2
      <3>2. SharesOf(available, es[i]) \in SUBSET Nat /\ SharesOf(available, es[i]) # {}
        BY <3>1 DEF S, CardsOf, SharesOf
      <3>3. Min(SharesOf(available, es[i])) \in SharesOf(available, es[i])
        BY <3>2, MinIn
      <3>4. \A m \in SharesOf(available, es[i]) : <<es[i], m>> \in available
        BY DEF SharesOf
      <3> QED BY <3>3, <3>4
    <2> HIDE DEF share
    <2>4. \A i, j \in 1..k : share[i] = share[j] => i = j
      BY <1>4, <2>2, <2>3
    <2>5. a \in SUBSET available /\ \A d, e \in a : d[1] = e[1] => d = e
      BY <1>4, <2>1, <2>2, <2>3
    <2>6. Cardinality(a) = k
      <3>1. IsFiniteSet(1..k) /\ Cardinality(1..k) = k
        BY FS_Interval
      <3> QED BY <2>1, <2>4, <3>1, OneToOneImage
    <2>7. ASSUME NEW d \in a, NEW c \in S \ CardsOf(a)
          PROVE  Cardinality(SharesOf(available, d[1])) >= Cardinality(SharesOf(available, c))
      <3>1. PICK i \in 1..k : d = share[i]
        BY <2>1
      <3>2. PICK j \in 1..Len(es) : es[j] = c
        BY <1>4
      <3>3. j \notin 1..k
        <4> SUFFICES ASSUME j \in 1..k PROVE FALSE
          OBVIOUS
        <4>1. share[j] \in a /\ share[j][1] = c
          BY <2>1, <2>3, <3>2
        <4> QED BY <4>1 DEF CardsOf
      <3>4. i \in 1..(j - 1) /\ j \in DOMAIN es
        BY <1>4, <3>2, <3>3
      <3> QED BY <1>3, <2>3, <3>1, <3>2, <3>4
    <2> QED BY <2>5, <2>6, <2>7 DEF S
  <1> QED BY <1>5, <1>6

-----------------------------------------------------------------------------
(* The node *)

(* The plugin's record of a node has what the node has.                     *)
LEMMA NodeFacts ==
  ASSUME name \in Name
  PROVE  /\ IsHost(n) /\ IsSeq(n.groups)
         /\ \A cards \in SUBSET n.card : None # cards
         /\ \A devices \in SUBSET Devices : None # devices
  <1> DEFINE h == Node[name]
             groups == CPUGroups(h)
  <1>1. IsHost(h)
    BY NodeAssumption
  <1>2. IsSeq(groups)
    <2> HIDE DEF h
    <2> QED BY <1>1, CPUGroupsSeq DEF IsHost
  <1>3. n = [x \in DOMAIN h \cup {"groups"} |-> IF x = "groups" THEN groups ELSE h[x]]
    BY DEF n, Plugin, WithGroups
  <1> HIDE DEF h, groups
  <1>4. \A x \in DOMAIN h : x \in DOMAIN n /\ (x # "groups" => n[x] = h[x])
    BY <1>3
  <1>5. n.groups = groups
    BY <1>3
  <1> HIDE DEF n
  <1>6. /\ n.mode = h.mode /\ n.how = h.how /\ n.has = h.has /\ n.card = h.card
        /\ n.allocator = h.allocator /\ n.rings = h.rings
        /\ {"mode", "how", "has", "card", "board", "motherboard", "link", "linkFails",
            "rings", "allocator", "topoRule"} \subseteq DOMAIN n
    BY <1>1, <1>4 DEF IsHost
  <1>7. /\ h.mode = "env-share" => /\ "virtualizationNum" \in DOMAIN n
                                   /\ n.virtualizationNum = h.virtualizationNum
        /\ h.mode = "mim" => "instances" \in DOMAIN n /\ n.instances = h.instances
    BY <1>1, <1>4 DEF IsHost
  <1>8. IsHost(n)
    BY <1>1, <1>6, <1>7 DEF IsHost
  <1>9. Devices = DevicesOf(h)
    <2>1. CASE h.mode = "env-share"
      BY <1>6, <1>7, <2>1 DEF Devices, DevicesOf
    <2>2. CASE h.mode = "mim"
      BY <1>6, <1>7, <2>2 DEF Devices, DevicesOf
    <2>3. CASE h.mode \notin {"env-share", "mim"}
      BY <1>6, <2>3 DEF Devices, DevicesOf
    <2> QED BY <2>1, <2>2, <2>3
  <1> QED BY <1>2, <1>5, <1>6, <1>8, <1>9, NoneAssumption DEF h

(* There are finitely many devices, of the cards.                           *)
LEMMA DevicesFinite ==
  ASSUME name \in Name
  PROVE  /\ IsFiniteSet(Devices) /\ Devices \subseteq n.card \X Nat
         /\ Cardinality(Devices) \in Nat
         /\ n.mode \notin {"env-share", "mim"} => Devices = n.card \X {0}
         /\ n.mode = "env-share" =>
               /\ Devices = n.card \X (1..n.virtualizationNum)
               /\ n.virtualizationNum \in Nat
  <1>1. IsHost(n)
    BY NodeFacts
  <1> HIDE DEF n
  <1>2. CASE n.mode = "env-share"
    <2>1. Devices = n.card \X (1..n.virtualizationNum)
      BY <1>2 DEF Devices, DevicesOf
    <2>2. n.virtualizationNum \in Nat /\ IsFiniteSet(n.card)
      BY <1>1, <1>2 DEF IsHost
    <2>3. IsFiniteSet(1..n.virtualizationNum)
      BY <2>2, FS_Interval
    <2>4. IsFiniteSet(Devices)
      BY <2>1, <2>2, <2>3, FS_Product
    <2> QED BY <1>2, <2>1, <2>2, <2>4, FS_CardinalityType
  <1>3. CASE n.mode = "mim"
    <2> DEFINE f == [c \in n.card |-> {c} \X n.instances[c]]
    <2>1. Devices = UNION {f[c] : c \in n.card}
      BY <1>3 DEF Devices, DevicesOf
    <2>2. /\ n.instances \in [n.card -> SUBSET Nat] /\ IsFiniteSet(n.card)
          /\ \A c \in n.card : IsFiniteSet(n.instances[c])
      BY <1>1, <1>3 DEF IsHost
    <2>3. \A c \in n.card : IsFiniteSet(f[c]) /\ f[c] \subseteq n.card \X Nat
      <3> SUFFICES ASSUME NEW c \in n.card
                   PROVE  IsFiniteSet(f[c]) /\ f[c] \subseteq n.card \X Nat
        OBVIOUS
      <3>1. f[c] = {c} \X n.instances[c]
        OBVIOUS
      <3>2. IsFiniteSet({c}) /\ IsFiniteSet(n.instances[c])
        BY <2>2, FS_Singleton
      <3>3. IsFiniteSet({c} \X n.instances[c])
        BY <3>2, FS_Product
      <3> QED BY <2>2, <3>1, <3>3
    <2> HIDE DEF f
    <2>4. IsFiniteSet({f[c] : c \in n.card})
      BY <2>2, FiniteImage
    <2>5. IsFiniteSet(Devices)
      BY <2>1, <2>3, <2>4, FS_UNION
    <2> QED BY <1>3, <2>1, <2>3, <2>5, FS_CardinalityType
  <1>4. CASE n.mode \notin {"env-share", "mim"}
    <2>1. Devices = n.card \X {0}
      BY <1>4 DEF Devices, DevicesOf
    <2>2. IsFiniteSet(n.card) /\ IsFiniteSet({0})
      BY <1>1, FS_Singleton DEF IsHost
    <2>3. IsFiniteSet(Devices)
      BY <2>1, <2>2, FS_Product
    <2> QED BY <1>4, <2>1, <2>3, FS_CardinalityType
  <1> QED BY <1>2, <1>3, <1>4

(* A set of cards is as good as the set of their whole devices.             *)
LEMMA WholeCards ==
  ASSUME NEW cards, IsFiniteSet(cards)
  PROVE  /\ CardsOf(Whole(cards)) = cards
         /\ Cardinality(Whole(cards)) = Cardinality(cards)
  <1> DEFINE f == [c \in cards |-> <<c, 0>>]
  <1>1. Whole(cards) = {f[c] : c \in cards}
    BY DEF Whole
  <1>2. \A x, y \in cards : f[x] = f[y] => x = y
    OBVIOUS
  <1>3. CardsOf(Whole(cards)) = cards
    <2>1. \A c \in cards : <<c, 0>> \in Whole(cards) /\ <<c, 0>>[1] = c
      BY DEF Whole
    <2>2. \A d \in Whole(cards) : d[1] \in cards
      BY DEF Whole
    <2> QED BY <2>1, <2>2 DEF CardsOf
  <1> HIDE DEF f
  <1>4. Cardinality(Whole(cards)) = Cardinality(cards)
    BY <1>1, <1>2, OneToOneImage
  <1> QED BY <1>3, <1>4

LEMMA WholeDevices ==
  ASSUME NEW cards, NEW devices \in SUBSET (cards \X {0})
  PROVE  Whole(CardsOf(devices)) = devices /\ CardsOf(devices) \subseteq cards
  <1>1. \A d \in devices : d = <<d[1], 0>> /\ d[1] \in cards
    OBVIOUS
  <1>2. \A e \in CardsOf(devices) : <<e, 0>> \in devices
    BY <1>1 DEF CardsOf
  <1>3. \A x \in Whole(CardsOf(devices)) : x \in devices
    BY <1>2 DEF Whole
  <1>4. \A d \in devices : d \in Whole(CardsOf(devices))
    BY <1>1 DEF Whole, CardsOf
  <1> QED BY <1>1, <1>3, <1>4 DEF CardsOf

-----------------------------------------------------------------------------
(* The response of Allocate *)

Once(s) == \A i, j \in DOMAIN s : s[i] = s[j] => i = j

(* A sequence that holds nothing twice is as long as its set is large.      *)
LEMMA OnceIsLen ==
  ASSUME NEW X, NEW s \in Seq(X), Once(s)
  PROVE  Len(s) = Cardinality(ToSet(s))
  <1>1. DOMAIN s = 1..Len(s) /\ Len(s) \in Nat
    OBVIOUS
  <1>2. IsFiniteSet(DOMAIN s) /\ Cardinality(DOMAIN s) = Len(s)
    BY <1>1, FS_Interval
  <1>3. ToSet(s) = {s[i] : i \in DOMAIN s}
    BY DEF ToSet
  <1> QED BY <1>2, <1>3, OneToOneImage DEF Once

(* What is in a concatenation, and when it holds nothing twice.             *)
LEMMA ConcatFacts ==
  ASSUME NEW X, NEW s \in Seq(X), NEW t \in Seq(X)
  PROVE  /\ s \o t \in Seq(X)
         /\ ToSet(s \o t) = ToSet(s) \cup ToSet(t)
         /\ Once(s) /\ Once(t) /\ ToSet(s) \cap ToSet(t) = {} => Once(s \o t)
  <1> DEFINE u == s \o t
  <1>1. /\ u \in Seq(X) /\ Len(u) = Len(s) + Len(t)
        /\ \A i \in 1..Len(u) : u[i] = IF i <= Len(s) THEN s[i] ELSE t[i - Len(s)]
    OBVIOUS
  <1>2. /\ DOMAIN s = 1..Len(s) /\ DOMAIN t = 1..Len(t) /\ DOMAIN u = 1..Len(u)
        /\ Len(s) \in Nat /\ Len(t) \in Nat
    BY <1>1
  <1> HIDE DEF u
  <1>3. ToSet(u) \subseteq ToSet(s) \cup ToSet(t)
    <2> SUFFICES ASSUME NEW i \in DOMAIN u PROVE u[i] \in ToSet(s) \cup ToSet(t)
      BY DEF ToSet
    <2>1. CASE i <= Len(s)
      BY <1>1, <1>2, <2>1 DEF ToSet
    <2>2. CASE ~(i <= Len(s))
      <3>1. i - Len(s) \in DOMAIN t /\ u[i] = t[i - Len(s)]
        BY <1>1, <1>2, <2>2
      <3> QED BY <3>1 DEF ToSet
    <2> QED BY <2>1, <2>2
  <1>4. \A i \in DOMAIN s : i \in DOMAIN u /\ u[i] = s[i]
    BY <1>1, <1>2
  <1>5. \A i \in DOMAIN t : Len(s) + i \in DOMAIN u /\ u[Len(s) + i] = t[i]
    <2> SUFFICES ASSUME NEW i \in DOMAIN t
                 PROVE  Len(s) + i \in DOMAIN u /\ u[Len(s) + i] = t[i]
      OBVIOUS
    <2>1. i \in 1..Len(t) /\ Len(s) + i \in 1..Len(u) /\ ~(Len(s) + i <= Len(s))
            /\ (Len(s) + i) - Len(s) = i
      BY <1>1, <1>2
    <2> QED BY <1>1, <1>2, <2>1
  <1>6. ToSet(s) \cup ToSet(t) \subseteq ToSet(u)
    BY <1>4, <1>5 DEF ToSet
  <1>7. ASSUME Once(s), Once(t), ToSet(s) \cap ToSet(t) = {}
        PROVE  Once(u)
    <2> SUFFICES ASSUME NEW i \in DOMAIN u, NEW j \in DOMAIN u, u[i] = u[j]
                 PROVE  i = j
      BY DEF Once
    <2>1. \A k \in DOMAIN u :
             \/ k <= Len(s) /\ k \in DOMAIN s /\ u[k] = s[k] /\ u[k] \in ToSet(s)
             \/ /\ ~(k <= Len(s)) /\ k - Len(s) \in DOMAIN t
                /\ u[k] = t[k - Len(s)] /\ u[k] \in ToSet(t)
      BY <1>1, <1>2 DEF ToSet
    <2>2. CASE i <= Len(s)
      BY <1>7, <2>1, <2>2 DEF Once
    <2>3. CASE ~(i <= Len(s))
      <3>1. ~(j <= Len(s))
        BY <1>7, <2>1, <2>3
      <3>2. i - Len(s) = j - Len(s)
        BY <1>7, <2>1, <2>3, <3>1 DEF Once
      <3> QED BY <1>2, <3>2
    <2> QED BY <2>2, <2>3
  <1>8. ToSet(u) = ToSet(s) \cup ToSet(t)
    BY <1>3, <1>6
  <1> QED BY <1>1, <1>7, <1>8 DEF u

(* Sequences of one and of no element.                                      *)
LEMMA ShortSeqs ==
  /\ \A X : <<>> \in Seq(X)
  /\ ToSet(<<>>) = {} /\ Once(<<>>)
  /\ \A x : ToSet(<<x>>) = {x} /\ Once(<<x>>)
  /\ \A x, y : ToSet(<<x, y>>) = {x, y} /\ (x # y => Once(<<x, y>>))
  BY DEF ToSet, Once

(* SetToSeq lists every element of a finite set, once.                      *)
LEMMA SetSeqOnce ==
  ASSUME NEW S, IsFiniteSet(S)
  PROVE  /\ SetToSeq(S) \in Seq(S) /\ Once(SetToSeq(S))
         /\ ToSet(SetToSeq(S)) = S
  <1> DEFINE s == SetToSeq(S)
  <1>1. /\ s \in Seq(S) /\ Len(s) = Cardinality(S) /\ Cardinality(S) \in Nat
        /\ \A i, j \in 1..Cardinality(S) : s[i] = s[j] => i = j
    BY SetSeq, FS_CardinalityType
  <1> HIDE DEF s
  <1>2. s \in [1..Cardinality(S) -> S] /\ DOMAIN s = 1..Cardinality(S)
    BY <1>1
  <1>3. s \in SetToSeqs(S)
    BY <1>1, <1>2 DEF SetToSeqs
  <1>4. \A x \in S : \E i \in 1..Len(s) : s[i] = x
    BY <1>3, SetSeqs
  <1>5. ToSet(s) = S
    BY <1>1, <1>2, <1>4 DEF ToSet
  <1> QED BY <1>1, <1>2, <1>5 DEF Once, s

(* All the nodes a response may have.                                       *)
NodesOf(devices) ==
    (({"card", "ipcm"} \cup n.has) \X CardsOf(devices))
      \cup {<<"cap", d[1], d[2]>> : d \in devices}

(* The nodes a response must have for the devices.                          *)
Needed(devices) ==
    IF n.mode = "mim"
    THEN ({"card"} \cup (n.has \cap {"ipcm"})) \X CardsOf(devices)
           \cup {<<"cap", d[1], d[2]>> : d \in devices}
    ELSE ({"card"} \cup n.has) \X CardsOf(devices)

(* A step adds nodes of its device.                                         *)
LEMMA AddDeviceType ==
  ASSUME name \in Name, NEW d \in Devices, NEW resp \in Seq(NodesOf(Devices))
  PROVE  AddDevice(d, resp) \in Seq(NodesOf(Devices))
  <1> DEFINE N == NodesOf(Devices)
  <1>1. IsFiniteSet(n.has)
    BY NodeFacts DEF IsHost
  <1>2. /\ \A kind \in {"card", "ipcm"} \cup n.has : <<kind, d[1]>> \in N
        /\ <<"cap", d[1], d[2]>> \in N
    BY DEF NodesOf, CardsOf
  <1> HIDE DEF N
  <1>3. /\ <<>> \in Seq(N) /\ <<<<"card", d[1]>>>> \in Seq(N)
        /\ <<<<"card", d[1]>>, <<"ipcm", d[1]>>>> \in Seq(N)
        /\ <<<<"cap", d[1], d[2]>>>> \in Seq(N)
        /\ <<<<"card", d[1]>>, <<"ipcm", d[1]>>, <<"cap", d[1], d[2]>>>> \in Seq(N)
    BY <1>2
  <1>4. resp \in Seq(N)
    BY DEF N
  <1>5. AddMim(d, resp) \in Seq(N)
    <2> DEFINE new == IF Contains(resp, <<"card", d[1]>>) THEN <<>>
                      ELSE IF "ipcm" \in n.has THEN <<<<"card", d[1]>>, <<"ipcm", d[1]>>>>
                                               ELSE <<<<"card", d[1]>>>>
    <2>1. new \in Seq(N)
      BY <1>3
    <2>2. AddMim(d, resp) = (resp \o new) \o <<<<"cap", d[1], d[2]>>>>
      BY DEF AddMim
    <2> HIDE DEF new
    <2> QED BY <1>3, <1>4, <2>1, <2>2
  <1>6. AddCard(d, resp) \in Seq(N)
    <2> DEFINE K == n.has \cup {"card"}
               f == [kind \in K |-> <<kind, d[1]>>]
               S == {<<kind, d[1]>> : kind \in K}
    <2>1. IsFiniteSet(K)
      BY <1>1, FS_AddElement
    <2>2. S = {f[kind] : kind \in K}
      OBVIOUS
    <2>3. IsFiniteSet(S)
      <3> HIDE DEF f, K, S
      <3> QED BY <2>1, <2>2, FiniteImage
    <2>4. S \subseteq N
      BY <1>2
    <2>5. AddCard(d, resp) = resp \o SetToSeq(S)
      BY DEF AddCard
    <2> HIDE DEF S
    <2>6. SetToSeq(S) \in Seq(N)
      <3>1. SetToSeq(S) \in Seq(S)
        BY <2>3, SetSeqOnce
      <3> QED BY <2>4, <3>1
    <2> QED BY <1>4, <2>5, <2>6
  <1>7. AddEnv(d, resp) \in Seq(N)
    <2>1. CASE n.mode = "mim"
      BY <1>3, <1>4, <2>1 DEF AddEnv
    <2>2. CASE n.mode # "mim"
      BY <1>3, <1>4, <2>2 DEF AddEnv
    <2> QED BY <2>1, <2>2
  <1>8. AddDevice(d, resp) \in {resp, AddMim(d, resp), AddCard(d, resp), AddEnv(d, resp)}
    BY DEF AddDevice
  <1> QED BY <1>4, <1>5, <1>6, <1>7, <1>8 DEF N

(* The fold of PrepareResponse, from the devices s.                         *)
ResponseOf(devices, f) ==
    [s \in SUBSET devices |->
        IF s = {} THEN <<>>
        ELSE AddDevice(CHOOSE d \in s : TRUE, f[s \ {CHOOSE d \in s : TRUE}])]

LEMMA ResponseIsFold ==
  ASSUME name \in Name, NEW devices \in SUBSET Devices
  PROVE  \E f : /\ f = ResponseOf(devices, f)
                /\ PrepareResponse(devices) = f[devices]
                /\ \A s \in SUBSET devices : f[s] \in Seq(NodesOf(Devices))
  <1> DEFINE First(s) == CHOOSE d \in s : TRUE
             pick == [s \in SUBSET devices |-> First(s)]
             V == Seq(NodesOf(Devices))
             G == [x \in devices \X V |-> AddDevice(x[1], x[2])]
             h == CHOOSE f : f = ResponseOf(devices, f)
  <1>1. IsFiniteSet(devices)
    BY DevicesFinite, FS_Subset
  <1>2. \A s \in SUBSET devices : s # {} => First(s) \in s
    OBVIOUS
  <1>3. Picks(pick, devices)
    BY <1>2 DEF Picks
  <1>4. <<>> \in V
    OBVIOUS
  <1>5. \A d \in devices : \A v \in V : G[<<d, v>>] = AddDevice(d, v) /\ AddDevice(d, v) \in V
    BY AddDeviceType
  <1>6. Steps(G, devices, V)
    BY <1>5 DEF Steps
  <1>7. PICK f : IsFold(f, devices, pick, <<>>, G, V)
    <2> HIDE DEF pick, V, G
    <2> QED BY <1>1, <1>3, <1>4, <1>6, FoldExists
  <1>8. \A s \in SUBSET devices : s # {} =>
           G[<<pick[s], f[s \ {pick[s]}]>>] = AddDevice(First(s), f[s \ {First(s)}])
    <2> SUFFICES ASSUME NEW s \in SUBSET devices, s # {}
                 PROVE  G[<<pick[s], f[s \ {pick[s]}]>>]
                          = AddDevice(First(s), f[s \ {First(s)}])
      OBVIOUS
    <2>1. pick[s] = First(s) /\ First(s) \in devices
      BY <1>2
    <2>2. f[s \ {First(s)}] \in V
      BY <1>7 DEF IsFold
    <2> HIDE DEF G, pick, V, First
    <2> QED BY <1>5, <2>1, <2>2
  <1>9. f = ResponseOf(devices, f)
    <2> HIDE DEF G, pick, V
    <2> QED BY <1>7, <1>8 DEF IsFold, ResponseOf
  <1>10. h = ResponseOf(devices, h)
    BY <1>9
  <1>11. PrepareResponse(devices) = h[devices]
    BY DEF PrepareResponse, FoldSet, MapThenFoldSet, ResponseOf
  <1> DEFINE T == {s \in SUBSET devices : h[s] \in V}
  <1> HIDE DEF h
  <1>12. {} \in T
    BY <1>4, <1>10 DEF ResponseOf
  <1>13. Climbs(T, pick, devices)
    <2> SUFFICES ASSUME NEW s \in SUBSET devices, s # {}, s \ {First(s)} \in T
                 PROVE  h[s] \in V
      BY DEF Climbs
    <2>1. h[s] = AddDevice(First(s), h[s \ {First(s)}])
      BY <1>10 DEF ResponseOf
    <2>2. First(s) \in devices /\ h[s \ {First(s)}] \in V
      BY <1>2
    <2> HIDE DEF First, V, G
    <2> QED BY <1>5, <2>1, <2>2
  <1>14. SUBSET devices \subseteq T
    <2> HIDE DEF T, pick
    <2> QED BY <1>1, <1>3, <1>12, <1>13, SubsetInduction
  <1> QED BY <1>10, <1>11, <1>14

(* One more card on the right of a product.                                 *)
LEMMA CrossSplit ==
  ASSUME NEW K, NEW C, NEW c
  PROVE  K \X (C \cup {c}) = (K \X C) \cup (K \X {c})
  OBVIOUS

(* An instance adds its own node, and those of its card unless an instance  *)
(* of that card has.                                                        *)
LEMMA AddMimNeeded ==
  ASSUME name \in Name, n.mode = "mim",
         NEW rest \in SUBSET Devices, NEW d \in Devices, d \notin rest,
         NEW resp \in Seq(NodesOf(Devices)), Once(resp), ToSet(resp) = Needed(rest)
  PROVE  Once(AddMim(d, resp)) /\ ToSet(AddMim(d, resp)) = Needed(rest \cup {d})
  <1> DEFINE N == NodesOf(Devices)
             kinds == {"card"} \cup (n.has \cap {"ipcm"})
             caps(ds) == {<<"cap", e[1], e[2]>> : e \in ds}
             new == IF Contains(resp, <<"card", d[1]>>) THEN <<>>
                    ELSE IF "ipcm" \in n.has THEN <<<<"card", d[1]>>, <<"ipcm", d[1]>>>>
                                             ELSE <<<<"card", d[1]>>>>
             cap == <<"cap", d[1], d[2]>>
  <1>1. \A e, g \in Devices : <<"cap", e[1], e[2]>> = <<"cap", g[1], g[2]>> => e = g
    <2>1. \A e \in Devices : e = <<e[1], e[2]>>
      BY DevicesFinite
    <2> QED BY <2>1
  <1>2. cap \notin caps(rest)
    BY <1>1
  <1>3. \A c, x, y, z : \A kind \in kinds : <<kind, c>> # <<"cap", x, y>>
    OBVIOUS
  <1>4. Needed(rest) = (kinds \X CardsOf(rest)) \cup caps(rest)
    BY DEF Needed
  <1>5. Needed(rest \cup {d}) = (kinds \X CardsOf(rest \cup {d})) \cup caps(rest \cup {d})
    BY DEF Needed
  <1>6. CardsOf(rest \cup {d}) = CardsOf(rest) \cup {d[1]}
    BY DEF CardsOf
  <1>7. caps(rest \cup {d}) = caps(rest) \cup {cap}
    OBVIOUS
  <1>8. Contains(resp, <<"card", d[1]>>) <=> d[1] \in CardsOf(rest)
    <2>1. Contains(resp, <<"card", d[1]>>) <=> <<"card", d[1]>> \in Needed(rest)
      BY DEF Contains, ToSet
    <2>2. <<"card", d[1]>> \in Needed(rest) <=> d[1] \in CardsOf(rest)
      <3>1. <<"card", d[1]>> \notin caps(rest)
        BY <1>3
      <3>2. <<"card", d[1]>> \in kinds \X CardsOf(rest) <=> d[1] \in CardsOf(rest)
        OBVIOUS
      <3> HIDE DEF caps, kinds
      <3> QED BY <1>4, <3>1, <3>2
    <2> QED BY <2>1, <2>2
  <1>9. AddMim(d, resp) = (resp \o new) \o <<cap>>
    BY DEF AddMim
  <1>10. /\ \A kind \in {"card", "ipcm"} : <<kind, d[1]>> \in N
         /\ cap \in N
    BY DEF NodesOf, CardsOf
  <1>11. resp \in Seq(N) /\ <<cap>> \in Seq(N)
    BY <1>10
  <1>12. /\ new \in Seq(N) /\ Once(new)
         /\ ToSet(new) = IF d[1] \in CardsOf(rest) THEN {} ELSE kinds \X {d[1]}
    <2> HIDE DEF N
    <2>1. CASE d[1] \in CardsOf(rest)
      BY <1>8, <2>1, ShortSeqs
    <2>2. CASE d[1] \notin CardsOf(rest) /\ "ipcm" \in n.has
      <3>1. new = <<<<"card", d[1]>>, <<"ipcm", d[1]>>>>
        BY <1>8, <2>2
      <3>2. kinds \X {d[1]} = {<<"card", d[1]>>, <<"ipcm", d[1]>>}
        BY <2>2
      <3>3. <<"card", d[1]>> # <<"ipcm", d[1]>>
        OBVIOUS
      <3> HIDE DEF new, kinds
      <3> QED BY <1>10, <2>2, <3>1, <3>2, <3>3, ShortSeqs
    <2>3. CASE d[1] \notin CardsOf(rest) /\ "ipcm" \notin n.has
      <3>1. new = <<<<"card", d[1]>>>>
        BY <1>8, <2>3
      <3>2. kinds \X {d[1]} = {<<"card", d[1]>>}
        BY <2>3
      <3> HIDE DEF new, kinds
      <3> QED BY <1>10, <2>3, <3>1, <3>2, ShortSeqs
    <2> QED BY <2>1, <2>2, <2>3
  <1>13. cap \notin kinds \X {d[1]} /\ cap \notin Needed(rest)
    <2>1. \A c : cap \notin kinds \X {c}
      BY <1>3
    <2>2. cap \notin kinds \X CardsOf(rest)
      BY <1>3
    <2> HIDE DEF kinds, caps
    <2> QED BY <1>2, <1>4, <2>1, <2>2
  <1>14. ToSet(resp) \cap ToSet(new) = {}
    <2>1. CASE d[1] \in CardsOf(rest)
      BY <1>12, <2>1
    <2>2. CASE d[1] \notin CardsOf(rest)
      <3>1. (kinds \X CardsOf(rest)) \cap (kinds \X {d[1]}) = {}
        BY <2>2
      <3>2. caps(rest) \cap (kinds \X {d[1]}) = {}
        BY <1>3
      <3>3. ToSet(new) = kinds \X {d[1]}
        BY <1>12, <2>2
      <3> HIDE DEF kinds, caps, new
      <3> QED BY <1>4, <3>1, <3>2, <3>3
    <2> QED BY <2>1, <2>2
  <1> HIDE DEF N, new, cap
  <1>15. /\ resp \o new \in Seq(N) /\ Once(resp \o new)
         /\ ToSet(resp \o new) = ToSet(resp) \cup ToSet(new)
    BY <1>11, <1>12, <1>14, ConcatFacts
  <1>16. ToSet(<<cap>>) = {cap} /\ Once(<<cap>>)
    BY ShortSeqs
  <1>17. ToSet(resp \o new) \cap ToSet(<<cap>>) = {}
    <2> HIDE DEF kinds
    <2> QED BY <1>12, <1>13, <1>15, <1>16
  <1>18. /\ Once(AddMim(d, resp))
         /\ ToSet(AddMim(d, resp)) = ToSet(resp) \cup ToSet(new) \cup {cap}
    <2> DEFINE half == resp \o new
               last == <<cap>>
    <2>1. half \in Seq(N) /\ Once(half) /\ ToSet(half) = ToSet(resp) \cup ToSet(new)
      BY <1>15
    <2>2. AddMim(d, resp) = half \o last /\ ToSet(half) \cap ToSet(last) = {}
      BY <1>9, <1>17
    <2>3. last \in Seq(N) /\ Once(last) /\ ToSet(last) = {cap}
      BY <1>11, <1>16
    <2> HIDE DEF half, last
    <2>4. ToSet(half \o last) = ToSet(half) \cup ToSet(last) /\ Once(half \o last)
      BY <2>1, <2>2, <2>3, ConcatFacts
    <2> QED BY <2>1, <2>2, <2>3, <2>4
  <1>19. ToSet(resp) \cup ToSet(new) \cup {cap} = Needed(rest \cup {d})
    <2> DEFINE A == kinds \X CardsOf(rest)
               B == kinds \X {d[1]}
    <2>1. kinds \X CardsOf(rest \cup {d}) = A \cup B
      BY <1>6, CrossSplit
    <2>2. ToSet(new) = B \/ (ToSet(new) = {} /\ B \subseteq A)
      <3>1. d[1] \in CardsOf(rest) => B \subseteq A
        OBVIOUS
      <3> QED BY <1>12, <3>1
    <2>3. Needed(rest \cup {d}) = (A \cup B) \cup (caps(rest) \cup {cap})
      BY <1>5, <1>7, <2>1
    <2>4. ToSet(resp) = A \cup caps(rest)
      BY <1>4
    <2> HIDE DEF A, B, caps, kinds
    <2> QED BY <2>2, <2>3, <2>4
  <1> QED BY <1>18, <1>19

(* A card adds its nodes.                                                   *)
LEMMA AddCardNeeded ==
  ASSUME name \in Name, n.mode # "mim",
         NEW rest \in SUBSET Devices, NEW d \in Devices, d[1] \notin CardsOf(rest),
         NEW resp \in Seq(NodesOf(Devices)), Once(resp), ToSet(resp) = Needed(rest)
  PROVE  Once(AddCard(d, resp)) /\ ToSet(AddCard(d, resp)) = Needed(rest \cup {d})
  <1> DEFINE N == NodesOf(Devices)
             K == n.has \cup {"card"}
             f == [kind \in K |-> <<kind, d[1]>>]
             S == {<<kind, d[1]>> : kind \in K}
  <1>1. IsFiniteSet(K)
    <2>1. IsFiniteSet(n.has)
      BY NodeFacts DEF IsHost
    <2> QED BY <2>1, FS_AddElement
  <1>2. S = {f[kind] : kind \in K}
    OBVIOUS
  <1>3. IsFiniteSet(S)
    <2> HIDE DEF f, K, S
    <2> QED BY <1>1, <1>2, FiniteImage
  <1>4. S \subseteq N
    BY DEF NodesOf, CardsOf
  <1>5. AddCard(d, resp) = resp \o SetToSeq(S)
    BY DEF AddCard
  <1>6. Needed(rest) = K \X CardsOf(rest) /\ Needed(rest \cup {d}) = K \X CardsOf(rest \cup {d})
    BY DEF Needed
  <1>7. CardsOf(rest \cup {d}) = CardsOf(rest) \cup {d[1]}
    BY DEF CardsOf
  <1>8. S = K \X {d[1]}
    OBVIOUS
  <1>9. S \cap (K \X CardsOf(rest)) = {}
    OBVIOUS
  <1>10. K \X CardsOf(rest \cup {d}) = (K \X CardsOf(rest)) \cup S
    BY <1>7, <1>8, CrossSplit
  <1>11. resp \in Seq(N)
    OBVIOUS
  <1> HIDE DEF N, K, S
  <1>12. SetToSeq(S) \in Seq(N) /\ Once(SetToSeq(S)) /\ ToSet(SetToSeq(S)) = S
    <2>1. SetToSeq(S) \in Seq(S) /\ Once(SetToSeq(S)) /\ ToSet(SetToSeq(S)) = S
      BY <1>3, SetSeqOnce
    <2> QED BY <1>4, <2>1
  <1>13. ToSet(resp) \cap ToSet(SetToSeq(S)) = {}
    BY <1>6, <1>9, <1>12
  <1>14. /\ Once(resp \o SetToSeq(S))
         /\ ToSet(resp \o SetToSeq(S)) = ToSet(resp) \cup S
    BY <1>11, <1>12, <1>13, ConcatFacts
  <1> QED BY <1>5, <1>6, <1>10, <1>14

(* Devices of which no two are of one card, unless they are instances.      *)
OnePerCard(devices) ==
    n.mode # "mim" => \A d, e \in devices : d[1] = e[1] => d = e

(* A container that gets device nodes gets those of its devices, each once. *)
LEMMA ResponseFits ==
  ASSUME name \in Name, n.how = "nodes",
         NEW devices \in SUBSET Devices, OnePerCard(devices)
  PROVE  /\ PrepareResponse(devices) \in Seq(NodesOf(Devices))
         /\ Once(PrepareResponse(devices))
         /\ ToSet(PrepareResponse(devices)) = Needed(devices)
  <1>1. PICK f : /\ f = ResponseOf(devices, f)
                 /\ PrepareResponse(devices) = f[devices]
                 /\ \A s \in SUBSET devices : f[s] \in Seq(NodesOf(Devices))
    BY ResponseIsFold
  <1> DEFINE First(s) == CHOOSE d \in s : TRUE
             pick == [s \in SUBSET devices |-> First(s)]
             T == {s \in SUBSET devices : Once(f[s]) /\ ToSet(f[s]) = Needed(s)}
  <1>2. \A s \in SUBSET devices : s # {} => First(s) \in s
    OBVIOUS
  <1>3. Picks(pick, devices)
    BY <1>2 DEF Picks
  <1>4. IsFiniteSet(devices)
    BY DevicesFinite, FS_Subset
  <1>5. {} \in T
    <2>1. f[{}] = <<>>
      BY <1>1 DEF ResponseOf
    <2>2. Needed({}) = {}
      <3>1. CardsOf({}) = {}
        BY DEF CardsOf
      <3> HIDE DEF n
      <3> QED BY <3>1 DEF Needed
    <2> QED BY <2>1, <2>2, ShortSeqs
  <1>6. Climbs(T, pick, devices)
    <2> SUFFICES ASSUME NEW s \in SUBSET devices, s # {}, s \ {First(s)} \in T
                 PROVE  s \in T
      BY DEF Climbs
    <2> DEFINE d == First(s)
               rest == s \ {d}
    <2>1. f[s] = AddDevice(d, f[rest])
      BY <1>1 DEF ResponseOf
    <2>2. d \in s /\ d \in Devices /\ d \notin rest /\ rest \in SUBSET Devices
      BY <1>2
    <2>3. s = rest \cup {d}
      BY <2>2
    <2>4. rest \in SUBSET devices
      OBVIOUS
    <2>5. f[rest] \in Seq(NodesOf(Devices)) /\ Once(f[rest]) /\ ToSet(f[rest]) = Needed(rest)
      BY <1>1, <2>4
    <2> HIDE DEF d, rest, First
    <2> DEFINE resp == f[rest]
    <2>6. resp \in Seq(NodesOf(Devices)) /\ Once(resp) /\ ToSet(resp) = Needed(rest)
      BY <2>5
    <2>7. Once(AddDevice(d, f[rest])) /\ ToSet(AddDevice(d, f[rest])) = Needed(rest \cup {d})
      <3>1. CASE n.mode = "mim"
        <4>1. AddDevice(d, f[rest]) = AddMim(d, f[rest])
          BY <3>1 DEF AddDevice
        <4>2. Once(AddMim(d, resp)) /\ ToSet(AddMim(d, resp)) = Needed(rest \cup {d})
          <5> HIDE DEF resp, n, Devices
          <5> QED BY <2>2, <2>6, <3>1, AddMimNeeded
        <4> QED BY <4>1, <4>2
      <3>2. CASE n.mode # "mim"
        <4>1. AddDevice(d, f[rest]) = AddCard(d, f[rest])
          BY <3>2 DEF AddDevice
        <4>2. d[1] \notin CardsOf(rest)
          <5>1. d \in devices /\ \A e \in rest : e \in devices /\ e # d
            BY <2>2, <2>4
          <5>2. \A e \in rest : d[1] # e[1]
            BY <3>2, <5>1 DEF OnePerCard
          <5> QED BY <5>2 DEF CardsOf
        <4>3. Once(AddCard(d, resp)) /\ ToSet(AddCard(d, resp)) = Needed(rest \cup {d})
          <5> HIDE DEF resp, n, Devices
          <5> QED BY <2>2, <2>6, <3>2, <4>2, AddCardNeeded
        <4> QED BY <4>1, <4>3
      <3> QED BY <3>1, <3>2
    <2> QED BY <2>1, <2>3, <2>7
  <1>7. SUBSET devices \subseteq T
    <2> HIDE DEF T, pick
    <2> QED BY <1>3, <1>4, <1>5, <1>6, SubsetInduction
  <1> QED BY <1>1, <1>7

(* What a container gets belongs to cards and devices of the node.          *)
LEMMA ResponseType ==
  ASSUME name \in Name, NEW devices \in SUBSET Devices
  PROVE  ToSet(PrepareResponse(devices)) \subseteq
           (({"card", "ipcm"} \cup n.has) \X n.card)
             \cup {<<"cap", d[1], d[2]>> : d \in Devices}
  <1>1. PrepareResponse(devices) \in Seq(NodesOf(Devices))
    BY ResponseIsFold
  <1>2. ToSet(PrepareResponse(devices)) \subseteq NodesOf(Devices)
    BY <1>1 DEF ToSet
  <1>3. CardsOf(Devices) \subseteq n.card
    <2>1. Devices \subseteq n.card \X Nat
      BY DevicesFinite
    <2> QED BY <2>1 DEF CardsOf
  <1>4. NodesOf(Devices) \subseteq (({"card", "ipcm"} \cup n.has) \X n.card)
                                     \cup {<<"cap", d[1], d[2]>> : d \in Devices}
    <2> HIDE DEF n, Devices
    <2> QED BY <1>3 DEF NodesOf
  <1> QED BY <1>2, <1>4

-----------------------------------------------------------------------------
(* The shares of a card *)

(* Shares that are given are no longer among those left.                    *)
LEMMA SharesAdd ==
  ASSUME name \in Name, n.mode = "env-share",
         NEW us \in SUBSET Devices, NEW new \in SUBSET Devices, us \cap new = {},
         NEW c
  PROVE  /\ IsFiniteSet(SharesOf(us, c)) /\ Cardinality(SharesOf(us, c)) \in Nat
         /\ Cardinality(SharesOf(new, c)) \in Nat
         /\ Cardinality(SharesOf(us \cup new, c))
              = Cardinality(SharesOf(us, c)) + Cardinality(SharesOf(new, c))
  <1> DEFINE V == n.virtualizationNum
             A == SharesOf(us, c)
             B == SharesOf(new, c)
  <1>1. V \in Nat /\ Devices = n.card \X (1..V)
    BY DevicesFinite
  <1> HIDE DEF V, Devices, n
  <1>2. A \subseteq 1..V /\ B \subseteq 1..V
    <2>1. \A d \in Devices : d[2] \in 1..V
      BY <1>1
    <2>2. \A d \in us \cup new : d[2] \in 1..V
      BY <2>1
    <2> QED BY <2>2 DEF SharesOf
  <1>3. IsFiniteSet(A) /\ IsFiniteSet(B)
    <2>1. IsFiniteSet(1..V)
      BY <1>1, FS_Interval
    <2> HIDE DEF A, B
    <2> QED BY <1>2, <2>1, FS_Subset
  <1>4. SharesOf(us \cup new, c) = A \cup B
    <2> DEFINE In(X) == {e \in X : e[1] = c}
    <2>1. In(us \cup new) = In(us) \cup In(new)
      OBVIOUS
    <2>2. /\ SharesOf(us \cup new, c) = {d[2] : d \in In(us \cup new)}
          /\ A = {d[2] : d \in In(us)} /\ B = {d[2] : d \in In(new)}
      BY DEF SharesOf
    <2> HIDE DEF In, A, B
    <2> QED BY <2>1, <2>2
  <1>5. A \cap B = {}
    <2> SUFFICES ASSUME NEW x \in A, x \in B PROVE FALSE
      OBVIOUS
    <2>1. PICK d \in us : d[1] = c /\ d[2] = x
      BY DEF SharesOf
    <2>2. PICK e \in new : e[1] = c /\ e[2] = x
      BY DEF SharesOf
    <2>3. d = <<d[1], d[2]>> /\ e = <<e[1], e[2]>>
      BY <1>1, <2>1, <2>2
    <2> QED BY <2>1, <2>2, <2>3
  <1>6. Cardinality(A \cap B) = 0
    BY <1>5, FS_EmptySet
  <1> HIDE DEF A, B
  <1>7. /\ Cardinality(A) \in Nat /\ Cardinality(B) \in Nat
        /\ Cardinality(A \cup B) = Cardinality(A) + Cardinality(B) - Cardinality(A \cap B)
    BY <1>3, FS_Union, FS_CardinalityType
  <1>8. Cardinality(A \cup B) = Cardinality(A) + Cardinality(B)
    BY <1>6, <1>7
  <1> QED BY <1>3, <1>4, <1>7, <1>8 DEF A, B

(* All shares of a card are in use or free.                                 *)
LEMMA SharesCount ==
  ASSUME name \in Name, n.mode = "env-share",
         NEW us \in SUBSET Devices, NEW c \in n.card
  PROVE  /\ Cardinality(SharesOf(us, c)) \in Nat
         /\ Cardinality(SharesOf(Devices \ us, c)) \in Nat
         /\ Cardinality(SharesOf(us, c)) + Cardinality(SharesOf(Devices \ us, c))
              = n.virtualizationNum
  <1> DEFINE V == n.virtualizationNum
  <1>1. V \in Nat /\ Devices = n.card \X (1..V)
    BY DevicesFinite
  <1>2. us \cup (Devices \ us) = Devices
    OBVIOUS
  <1>3. SharesOf(Devices, c) = 1..V
    <2> HIDE DEF V, Devices, n
    <2>1. \A x \in 1..V : <<c, x>> \in Devices /\ <<c, x>>[1] = c /\ <<c, x>>[2] = x
      BY <1>1
    <2>2. \A d \in Devices : d[2] \in 1..V
      BY <1>1
    <2> QED BY <2>1, <2>2 DEF SharesOf
  <1>4. Cardinality(SharesOf(Devices, c)) = V
    BY <1>1, <1>3, FS_Interval
  <1>5. Devices \ us \in SUBSET Devices /\ us \cap (Devices \ us) = {}
    OBVIOUS
  <1> HIDE DEF Devices, n
  <1> QED BY <1>2, <1>4, <1>5, SharesAdd

(* One share of each card that is asked for.                                *)
LEMMA OneShare ==
  ASSUME NEW a, \A d, e \in a : d[1] = e[1] => d = e, NEW c
  PROVE  /\ c \in CardsOf(a) => Cardinality(SharesOf(a, c)) = 1
         /\ c \notin CardsOf(a) => Cardinality(SharesOf(a, c)) = 0
  <1>1. CASE c \in CardsOf(a)
    <2>1. PICK d \in a : d[1] = c
      BY <1>1 DEF CardsOf
    <2>2. {e \in a : e[1] = c} = {d}
      BY <2>1
    <2>3. SharesOf(a, c) = {d[2]}
      BY <2>2 DEF SharesOf
    <2> QED BY <1>1, <2>3, FS_Singleton
  <1>2. CASE c \notin CardsOf(a)
    <2>1. SharesOf(a, c) = {}
      BY <1>2 DEF SharesOf, CardsOf
    <2> QED BY <1>2, <2>1, FS_EmptySet
  <1> QED BY <1>1, <1>2

(* Shares taken off the cards with most of them leave the cards in balance. *)
LEMMA SharesStayBalanced ==
  ASSUME name \in Name, n.mode = "env-share", used \in SUBSET Devices,
         \A c, d \in n.card :
            Cardinality(SharesOf(used, c)) <= Cardinality(SharesOf(used, d)) + 1,
         NEW k \in Nat, k # 0, NEW a \in PreferredShares(Free, k), a # None
  PROVE  \A c, d \in n.card :
            Cardinality(SharesOf(used \cup a, c)) <= Cardinality(SharesOf(used \cup a, d)) + 1
  <1> SUFFICES ASSUME NEW c \in n.card, NEW d \in n.card
               PROVE  Cardinality(SharesOf(used \cup a, c))
                        <= Cardinality(SharesOf(used \cup a, d)) + 1
    OBVIOUS
  <1> DEFINE V == n.virtualizationNum
             u(x) == Cardinality(SharesOf(used, x))
             f(x) == Cardinality(SharesOf(Free, x))
             g(x) == Cardinality(SharesOf(a, x))
  <1>1. /\ IsFiniteSet(Free) /\ Free \subseteq n.card \X Nat /\ Free = Devices \ used
        /\ V \in Nat
    BY DevicesFinite, FS_Subset DEF Free
  <1> HIDE DEF n, Devices, Free
  <1>2. /\ a \in SUBSET Free
        /\ \A x, y \in a : x[1] = y[1] => x = y
        /\ \A x \in a, y \in CardsOf(Free) \ CardsOf(a) : f(x[1]) >= f(y)
    BY <1>1, SharesPreferred
  <1>3. a \in SUBSET Devices /\ used \cap a = {}
    BY <1>1, <1>2
  <1>4. \A x \in n.card : /\ u(x) \in Nat /\ f(x) \in Nat /\ u(x) + f(x) = V
    BY <1>1, SharesCount
  <1>5. \A x : Cardinality(SharesOf(used \cup a, x)) = u(x) + g(x)
    BY <1>3, SharesAdd
  <1>6. \A x : /\ x \in CardsOf(a) => g(x) = 1
               /\ x \notin CardsOf(a) => g(x) = 0
    BY <1>2, OneShare
  <1>7. u(c) <= u(d) + 1
    OBVIOUS
  <1>8. \A x : x \notin CardsOf(Free) => f(x) = 0
    <2>1. \A x : x \notin CardsOf(Free) => SharesOf(Free, x) = {}
      BY DEF SharesOf, CardsOf
    <2> QED BY <2>1, FS_EmptySet
  <1>9. c \in CardsOf(a) /\ d \notin CardsOf(a) => f(c) >= f(d)
    <2> SUFFICES ASSUME c \in CardsOf(a), d \notin CardsOf(a) PROVE f(c) >= f(d)
      OBVIOUS
    <2>1. PICK x \in a : x[1] = c
      BY DEF CardsOf
    <2>2. CASE d \in CardsOf(Free)
      BY <1>2, <2>1, <2>2
    <2>3. CASE d \notin CardsOf(Free)
      <3>1. f(d) = 0 /\ f(c) \in Nat
        BY <1>4, <1>8, <2>3
      <3> HIDE DEF f
      <3> QED BY <3>1
    <2> QED BY <2>2, <2>3
  <1> HIDE DEF u, f, g
  <1>10. u(c) + g(c) <= u(d) + g(d) + 1
    <2>1. /\ u(c) \in Nat /\ f(c) \in Nat /\ u(c) + f(c) = V
          /\ u(d) \in Nat /\ f(d) \in Nat /\ u(d) + f(d) = V
      BY <1>4
    <2>2. CASE c \in CardsOf(a) /\ d \notin CardsOf(a)
      BY <1>1, <1>6, <1>9, <2>1, <2>2
    <2>3. CASE c \in CardsOf(a) /\ d \in CardsOf(a)
      BY <1>6, <1>7, <2>1, <2>3
    <2>4. CASE c \notin CardsOf(a)
      <3>1. g(c) = 0 /\ g(d) \in {0, 1}
        BY <1>6, <2>4
      <3> QED BY <1>7, <2>1, <3>1
    <2> QED BY <2>2, <2>3, <2>4
  <1> QED BY <1>5, <1>10

-----------------------------------------------------------------------------
(* The invariant *)

(* Nothing is read again from the node.                                     *)
LEMMA SameNode ==
  ASSUME UNCHANGED name
  PROVE  n' = n /\ Devices' = Devices /\ (UNCHANGED used => Free' = Free)
  BY DEF n, Devices, Free

LEMMA FreeFacts ==
  ASSUME name \in Name
  PROVE  /\ Free \subseteq Devices /\ IsFiniteSet(Free)
         /\ Cardinality(Free) \in Nat /\ Cardinality(Free) <= Cardinality(Devices)
  <1>1. Free \subseteq Devices
    BY DEF Free
  <1> HIDE DEF Free, Devices
  <1> QED BY <1>1, DevicesFinite, FS_Subset, FS_CardinalityType

LEMMA InitIInv == Init => IInv
  <1> SUFFICES ASSUME Init PROVE IInv
    OBVIOUS
  <1>1. /\ name \in Name /\ pc = "idle" /\ size = 0 /\ answer = None /\ response = <<>>
        /\ rushed = FALSE /\ released = (n.mode = "topology-aware")
    BY DEF Init
  <1>2. used \in SUBSET Devices /\ (n.mode = "env-share" => used = {})
    BY DEF Init
  <1>3. policy \in Policy \cup {"best-effort"}
    BY DEF Init
  <1>4. Cardinality(Devices) \in Nat
    BY <1>1, DevicesFinite
  <1> HIDE DEF n, Devices
  <1>5. TypeOK
    <2>1. ToSet(response) = {}
      BY <1>1, ShortSeqs
    <2>2. ToSet(response) \subseteq (({"card", "ipcm"} \cup n.has) \X n.card)
                                      \cup {<<"cap", d[1], d[2]>> : d \in Devices}
      BY <2>1
    <2>3. size \in 0..Cardinality(Devices)
      BY <1>1, <1>4
    <2>4. pc \in Phase /\ rushed \in BOOLEAN /\ released \in BOOLEAN
      BY <1>1 DEF Phase
    <2> QED BY <1>1, <1>2, <1>3, <2>2, <2>3, <2>4 DEF TypeOK
  <1>6. SharesBalanced
    <2> SUFFICES ASSUME n.mode = "env-share", NEW c \in n.card, NEW d \in n.card
                 PROVE  Cardinality(SharesOf(used, c)) <= Cardinality(SharesOf(used, d)) + 1
      BY DEF SharesBalanced
    <2>1. SharesOf(used, c) = {} /\ SharesOf(used, d) = {}
      BY <1>2 DEF SharesOf
    <2> QED BY <2>1, FS_EmptySet
  <1> QED BY <1>1, <1>5, <1>6 DEF IInv, AskFits, PreferenceFits, PolicyKept,
                                  ServesWhatItCan, AnswerIsOfShares, ContainerSeesItsDevices

LEMMA AskIInv == IInv /\ Ask => IInv'
  <1> SUFFICES ASSUME IInv, Ask PROVE IInv'
    OBVIOUS
  <1>1. /\ size' \in 1..Cardinality(Free) /\ pc' = "asked"
        /\ UNCHANGED <<name, policy, used, answer, response, rushed, released>>
    BY DEF Ask
  <1>2. n' = n /\ Devices' = Devices /\ Free' = Free
    BY <1>1, SameNode
  <1>3. TypeOK /\ SharesBalanced
    BY DEF IInv
  <1>4. name \in Name
    BY <1>3 DEF TypeOK
  <1>5. Cardinality(Free) \in Nat /\ Cardinality(Devices) \in Nat
        /\ Cardinality(Free) <= Cardinality(Devices)
    BY <1>4, FreeFacts, DevicesFinite
  <1> HIDE DEF n, Devices, Free
  <1>6. TypeOK'
    <2>1. size' \in 0..Cardinality(Devices')
      BY <1>1, <1>2, <1>5
    <2>2. UNCHANGED <<name, policy, used, answer, response, rushed, released>>
      BY <1>1
    <2>3. pc' \in Phase
      BY <1>1 DEF Phase
    <2> QED BY <1>2, <1>3, <2>1, <2>2, <2>3 DEF TypeOK
  <1>7. AskFits'
    BY <1>1, <1>2 DEF AskFits
  <1>8. SharesBalanced'
    BY <1>1, <1>2, <1>3 DEF SharesBalanced
  <1> QED BY <1>1, <1>6, <1>7, <1>8 DEF IInv, PreferenceFits, PolicyKept,
                ServesWhatItCan, AnswerIsOfShares, ContainerSeesItsDevices

(* An answer that is right keeps the invariant.                             *)
LEMMA AnswerIInv ==
  ASSUME IInv, pc = "asked", pc' = "answered", rushed' \in BOOLEAN,
         UNCHANGED <<name, policy, used, size, response, released>>,
         answer' = None \/ (answer' \in SUBSET Free /\ Cardinality(answer') = size),
         n.mode = "topology-aware" /\ ~rushed' /\ answer' # None
           => KeepsPolicy(n, policy, CardsOf(Free), size, CardsOf(answer')),
         answer' = None => \/ policy # "best-effort" \/ rushed'
                           \/ n.mode = "env-share" /\ size > Cardinality(CardsOf(Free)),
         n.mode = "env-share" => answer' \in PreferredShares(Free, size)
  PROVE  IInv'
  <1>1. n' = n /\ Devices' = Devices /\ Free' = Free
    BY SameNode
  <1>2. TypeOK /\ AskFits /\ SharesBalanced
    BY DEF IInv
  <1>3. Free \subseteq Devices
    BY DEF Free
  <1> HIDE DEF n, Devices, Free
  <1>4. TypeOK'
    BY <1>1, <1>2, <1>3 DEF TypeOK, Phase
  <1>5. AskFits'
    BY <1>1, <1>2 DEF AskFits
  <1>6. PreferenceFits'
    BY <1>1 DEF PreferenceFits
  <1>7. PolicyKept'
    <2> HIDE DEF RingsNeeded
    <2> QED BY <1>1 DEF PolicyKept, KeepsPolicy, EightOfEight
  <1>8. ServesWhatItCan'
    BY <1>1 DEF ServesWhatItCan
  <1>9. AnswerIsOfShares'
    BY <1>1 DEF AnswerIsOfShares
  <1>10. SharesBalanced'
    BY <1>1, <1>2 DEF SharesBalanced
  <1>11. ContainerSeesItsDevices'
    BY DEF ContainerSeesItsDevices
  <1> QED BY <1>4, <1>5, <1>6, <1>7, <1>8, <1>9, <1>10, <1>11 DEF IInv

(* What the answer is for.                                                  *)
LEMMA Asked ==
  ASSUME IInv, pc = "asked"
  PROVE  /\ name \in Name /\ size \in Nat /\ size # 0 /\ size <= Cardinality(Free)
         /\ IsFiniteSet(Free) /\ Free \subseteq n.card \X Nat
         /\ None # Free /\ \A devices \in SUBSET Free : None # devices
         /\ rushed \in BOOLEAN
  <1>1. TypeOK /\ AskFits
    BY DEF IInv
  <1>2. name \in Name /\ rushed \in BOOLEAN
    BY <1>1 DEF TypeOK
  <1>3. Free \subseteq Devices /\ IsFiniteSet(Free) /\ Cardinality(Free) \in Nat
    BY <1>2, FreeFacts
  <1>4. Devices \subseteq n.card \X Nat /\ \A devices \in SUBSET Devices : None # devices
    BY <1>2, DevicesFinite, NodeFacts
  <1> HIDE DEF Free, Devices, n
  <1>5. size \in 1..Cardinality(Free)
    BY <1>1 DEF AskFits
  <1> QED BY <1>2, <1>3, <1>4, <1>5

LEMMA KubeletChoosesIInv == IInv /\ KubeletChooses => IInv'
  <1> SUFFICES ASSUME IInv, KubeletChooses PROVE IInv'
    OBVIOUS
  <1>1. /\ pc = "asked" /\ n.mode \notin {"env-share", "topology-aware"}
        /\ answer' \in kSubset(size, Free) /\ pc' = "answered"
        /\ UNCHANGED <<name, policy, used, size, response, released, rushed>>
    BY DEF KubeletChooses, AnswerWith
  <1>2. rushed \in BOOLEAN /\ \A devices \in SUBSET Free : None # devices
    BY <1>1, Asked
  <1>3. answer' \in SUBSET Free /\ Cardinality(answer') = size
    BY <1>1 DEF kSubset
  <1> HIDE DEF n, Free
  <1>4. answer' # None
    BY <1>2, <1>3
  <1> QED BY <1>1, <1>2, <1>3, <1>4, AnswerIInv

LEMMA GetPreferredEnvShareIInv == IInv /\ GetPreferredEnvShare => IInv'
  <1> SUFFICES ASSUME IInv, GetPreferredEnvShare PROVE IInv'
    OBVIOUS
  <1>1. /\ pc = "asked" /\ n.mode = "env-share"
        /\ answer' \in PreferredShares(Free, size) /\ pc' = "answered"
        /\ UNCHANGED <<name, policy, used, size, response, released, rushed>>
    BY DEF GetPreferredEnvShare, AnswerWith
  <1>2. /\ size \in Nat /\ size # 0 /\ rushed \in BOOLEAN
        /\ IsFiniteSet(Free) /\ Free \subseteq n.card \X Nat
        /\ \A devices \in SUBSET Free : None # devices
    BY <1>1, Asked
  <1> HIDE DEF n, Free
  <1>3. \/ answer' = None /\ size > Cardinality(CardsOf(Free))
        \/ answer' \in SUBSET Free /\ Cardinality(answer') = size
    BY <1>1, <1>2, SharesPreferred
  <1>4. answer' = None => size > Cardinality(CardsOf(Free))
    BY <1>2, <1>3
  <1> QED BY <1>1, <1>2, <1>3, <1>4, AnswerIInv

(* In mode topology-aware a device is a card.                               *)
LEMMA FreeCards ==
  ASSUME name \in Name, n.mode = "topology-aware"
  PROVE  /\ CardsOf(Free) \in SUBSET n.card /\ IsFiniteSet(CardsOf(Free))
         /\ Free = Whole(CardsOf(Free)) /\ Cardinality(CardsOf(Free)) = Cardinality(Free)
  <1>1. Devices = n.card \X {0}
    BY DevicesFinite
  <1>2. Free \in SUBSET (n.card \X {0})
    BY <1>1 DEF Free
  <1>3. IsFiniteSet(n.card)
    BY NodeFacts DEF IsHost
  <1> HIDE DEF n, Devices, Free
  <1>4. Whole(CardsOf(Free)) = Free /\ CardsOf(Free) \subseteq n.card
    BY <1>2, WholeDevices
  <1>5. IsFiniteSet(CardsOf(Free))
    BY <1>3, <1>4, FS_Subset
  <1>6. Cardinality(Whole(CardsOf(Free))) = Cardinality(CardsOf(Free))
    BY <1>5, WholeCards
  <1> QED BY <1>4, <1>5, <1>6

LEMMA GetPreferredAllIInv == IInv /\ GetPreferredAll => IInv'
  <1> SUFFICES ASSUME IInv, GetPreferredAll PROVE IInv'
    OBVIOUS
  <1>1. /\ pc = "asked" /\ n.mode = "topology-aware"
        /\ policy = "best-effort" /\ Cardinality(Free) = size
        /\ answer' = Free /\ pc' = "answered"
        /\ UNCHANGED <<name, policy, used, size, response, released, rushed>>
    BY DEF GetPreferredAll, NeedsAll, AnswerWith
  <1>2. name \in Name /\ rushed \in BOOLEAN /\ None # Free
    BY <1>1, Asked
  <1> DEFINE cards == CardsOf(Free)
  <1>3. cards \in SUBSET n.card /\ IsFiniteSet(cards) /\ Cardinality(cards) = size
    BY <1>1, <1>2, FreeCards
  <1>4. n.rings[cards] \in Nat
    BY <1>2, <1>3, NodeFacts DEF IsHost
  <1> HIDE DEF n, Free, cards
  <1>5. \A c \in kSubset(size, cards) : c = cards
    <2> SUFFICES ASSUME NEW c \in SUBSET cards, Cardinality(c) = size PROVE c = cards
      BY DEF kSubset
    <2> QED BY <1>3, FS_Subset
  <1>6. \A c \in kSubset(size, cards) : n.rings[c] <= n.rings[cards]
    BY <1>4, <1>5
  <1>7. KeepsPolicy(n, policy, cards, size, cards)
    <2> HIDE DEF RingsNeeded
    <2> QED BY <1>1, <1>6 DEF KeepsPolicy
  <1> QED BY <1>1, <1>2, <1>7, AnswerIInv DEF cards

LEMMA GetPreferredRingsIInv == IInv /\ GetPreferredRings => IInv'
  <1> SUFFICES ASSUME IInv, GetPreferredRings PROVE IInv'
    OBVIOUS
  <1> DEFINE cards == CardsOf(Free)
  <1>1. /\ pc = "asked" /\ n.mode = "topology-aware" /\ pc' = "answered"
        /\ UNCHANGED <<name, policy, used, size, response, released, rushed>>
        /\ \E a \in Allocate(n, policy, cards, size) :
              answer' = IF a = None THEN None ELSE Whole(a)
    BY DEF GetPreferredRings, AnswerWith, ToDevices
  <1>2. PICK a \in Allocate(n, policy, cards, size) :
           answer' = IF a = None THEN None ELSE Whole(a)
    BY <1>1
  <1>3. /\ name \in Name /\ rushed \in BOOLEAN
        /\ size \in Nat /\ size # 0 /\ size <= Cardinality(Free)
        /\ \A devices \in SUBSET Free : None # devices
    BY <1>1, Asked
  <1>4. /\ cards \in SUBSET n.card /\ IsFiniteSet(cards)
        /\ Free = Whole(cards) /\ Cardinality(cards) = Cardinality(Free)
    BY <1>1, <1>3, FreeCards
  <1>5. /\ IsHost(n) /\ IsSeq(n.groups)
        /\ \A c \in SUBSET n.card : None # c
    BY <1>3, NodeFacts
  <1> HIDE DEF n, Free, cards
  <1>6. \/ a = None /\ policy # "best-effort"
        \/ a \in kSubset(size, cards) /\ KeepsPolicy(n, policy, cards, size, a)
    BY <1>3, <1>4, <1>5, AllocateKeepsPolicy
  <1>7. CASE a = None /\ policy # "best-effort"
    BY <1>1, <1>2, <1>3, <1>7, AnswerIInv
  <1>8. CASE a \in kSubset(size, cards) /\ KeepsPolicy(n, policy, cards, size, a)
    <2>1. a \in SUBSET cards /\ Cardinality(a) = size
      BY <1>8 DEF kSubset
    <2>2. a # None /\ IsFiniteSet(a)
      BY <1>4, <1>5, <2>1, FS_Subset
    <2>3. answer' = Whole(a)
      BY <1>2, <2>2
    <2>4. CardsOf(answer') = a /\ Cardinality(answer') = size
      BY <2>1, <2>2, <2>3, WholeCards
    <2>5. answer' \in SUBSET Free
      BY <1>4, <2>1, <2>3 DEF Whole
    <2>6. answer' # None
      BY <1>3, <2>5
    <2> QED BY <1>1, <1>3, <1>8, <2>4, <2>5, <2>6, AnswerIInv DEF cards
  <1> QED BY <1>6, <1>7, <1>8

LEMMA GetPreferredWithoutRingsIInv == IInv /\ GetPreferredWithoutRings => IInv'
  <1> SUFFICES ASSUME IInv, GetPreferredWithoutRings PROVE IInv'
    OBVIOUS
  <1> DEFINE cards == CardsOf(Free)
  <1>1. /\ pc = "asked" /\ n.mode = "topology-aware" /\ pc' = "answered"
        /\ UNCHANGED <<name, policy, used, size, response, released>>
        /\ rushed' = TRUE
        /\ \/ answer' = None
           \/ \E a \in AllocateLate(policy, cards, size) :
                 answer' = IF a = None THEN None ELSE Whole(a)
    BY DEF GetPreferredWithoutRings, AnswerWith, ToDevices
  <1>2. name \in Name /\ \A devices \in SUBSET Free : None # devices
    BY <1>1, Asked
  <1>3. /\ cards \in SUBSET n.card /\ IsFiniteSet(cards) /\ Free = Whole(cards)
    BY <1>1, <1>2, FreeCards
  <1> HIDE DEF n, Free, cards
  <1>4. CASE answer' = None
    BY <1>1, <1>4, AnswerIInv
  <1>5. CASE answer' # None
    <2>1. PICK a \in AllocateLate(policy, cards, size) : a # None /\ answer' = Whole(a)
      BY <1>1, <1>5
    <2>2. a \in kSubset(size, cards)
      BY <2>1 DEF AllocateLate
    <2>3. a \in SUBSET cards /\ Cardinality(a) = size /\ IsFiniteSet(a)
      BY <1>3, <2>2, FS_Subset DEF kSubset
    <2>4. answer' \in SUBSET Free /\ Cardinality(answer') = size
      BY <1>3, <2>1, <2>3, WholeCards DEF Whole
    <2> QED BY <1>1, <1>5, <2>4, AnswerIInv
  <1> QED BY <1>4, <1>5

(* What a pod is given.                                                     *)
LEMMA Answered ==
  ASSUME IInv, pc = "answered", answer # None, answer \subseteq Devices
  PROVE  OnePerCard(answer)
  <1>1. TypeOK /\ AskFits /\ AnswerIsOfShares
    BY DEF IInv
  <1>2. name \in Name
    BY <1>1 DEF TypeOK
  <1>3. /\ Free \subseteq Devices /\ IsFiniteSet(Free) /\ Cardinality(Free) \in Nat
        /\ Devices \subseteq n.card \X Nat
        /\ n.mode \notin {"env-share", "mim"} => Devices = n.card \X {0}
        /\ IsHost(n)
    BY <1>2, FreeFacts, DevicesFinite, NodeFacts
  <1> HIDE DEF Free, Devices, n
  <1>4. size \in Nat /\ size # 0
    BY <1>1, <1>3 DEF AskFits
  <1>5. CASE n.mode = "env-share"
    <2>1. answer \in PreferredShares(Free, size)
      BY <1>1, <1>5 DEF AnswerIsOfShares
    <2>2. Free \subseteq n.card \X Nat
      BY <1>3
    <2>3. \A d, e \in answer : d[1] = e[1] => d = e
      BY <1>3, <1>4, <2>1, <2>2, SharesPreferred
    <2> QED BY <2>3 DEF OnePerCard
  <1>6. CASE n.mode = "mim"
    BY <1>6 DEF OnePerCard
  <1>7. CASE n.mode \notin {"env-share", "mim"}
    <2>1. \A d \in answer : d = <<d[1], 0>>
      BY <1>3, <1>7
    <2> QED BY <2>1 DEF OnePerCard
  <1> QED BY <1>5, <1>6, <1>7

LEMMA AdmitIInv == IInv /\ Admit => IInv'
  <1> SUFFICES ASSUME IInv, Admit PROVE IInv'
    OBVIOUS
  <1>1. pc = "answered" /\ rushed' = FALSE /\ UNCHANGED <<name, policy, released>>
    BY DEF Admit
  <1>2. TypeOK /\ AskFits /\ AnswerIsOfShares /\ SharesBalanced
    BY DEF IInv
  <1>3. n' = n /\ Devices' = Devices
    BY <1>1, SameNode
  <1>4. /\ name \in Name /\ used \in SUBSET Devices
        /\ size \in 0..Cardinality(Devices) /\ Cardinality(Devices) \in Nat
    BY <1>2, DevicesFinite DEF TypeOK
  <1>5. CASE answer # None /\ answer \subseteq Devices
    <2>1. /\ pc' = "served" /\ response' = PrepareResponse(answer)
          /\ used' = used \cup answer /\ UNCHANGED <<size, answer>>
      BY <1>5 DEF Admit
    <2>2. TypeOK'
      <3>1. ToSet(response') \subseteq (({"card", "ipcm"} \cup n.has) \X n.card)
                                         \cup {<<"cap", d[1], d[2]>> : d \in Devices}
        BY <1>4, <1>5, <2>1, ResponseType
      <3>2. used' \subseteq Devices
        BY <1>4, <1>5, <2>1
      <3>3. pc' \in Phase
        BY <2>1 DEF Phase
      <3> HIDE DEF n, Devices
      <3> QED BY <1>1, <1>2, <1>3, <2>1, <3>1, <3>2, <3>3 DEF TypeOK
    <2>3. SharesBalanced'
      <3> SUFFICES ASSUME n.mode = "env-share", ~released
                   PROVE  \A c, d \in n.card :
                             Cardinality(SharesOf(used \cup answer, c))
                               <= Cardinality(SharesOf(used \cup answer, d)) + 1
        <4> HIDE DEF n
        <4> QED BY <1>1, <1>3, <2>1 DEF SharesBalanced
      <3>1. answer \in PreferredShares(Free, size)
        BY <1>1, <1>2 DEF AnswerIsOfShares
      <3>2. size \in Nat /\ size # 0
        <4>1. Cardinality(Free) \in Nat
          BY <1>4, FreeFacts
        <4> HIDE DEF Free
        <4> QED BY <1>1, <1>2, <4>1 DEF AskFits
      <3>3. \A c, d \in n.card :
               Cardinality(SharesOf(used, c)) <= Cardinality(SharesOf(used, d)) + 1
        BY <1>2 DEF SharesBalanced
      <3> HIDE DEF n, Devices, Free
      <3> QED BY <1>4, <1>5, <3>1, <3>2, <3>3, SharesStayBalanced
    <2>4. ContainerSeesItsDevices'
      <3> SUFFICES ASSUME n.how = "nodes"
                   PROVE  /\ Len(response') = Cardinality(ToSet(response'))
                          /\ ToSet(response') = Needed(answer)
        <4> HIDE DEF n
        <4> QED BY <1>3, <2>1 DEF ContainerSeesItsDevices, Needed
      <3>1. OnePerCard(answer)
        BY <1>1, <1>5, Answered
      <3>2. /\ response' \in Seq(NodesOf(Devices)) /\ Once(response')
            /\ ToSet(response') = Needed(answer)
        BY <1>4, <1>5, <2>1, <3>1, ResponseFits
      <3> QED BY <3>2, OnceIsLen
    <2> QED BY <2>1, <2>2, <2>3, <2>4 DEF IInv, AskFits, PreferenceFits, PolicyKept,
                                          ServesWhatItCan, AnswerIsOfShares
  <1>6. CASE ~(answer # None /\ answer \subseteq Devices)
    <2>1. pc' = "idle" /\ size' = 0 /\ answer' = None /\ UNCHANGED <<used, response>>
      BY <1>6 DEF Admit
    <2>2. TypeOK'
      <3>1. size' \in 0..Cardinality(Devices)
        BY <1>4, <2>1
      <3>2. pc' \in Phase
        BY <2>1 DEF Phase
      <3> HIDE DEF n, Devices
      <3> QED BY <1>1, <1>2, <1>3, <2>1, <3>1, <3>2 DEF TypeOK
    <2>3. SharesBalanced'
      <3> HIDE DEF n
      <3> QED BY <1>1, <1>2, <1>3, <2>1 DEF SharesBalanced
    <2> QED BY <2>1, <2>2, <2>3 DEF IInv, AskFits, PreferenceFits, PolicyKept,
                  ServesWhatItCan, AnswerIsOfShares, ContainerSeesItsDevices
  <1> QED BY <1>5, <1>6

LEMMA StartIInv == IInv /\ Start => IInv'
  <1> SUFFICES ASSUME IInv, Start PROVE IInv'
    OBVIOUS
  <1>1. /\ pc' = "idle" /\ size' = 0 /\ answer' = None /\ response' = <<>>
        /\ UNCHANGED <<name, policy, used, rushed, released>>
    BY DEF Start
  <1>2. TypeOK /\ SharesBalanced
    BY DEF IInv
  <1>3. n' = n /\ Devices' = Devices
    BY <1>1, SameNode
  <1>4. Cardinality(Devices) \in Nat
    BY <1>2, DevicesFinite DEF TypeOK
  <1> HIDE DEF n, Devices
  <1>5. TypeOK'
    <2>1. ToSet(response') = {}
      BY <1>1, ShortSeqs
    <2>2. ToSet(response') \subseteq (({"card", "ipcm"} \cup n.has) \X n.card)
                                       \cup {<<"cap", d[1], d[2]>> : d \in Devices}
      BY <2>1
    <2>3. size' \in 0..Cardinality(Devices)
      BY <1>1, <1>4
    <2>4. pc' \in Phase
      BY <1>1 DEF Phase
    <2> QED BY <1>1, <1>2, <1>3, <2>2, <2>3, <2>4 DEF TypeOK
  <1>6. SharesBalanced'
    BY <1>1, <1>2, <1>3 DEF SharesBalanced
  <1> QED BY <1>1, <1>5, <1>6 DEF IInv, AskFits, PreferenceFits, PolicyKept,
                ServesWhatItCan, AnswerIsOfShares, ContainerSeesItsDevices

LEMMA ReleaseIInv == IInv /\ Release => IInv'
  <1> SUFFICES ASSUME IInv, Release PROVE IInv'
    OBVIOUS
  <1>1. /\ pc = "idle" /\ used' \subseteq used /\ released' = TRUE
        /\ UNCHANGED <<name, policy, pc, size, answer, response, rushed>>
    BY DEF Release
  <1>2. TypeOK
    BY DEF IInv
  <1>3. n' = n /\ Devices' = Devices
    BY <1>1, SameNode
  <1> HIDE DEF n, Devices
  <1>4. TypeOK'
    BY <1>1, <1>2, <1>3 DEF TypeOK
  <1> QED BY <1>1, <1>4 DEF IInv, AskFits, PreferenceFits, PolicyKept, ServesWhatItCan,
                AnswerIsOfShares, SharesBalanced, ContainerSeesItsDevices

LEMMA StutterIInv == IInv /\ UNCHANGED vars => IInv'
  <1> SUFFICES ASSUME IInv, UNCHANGED vars PROVE IInv'
    OBVIOUS
  <1>1. UNCHANGED <<name, policy, used, pc, size, answer, response, rushed, released>>
    BY DEF vars
  <1>2. n' = n /\ Devices' = Devices /\ Free' = Free
    BY <1>1, SameNode
  <1>3. /\ TypeOK /\ AskFits /\ PreferenceFits /\ PolicyKept /\ ServesWhatItCan
        /\ AnswerIsOfShares /\ SharesBalanced /\ ContainerSeesItsDevices
    BY DEF IInv
  <1> HIDE DEF n, Devices, Free
  <1>4. TypeOK' /\ AskFits'
    BY <1>1, <1>2, <1>3 DEF TypeOK, AskFits
  <1>5. PreferenceFits' /\ ServesWhatItCan' /\ AnswerIsOfShares'
    BY <1>1, <1>2, <1>3 DEF PreferenceFits, ServesWhatItCan, AnswerIsOfShares
  <1>6. PolicyKept'
    BY <1>1, <1>2, <1>3 DEF PolicyKept, EightOfEight
  <1>7. SharesBalanced' /\ ContainerSeesItsDevices'
    BY <1>1, <1>2, <1>3 DEF SharesBalanced, ContainerSeesItsDevices
  <1> QED BY <1>4, <1>5, <1>6, <1>7 DEF IInv

LEMMA NextIInv == IInv /\ [Next]_vars => IInv'
  <1> SUFFICES ASSUME IInv, [Next]_vars PROVE IInv'
    OBVIOUS
  <1>1. CASE Ask
    BY <1>1, AskIInv
  <1>2. CASE KubeletChooses
    BY <1>2, KubeletChoosesIInv
  <1>3. CASE GetPreferredEnvShare
    BY <1>3, GetPreferredEnvShareIInv
  <1>4. CASE GetPreferredAll
    BY <1>4, GetPreferredAllIInv
  <1>5. CASE GetPreferredRings
    BY <1>5, GetPreferredRingsIInv
  <1>6. CASE GetPreferredWithoutRings
    BY <1>6, GetPreferredWithoutRingsIInv
  <1>7. CASE Admit
    BY <1>7, AdmitIInv
  <1>8. CASE Start
    BY <1>8, StartIInv
  <1>9. CASE Release
    BY <1>9, ReleaseIInv
  <1>10. CASE UNCHANGED vars
    BY <1>10, StutterIInv
  <1> QED BY <1>1, <1>2, <1>3, <1>4, <1>5, <1>6, <1>7, <1>8, <1>9, <1>10 DEF Next

(* The invariant of every state that can be reached.                        *)
THEOREM PreferencesInductive == Spec => []IInv
  BY InitIInv, NextIInv, PTL DEF Spec

(* TypeOK on every node: whatever cards, shares, instances and kinds of     *)
(* nodes it has.                                                            *)
THEOREM TypeCorrect == Spec => []TypeOK
  <1>1. IInv => TypeOK
    BY DEF IInv
  <1> QED BY <1>1, PreferencesInductive, PTL

(* What the plugin prefers is always free and as much as the pod asks for:  *)
(* no sort, split or fill of an allocator loses, repeats or invents a card. *)
THEOREM AnswersFit == Spec => []PreferenceFits
  <1>1. IInv => PreferenceFits
    BY DEF IInv
  <1> QED BY <1>1, PreferencesInductive, PTL

(* For every ring table, board layout and allocator: what is given out has  *)
(* as many rings as any choice; 2, 4 or 8 cards under guaranteed and        *)
(* restricted have at least one, except all of eight under the default      *)
(* allocator; under restricted they have what the allocator compares with.  *)
THEOREM PoliciesKept == Spec => []PolicyKept
  <1>1. IInv => PolicyKept
    BY DEF IInv
  <1> QED BY <1>1, PreferencesInductive, PTL

(* The exception of PoliciesKept is real: whatever the policy, and be there *)
(* no ring at all, the default allocator gives out all of eight cards       *)
(* (default.go:43).                                                         *)
THEOREM EightWithoutRings ==
  ASSUME NEW h, h.allocator = "default",
         NEW available, IsFiniteSet(available), Cardinality(available) = 8,
         NEW pol
  PROVE  Allocate(h, pol, available, 8) = {available}
  <1>1. Allocate(h, pol, available, 8) = kSubset(8, available)
    BY DEF Allocate, WithoutRings
  <1>2. ASSUME NEW c \in SUBSET available, Cardinality(c) = 8
        PROVE  c = available
    BY <1>2, FS_Subset
  <1> QED BY <1>1, <1>2 DEF kSubset

(* Under best-effort no allocator turns a pod away while enough is free.    *)
THEOREM ServesAll == Spec => []ServesWhatItCan
  <1>1. IInv => ServesWhatItCan
    BY DEF IInv
  <1> QED BY <1>1, PreferencesInductive, PTL

(* Shares stay spread evenly, however many cards and shares there are.      *)
THEOREM SharesSpread == Spec => []SharesBalanced
  <1>1. IInv => SharesBalanced
    BY DEF IInv
  <1> QED BY <1>1, PreferencesInductive, PTL

(* In whatever order the kubelet lists its devices, a container gets the    *)
(* device nodes of each, once.                                              *)
THEOREM ContainersSeeDevices == Spec => []ContainerSeesItsDevices
  <1>1. IInv => ContainerSeesItsDevices
    BY DEF IInv
  <1> QED BY <1>1, PreferencesInductive, PTL

-----------------------------------------------------------------------------
(* Boards are filled up one after the other *)

(* Positions pos of the boards such that those before k are used up and     *)
(* those after k are not touched.                                           *)
UsedUpTo(boards, pos, k, got) ==
    /\ k \in Nat /\ \A b \in boards : pos[b] \in Nat
    /\ \A b, c \in boards : pos[b] = pos[c] => b = c
    /\ \A b \in boards : pos[b] < k => b \subseteq got
    /\ \A b \in boards : b \cap got # {} => pos[b] <= k

LEMMA InOrder ==
  ASSUME NEW boards, NEW pos, NEW k, NEW got, UsedUpTo(boards, pos, k, got)
  PROVE  /\ \A b, c \in boards : Broken(got, b) /\ Broken(got, c) => b = c
         /\ \A b, c \in boards : pos[b] < pos[c] /\ c \cap got # {} => b \subseteq got
  <1>1. ASSUME NEW b \in boards, Broken(got, b) PROVE pos[b] = k
    BY <1>1 DEF UsedUpTo, Broken
  <1>2. \A b, c \in boards : pos[b] < pos[c] /\ c \cap got # {} => b \subseteq got
    BY DEF UsedUpTo
  <1> QED BY <1>1, <1>2 DEF UsedUpTo

(* What is taken whole leaves nothing broken.                               *)
LEMMA AllKept ==
  ASSUME NEW h, NEW available
  PROVE  KeepsBoards(h, available, available)
  <1> DEFINE home == IF h.allocator = "spider" THEN h.motherboard ELSE h.board
             boards == Split(available, home)
             groups == IF h.allocator = "spider" \/ h.groups = <<>>
                       THEN {available}
                       ELSE {g \cap available : g \in ToSet(h.groups)}
  <1>1. \A b \in boards : b \subseteq available
    BY DEF Split
  <1>2. \A g \in groups : g \subseteq available
    OBVIOUS
  <1> HIDE DEF boards, groups, home
  <1>3. \A b, c \in boards : Broken(available, b) /\ Broken(available, c) => b = c
    BY <1>1 DEF Broken
  <1>4. SmallestFirst(available, groups)
    BY <1>2 DEF SmallestFirst
  <1>5. \A g \in groups : SmallestFirst(available, {b \in boards : b \subseteq g})
    BY <1>1 DEF SmallestFirst
  <1> QED BY <1>3, <1>4, <1>5 DEF KeepsBoards, boards, groups, home

(* Boards share no card, and none of them is empty.                         *)
LEMMA SplitFacts ==
  ASSUME NEW available, NEW home
  PROVE  /\ \A b \in Split(available, home) : b \subseteq available /\ b # {}
         /\ \A b, c \in Split(available, home) : b \cap c # {} => b = c
         /\ \A b \in Split(available, home) : \A c, d \in available :
               c \in b /\ home[c] = home[d] => d \in b
         /\ \A b \in Split(available, home) : \A c, d \in b : home[c] = home[d]
         /\ \A c \in available : \E b \in Split(available, home) : c \in b
  <1> DEFINE S == Split(available, home)
             Of(v) == {c \in available : home[c] = v}
  <1>1. \A b \in S : \E c \in available : b = Of(home[c])
    BY DEF Split
  <1>2. \A c \in available : Of(home[c]) \in S
    BY DEF Split
  <1> HIDE DEF S
  <1>3. \A b \in S : b \subseteq available /\ b # {}
    BY <1>1
  <1>4. \A b \in S : \E v : \A c : c \in b <=> c \in available /\ home[c] = v
    BY <1>1
  <1>5. ASSUME NEW b \in S, NEW c \in S, b \cap c # {} PROVE b = c
    <2>1. PICK v : \A x : x \in b <=> x \in available /\ home[x] = v
      BY <1>4
    <2>2. PICK w : \A x : x \in c <=> x \in available /\ home[x] = w
      BY <1>4
    <2>3. v = w
      BY <1>5, <2>1, <2>2
    <2> QED BY <2>1, <2>2, <2>3
  <1>6. \A b \in S : \A c, d \in available : c \in b /\ home[c] = home[d] => d \in b
    BY <1>4
  <1>7. \A b \in S : \A c, d \in b : home[c] = home[d]
    BY <1>4
  <1>8. \A c \in available : \E b \in S : c \in b
    BY <1>2
  <1> QED BY <1>3, <1>5, <1>6, <1>7, <1>8 DEF S

(* Each board has one place among parts, of which those before k are used   *)
(* up and those after k are not touched.                                    *)
Places(boards, parts, len, pos, k, got) ==
    /\ len \in Nat /\ k \in 0..len
    /\ \A b \in boards : pos[b] \in 1..len /\ parts[pos[b]] = b
    /\ \A b \in boards : \A j \in 1..len : parts[j] = b => j = pos[b]
    /\ \A b \in boards : \A j \in 1..len : j <= k /\ b \cap parts[j] # {} => parts[j] = b
    /\ \A j \in 1..len : j < k => parts[j] \subseteq got
    /\ \A c \in got : \E j \in 1..len : j <= k /\ c \in parts[j]

LEMMA FilledUpTo ==
  ASSUME NEW boards, NEW parts, NEW len, NEW pos, NEW k, NEW got,
         Places(boards, parts, len, pos, k, got)
  PROVE  UsedUpTo(boards, pos, k, got)
  <1>1. \A b, c \in boards : pos[b] = pos[c] => b = c
    BY DEF Places
  <1>2. \A b \in boards : pos[b] < k => b \subseteq got
    BY DEF Places
  <1>3. ASSUME NEW b \in boards, b \cap got # {} PROVE pos[b] <= k
    <2>1. PICK c \in b : c \in got
      BY <1>3
    <2>2. PICK j \in 1..len : j <= k /\ c \in parts[j]
      BY <2>1 DEF Places
    <2>3. parts[j] = b
      BY <2>1, <2>2 DEF Places
    <2>4. j = pos[b]
      BY <2>3 DEF Places
    <2> QED BY <2>2, <2>4
  <1>4. k \in Nat /\ \A b \in boards : pos[b] \in Nat
    BY DEF Places
  <1> QED BY <1>1, <1>2, <1>3, <1>4 DEF UsedUpTo

(* A filling that stops at part k.                                          *)
StopsAt(parts, k, got) ==
    /\ \A j \in DOMAIN parts : j < k => parts[j] \subseteq got
    /\ \A c \in got : \E j \in DOMAIN parts : j <= k /\ c \in parts[j]

(* A listing of the boards has each of them at one place.                   *)
LEMMA ListsAllFacts ==
  ASSUME NEW available, IsFiniteSet(available), NEW home,
         NEW order, ListsAll(order, available, home)
  PROVE  /\ Len(order) \in Nat /\ DOMAIN order = 1..Len(order)
         /\ \A j \in 1..Len(order) : order[j] \in Split(available, home)
         /\ \A b \in Split(available, home) : \E j \in 1..Len(order) : order[j] = b
         /\ \A i, j \in 1..Len(order) : order[i] = order[j] => i = j
         /\ \A i, j \in 1..Len(order) :
               Cardinality(order[i]) < Cardinality(order[j]) => i < j
  <1> DEFINE S == Split(available, home)
             L == Len(order)
  <1>1. /\ order \in Seq(S) /\ L \in Nat /\ DOMAIN order = 1..L
        /\ \A j \in 1..L : order[j] \in S
    BY DEF ListsAll
  <1>2. ASSUME NEW b \in S PROVE \E j \in 1..L : order[j] = b
    <2>1. PICK c \in b : c \in available
      BY SplitFacts
    <2>2. PICK j \in 1..L : c \in order[j]
      BY <2>1 DEF ListsAll
    <2>3. order[j] \cap b # {}
      BY <2>1, <2>2
    <2>4. order[j] = b
      BY <1>1, <2>3, SplitFacts
    <2> QED BY <2>4
  <1>3. \A j \in 1..L : Cardinality(order[j]) \in Nat
    <2> SUFFICES ASSUME NEW j \in 1..L PROVE Cardinality(order[j]) \in Nat
      OBVIOUS
    <2>1. order[j] \subseteq available
      BY <1>1, SplitFacts
    <2> QED BY <2>1, FS_Subset, FS_CardinalityType
  <1>4. \A i, j \in 1..L : order[i] = order[j] => i = j
    BY DEF ListsAll
  <1>5. \A i, j \in 1..L : j < i => Cardinality(order[j]) <= Cardinality(order[i])
    BY DEF ListsAll
  <1> HIDE DEF L, S
  <1>6. ASSUME NEW i \in 1..L, NEW j \in 1..L, Cardinality(order[i]) < Cardinality(order[j])
        PROVE  i < j
    <2>1. CASE i = j
      BY <1>3, <1>6, <2>1
    <2>2. CASE j < i
      <3>1. Cardinality(order[j]) <= Cardinality(order[i])
        BY <1>5, <2>2
      <3> QED BY <1>3, <1>6, <3>1
    <2>3. i \in Nat /\ j \in Nat
      BY <1>1
    <2> QED BY <2>1, <2>2, <2>3
  <1> QED BY <1>1, <1>2, <1>4, <1>6 DEF L, S

(* One group: boards are filled up in their order.                          *)
LEMMA OneGroupKept ==
  ASSUME NEW h, h.allocator = "spider" \/ h.groups = <<>>,
         NEW available, IsFiniteSet(available),
         NEW order,
         ListsAll(order, available, IF h.allocator = "spider" THEN h.motherboard ELSE h.board),
         NEW got \in SUBSET available,
         NEW k \in 0..Len(order), StopsAt(order, k, got)
  PROVE  KeepsBoards(h, available, got)
  <1> DEFINE home == IF h.allocator = "spider" THEN h.motherboard ELSE h.board
             boards == Split(available, home)
             L == Len(order)
             pos == [b \in boards |-> CHOOSE j \in 1..L : order[j] = b]
  <1>1. /\ L \in Nat /\ DOMAIN order = 1..L
        /\ \A j \in 1..L : order[j] \in boards
        /\ \A b \in boards : \E j \in 1..L : order[j] = b
        /\ \A i, j \in 1..L : order[i] = order[j] => i = j
        /\ \A i, j \in 1..L : Cardinality(order[i]) < Cardinality(order[j]) => i < j
    BY ListsAllFacts
  <1>2. \A b, c \in boards : b \cap c # {} => b = c
    BY SplitFacts
  <1> HIDE DEF boards, home, L
  <1>3. \A b \in boards : pos[b] \in 1..L /\ order[pos[b]] = b
    BY <1>1
  <1> HIDE DEF pos
  <1>4. k \in 0..L
    BY DEF L
  <1>5. \A b \in boards : \A j \in 1..L : order[j] = b => j = pos[b]
    BY <1>1, <1>3
  <1>6. \A b \in boards : \A j \in 1..L : j <= k /\ b \cap order[j] # {} => order[j] = b
    BY <1>1, <1>2
  <1>7. /\ \A j \in 1..L : j < k => order[j] \subseteq got
        /\ \A c \in got : \E j \in 1..L : j <= k /\ c \in order[j]
    BY <1>1 DEF StopsAt
  <1>8. UsedUpTo(boards, pos, k, got)
    BY <1>1, <1>3, <1>4, <1>5, <1>6, <1>7, FilledUpTo DEF Places
  <1>9. /\ \A b, c \in boards : Broken(got, b) /\ Broken(got, c) => b = c
        /\ \A b, c \in boards : pos[b] < pos[c] /\ c \cap got # {} => b \subseteq got
    BY <1>8, InOrder
  <1>10. \A b, c \in boards : Cardinality(b) < Cardinality(c) => pos[b] < pos[c]
    BY <1>1, <1>3
  <1>11. SmallestFirst(got, {b \in boards : b \subseteq available})
    BY <1>9, <1>10 DEF SmallestFirst
  <1>12. SmallestFirst(got, {available})
    <2>1. Cardinality(available) \in Nat
      BY FS_CardinalityType
    <2> QED BY <2>1 DEF SmallestFirst
  <1> DEFINE groups == IF h.allocator = "spider" \/ h.groups = <<>>
                       THEN {available}
                       ELSE {g \cap available : g \in ToSet(h.groups)}
  <1>13. groups = {available}
    OBVIOUS
  <1> HIDE DEF groups
  <1>14. /\ SmallestFirst(got, groups)
         /\ \A g \in groups : SmallestFirst(got, {b \in boards : b \subseteq g})
    BY <1>11, <1>12, <1>13
  <1> QED BY <1>9, <1>14 DEF KeepsBoards, boards, home, groups

-----------------------------------------------------------------------------
(* Places of a table with L columns *)

(* A later row has only later places.                                       *)
LEMMA LaterRow ==
  ASSUME NEW L \in Nat, NEW i \in Nat, NEW m \in Nat, i < m
  PROVE  i * L \in Nat /\ m * L \in Nat /\ i * L + L <= m * L
  <1>1. i * L \in Nat /\ m * L \in Nat
    OBVIOUS
  <1>2. m = i + 1 + (m - i - 1) /\ m - i - 1 \in Nat
    OBVIOUS
  <1> DEFINE e == m - i - 1
  <1>3. (i + 1 + e) * L = i * L + L + e * L /\ e * L \in Nat
    BY <1>2
  <1> QED BY <1>1, <1>2, <1>3

(* Row i, column j (both from 0) is at i * L + j.                           *)
LEMMA Place ==
  ASSUME NEW L \in Nat, NEW i \in Nat, NEW j \in Nat, j < L
  PROVE  (i * L + j) \div L = i /\ (i * L + j) % L = j
  <1> DEFINE p == i * L + j
             q == p \div L
             r == p % L
  <1>1. p \in Nat
    OBVIOUS
  <1>2. q \in Nat /\ r \in Nat /\ r < L /\ p = q * L + r
    <2> HIDE DEF p
    <2> QED BY <1>1
  <1> HIDE DEF q, r
  <1>3. q = i
    <2>1. CASE q < i
      <3>1. q * L \in Nat /\ i * L \in Nat /\ q * L + L <= i * L
        BY <1>2, <2>1, LaterRow
      <3> QED BY <1>2, <3>1
    <2>2. CASE i < q
      <3>1. q * L \in Nat /\ i * L \in Nat /\ i * L + L <= q * L
        BY <1>2, <2>2, LaterRow
      <3> QED BY <1>2, <3>1
    <2> QED BY <1>2, <2>1, <2>2
  <1>4. r = j
    <2>1. i * L \in Nat
      OBVIOUS
    <2> QED BY <1>2, <1>3, <2>1
  <1> QED BY <1>3, <1>4 DEF q, r, p

-----------------------------------------------------------------------------
(* Sorting *)

(* R orders S.                                                              *)
IsOrder(S, R) ==
    /\ \A x \in S : <<x, x>> \notin R
    /\ \A x, y \in S : x # y => <<x, y>> \in R \/ <<y, x>> \in R
    /\ \A x, y, z \in S : <<x, y>> \in R /\ <<y, z>> \in R => <<x, z>> \in R

Below(S, R, x) == {y \in S : <<y, x>> \in R}

(* An element that has fewer before it comes before.                        *)
LEMMA BelowGrows ==
  ASSUME NEW S, IsFiniteSet(S), NEW R, IsOrder(S, R)
  PROVE  /\ \A x \in S : /\ Cardinality(Below(S, R, x)) \in Nat
                         /\ Cardinality(Below(S, R, x)) < Cardinality(S)
         /\ \A x, y \in S : <<x, y>> \in R =>
               Cardinality(Below(S, R, x)) < Cardinality(Below(S, R, y))
  <1>1. ASSUME NEW x \in S, NEW T \in SUBSET S, Below(S, R, x) \subseteq T, x \in T
        PROVE  /\ Cardinality(Below(S, R, x)) \in Nat
               /\ Cardinality(Below(S, R, x)) < Cardinality(T)
    <2> DEFINE B == Below(S, R, x)
    <2>1. B \in SUBSET S /\ x \notin B /\ B \cup {x} \in SUBSET T
      BY <1>1 DEF Below, IsOrder
    <2>2. IsFiniteSet(B) /\ IsFiniteSet(T)
      BY <2>1, FS_Subset
    <2> HIDE DEF B
    <2>3. Cardinality(B) \in Nat /\ Cardinality(T) \in Nat
      BY <2>2, FS_CardinalityType
    <2>4. Cardinality(B \cup {x}) = Cardinality(B) + 1
      BY <2>1, <2>2, FS_AddElement
    <2>5. Cardinality(B \cup {x}) <= Cardinality(T)
      BY <2>1, <2>2, FS_Subset
    <2>6. Cardinality(B) < Cardinality(T)
      BY <2>3, <2>4, <2>5
    <2> QED BY <2>3, <2>6 DEF B
  <1>2. ASSUME NEW x \in S
        PROVE  /\ Cardinality(Below(S, R, x)) \in Nat
               /\ Cardinality(Below(S, R, x)) < Cardinality(S)
    <2>1. Below(S, R, x) \subseteq S
      BY DEF Below
    <2> QED BY <1>1, <2>1
  <1>3. ASSUME NEW x \in S, NEW y \in S, <<x, y>> \in R
        PROVE  Cardinality(Below(S, R, x)) < Cardinality(Below(S, R, y))
    <2>1. /\ Below(S, R, y) \in SUBSET S /\ x \in Below(S, R, y)
          /\ Below(S, R, x) \subseteq Below(S, R, y)
      BY <1>3 DEF Below, IsOrder
    <2> QED BY <1>1, <2>1
  <1> QED BY <1>2, <1>3

(* A listing of S in the order of R.                                        *)
ListsInOrder(s, S, R) ==
    /\ DOMAIN s = 1..Cardinality(S) /\ Cardinality(S) \in Nat
    /\ \A k \in DOMAIN s : s[k] \in S
    /\ \A x \in S : \E k \in DOMAIN s : s[k] = x
    /\ \A k, l \in DOMAIN s : k < l => <<s[k], s[l]>> \in R

(* The element with k - 1 before it, for each k: that lists all of them.    *)
LEMMA ByRank ==
  ASSUME NEW S, IsFiniteSet(S), NEW R, IsOrder(S, R),
         NEW s, DOMAIN s = 1..Cardinality(S),
         \A k \in 1..Cardinality(S) :
            (\E x \in S : Cardinality(Below(S, R, x)) = k - 1)
            => s[k] \in S /\ Cardinality(Below(S, R, s[k])) = k - 1
  PROVE  ListsInOrder(s, S, R)
  <1> DEFINE N == Cardinality(S)
             rank(x) == Cardinality(Below(S, R, x))
             next == [x \in S |-> rank(x) + 1]
  <1>1. N \in Nat
    BY FS_CardinalityType
  <1>2. /\ \A x \in S : rank(x) \in Nat /\ rank(x) < N
        /\ \A x, y \in S : <<x, y>> \in R => rank(x) < rank(y)
    BY BelowGrows
  <1> HIDE DEF N, rank
  <1>3. ASSUME NEW x \in S, NEW y \in S, rank(x) = rank(y) PROVE x = y
    <2>1. ~ (rank(x) < rank(y)) /\ ~ (rank(y) < rank(x))
      BY <1>2, <1>3
    <2> QED BY <1>2, <2>1 DEF IsOrder
  <1>4. next \in [S -> 1..N] /\ \A x, y \in S : next[x] = next[y] => x = y
    BY <1>1, <1>2, <1>3
  <1>5. next \in Injection(S, 1..N)
    <2> HIDE DEF next
    <2> QED BY <1>4 DEF Injection, IsInjective
  <1>6. IsFiniteSet(1..N) /\ Cardinality(1..N) = N
    BY <1>1, FS_Interval
  <1>7. next \in Surjection(S, 1..N)
    <2> HIDE DEF next
    <2> QED BY <1>5, <1>6, FS_Injection DEF N
  <1>8. \A k \in 1..N : \E x \in S : next[x] = k
    <2> HIDE DEF next
    <2> QED BY <1>7 DEF Surjection
  <1>9. \A k \in 1..N : \E x \in S : rank(x) = k - 1
    BY <1>1, <1>2, <1>8
  <1>10. \A k \in 1..N : s[k] \in S /\ rank(s[k]) = k - 1
    <2>1. \A k \in 1..N : (\E x \in S : rank(x) = k - 1)
                            => s[k] \in S /\ rank(s[k]) = k - 1
      BY DEF N, rank
    <2> QED BY <1>9, <2>1
  <1>11. DOMAIN s = 1..N
    BY DEF N
  <1>12. ASSUME NEW x \in S PROVE \E k \in 1..N : s[k] = x
    <2>1. rank(x) + 1 \in 1..N /\ rank(x) \in Nat
      BY <1>1, <1>2
    <2>2. s[rank(x) + 1] \in S /\ rank(s[rank(x) + 1]) = rank(x)
      BY <1>10, <2>1
    <2> QED BY <1>3, <2>1, <2>2
  <1>13. ASSUME NEW k \in 1..N, NEW l \in 1..N, k < l PROVE <<s[k], s[l]>> \in R
    <2>1. /\ s[k] \in S /\ rank(s[k]) = k - 1
          /\ s[l] \in S /\ rank(s[l]) = l - 1
      BY <1>10
    <2>2. rank(s[k]) < rank(s[l])
      BY <1>1, <1>13, <2>1
    <2>3. s[k] # s[l]
      BY <1>1, <1>13, <2>1
    <2>4. ~ (<<s[l], s[k]>> \in R)
      <3>1. <<s[l], s[k]>> \in R => rank(s[l]) < rank(s[k])
        BY <1>2, <2>1
      <3> QED BY <1>1, <1>13, <2>1, <3>1
    <2> QED BY <2>1, <2>3, <2>4 DEF IsOrder
  <1> QED BY <1>1, <1>10, <1>11, <1>12, <1>13 DEF ListsInOrder, N

-----------------------------------------------------------------------------
(* Groups of linked cards *)

(* The groups G share no card, have all of them, and cards that reach each  *)
(* other are in one.                                                        *)
Partition(G, h) ==
    /\ IsSeq(G)
    /\ \A c \in h.card : \E i \in DOMAIN G : c \in G[i]
    /\ \A i, j \in DOMAIN G : i # j => G[i] \cap G[j] = {}
    /\ \A i \in DOMAIN G : G[i] \subseteq h.card
    /\ \A i \in DOMAIN G : \A c, d \in h.card :
          c \in G[i] /\ d \in Reached(h, c) /\ c \in Reached(h, d) => d \in G[i]

(* What a search visits first.                                              *)
Visits(h, s) == Reached(h, s) \ UNION {Reached(h, r) : r \in {q \in h.card : q < s}}

LEMMA ReachedFacts ==
  ASSUME NEW h
  PROVE  /\ \A s \in h.card : s \in Reached(h, s)
         /\ \A s : Reached(h, s) \subseteq h.card
         /\ \A s, c, d \in h.card :
               c \in Reached(h, s) /\ d \in Reached(h, c) => d \in Reached(h, s)
  BY DEF Reached

LEMMA VisitsFacts ==
  ASSUME NEW h, h.card \subseteq Nat
  PROVE  /\ \A c \in h.card : \E s \in h.card : c \in Visits(h, s)
         /\ \A s, t \in h.card : s # t => Visits(h, s) \cap Visits(h, t) = {}
         /\ \A s \in h.card : Visits(h, s) \subseteq h.card
         /\ \A s, c, d \in h.card :
               c \in Visits(h, s) /\ d \in Reached(h, c) /\ c \in Reached(h, d)
               => d \in Visits(h, s)
  <1>1. \A s, c \in h.card :
           c \in Visits(h, s) <=> /\ c \in Reached(h, s)
                                  /\ \A r \in h.card : r < s => c \notin Reached(h, r)
    BY DEF Visits
  <1>2. ASSUME NEW c \in h.card PROVE \E s \in h.card : c \in Visits(h, s)
    <2> DEFINE T == {s \in h.card : c \in Reached(h, s)}
    <2>1. T \in SUBSET Nat /\ T # {}
      BY ReachedFacts
    <2>2. PICK s \in T : \A t \in T : s <= t
      <3> HIDE DEF T
      <3> QED BY <2>1, LeastNat
    <2>3. s \in h.card /\ \A r \in h.card : r < s => r \notin T
      BY <2>2
    <2> QED BY <1>1, <2>2, <2>3
  <1>3. \A s \in h.card : Visits(h, s) \subseteq h.card
    BY ReachedFacts DEF Visits
  <1>4. \A s, t \in h.card : s # t => Visits(h, s) \cap Visits(h, t) = {}
    <2> SUFFICES ASSUME NEW s \in h.card, NEW t \in h.card, s # t,
                        NEW c \in Visits(h, s), c \in Visits(h, t)
                 PROVE  FALSE
      OBVIOUS
    <2>1. c \in h.card
      BY <1>3
    <2>2. s < t \/ t < s
      OBVIOUS
    <2> QED BY <1>1, <2>1, <2>2
  <1>5. \A s, c, d \in h.card :
           c \in Visits(h, s) /\ d \in Reached(h, c) /\ c \in Reached(h, d)
           => d \in Visits(h, s)
    BY <1>1, ReachedFacts
  <1> QED BY <1>2, <1>3, <1>4, <1>5

LEMMA CPUGroupsPartition ==
  ASSUME NEW h, IsFiniteSet(h.card), h.card \subseteq Nat, ~h.linkFails
  PROVE  Partition(CPUGroups(h), h)
  <1> DEFINE f == [s \in h.card |-> Visits(h, s)]
             S == {Visits(h, s) : s \in h.card} \ {{}}
             R == {p \in S \X S : Min(p[1]) < Min(p[2])}
             G == LinkGroups(h)
  <1>1. IsFiniteSet(S)
    <2>1. IsFiniteSet({f[s] : s \in h.card})
      <3> HIDE DEF f
      <3> QED BY FiniteImage
    <2>2. S \in SUBSET {f[s] : s \in h.card}
      OBVIOUS
    <2> HIDE DEF S, f
    <2> QED BY <2>1, <2>2, FS_Subset
  <1>2. /\ \A c \in h.card : \E x \in S : c \in x
        /\ \A x, y \in S : x # y => x \cap y = {}
        /\ \A x \in S : x \subseteq h.card /\ x # {}
        /\ \A x \in S : \A c, d \in h.card :
              c \in x /\ d \in Reached(h, c) /\ c \in Reached(h, d) => d \in x
    <2>1. \A x \in S : x # {} /\ \E s \in h.card : x = Visits(h, s)
      OBVIOUS
    <2>2. \A s \in h.card : Visits(h, s) # {} => Visits(h, s) \in S
      OBVIOUS
    <2> HIDE DEF S
    <2> QED BY <2>1, <2>2, VisitsFacts
  <1>3. G = [k \in 1..Cardinality(S) |->
               CHOOSE x \in S : Cardinality({y \in S : Min(y) < Min(x)}) = k - 1]
    BY DEF LinkGroups, Sorted, Visits
  <1>4. \A x, y \in S : <<x, y>> \in R <=> Min(x) < Min(y)
    OBVIOUS
  <1> HIDE DEF S, R, f
  <1>5. \A x \in S : Min(x) \in x /\ Min(x) \in Nat
    BY <1>2, MinIn
  <1>6. IsOrder(S, R)
    <2>1. \A x, y \in S : x # y => Min(x) # Min(y)
      BY <1>2, <1>5
    <2>2. \A x, y \in S : x # y => Min(x) < Min(y) \/ Min(y) < Min(x)
      BY <1>5, <2>1
    <2> QED BY <1>4, <1>5, <2>2 DEF IsOrder
  <1>7. \A x \in S : Below(S, R, x) = {y \in S : Min(y) < Min(x)}
    BY <1>4 DEF Below
  <1>8. ListsInOrder(G, S, R)
    <2>1. DOMAIN G = 1..Cardinality(S)
      BY <1>3
    <2>2. ASSUME NEW k \in 1..Cardinality(S),
                 NEW x \in S, Cardinality(Below(S, R, x)) = k - 1
          PROVE  G[k] \in S /\ Cardinality(Below(S, R, G[k])) = k - 1
      <3>1. G[k] = CHOOSE z \in S : Cardinality({y \in S : Min(y) < Min(z)}) = k - 1
        BY <1>3
      <3>2. Cardinality({y \in S : Min(y) < Min(x)}) = k - 1
        BY <1>7, <2>2
      <3>3. G[k] \in S /\ Cardinality({y \in S : Min(y) < Min(G[k])}) = k - 1
        BY <3>1, <3>2
      <3> QED BY <1>7, <3>3
    <2> HIDE DEF G
    <2> QED BY <1>1, <1>6, <2>1, <2>2, ByRank
  <1>9. CPUGroups(h) = G
    BY DEF CPUGroups
  <1> HIDE DEF G
  <1>10. /\ IsSeq(G) /\ \A i \in DOMAIN G : G[i] \in S
         /\ \A x \in S : \E i \in DOMAIN G : G[i] = x
    BY <1>8 DEF ListsInOrder, IsSeq
  <1>11. \A i, j \in DOMAIN G : i # j => G[i] # G[j]
    <2> SUFFICES ASSUME NEW i \in DOMAIN G, NEW j \in DOMAIN G, i < j PROVE G[i] # G[j]
      BY <1>10 DEF IsSeq
    <2> QED BY <1>6, <1>8, <1>10 DEF ListsInOrder, IsOrder
  <1>12. /\ \A c \in h.card : \E i \in DOMAIN G : c \in G[i]
         /\ \A i, j \in DOMAIN G : i # j => G[i] \cap G[j] = {}
         /\ \A i \in DOMAIN G : G[i] \subseteq h.card
    BY <1>2, <1>10, <1>11
  <1>13. \A i \in DOMAIN G : \A c, d \in h.card :
            c \in G[i] /\ d \in Reached(h, c) /\ c \in Reached(h, d) => d \in G[i]
    BY <1>2, <1>10
  <1> QED BY <1>9, <1>10, <1>12, <1>13 DEF Partition

(* What is available of the groups, those with least of it first.           *)
GroupsListed(G, h, available) ==
    /\ IsSeq(G)
    /\ \A c \in available : \E i \in DOMAIN G : c \in G[i]
    /\ \A i, j \in DOMAIN G : i # j => G[i] \cap G[j] = {}
    /\ \A i \in DOMAIN G : \E x \in DOMAIN h.groups : G[i] = h.groups[x] \cap available
    /\ \A x \in DOMAIN h.groups : \E i \in DOMAIN G : G[i] = h.groups[x] \cap available
    /\ \A i, j \in DOMAIN G : i < j => Cardinality(G[i]) <= Cardinality(G[j])

LEMMA GroupsInOrder ==
  ASSUME NEW h, Partition(h.groups, h), IsFiniteSet(h.card),
         NEW available \in SUBSET h.card
  PROVE  GroupsListed(Groups(h, available), h, available)
  <1> DEFINE D == DOMAIN h.groups
             left == [i \in D |-> h.groups[i] \cap available]
             count(i) == Cardinality(left[i])
             R == {p \in D \X D : \/ count(p[1]) < count(p[2])
                                  \/ count(p[1]) = count(p[2]) /\ p[1] < p[2]}
             order == [k \in 1..Cardinality(D) |->
                         CHOOSE i \in D : Cardinality({j \in D :
                             \/ Cardinality(left[j]) < Cardinality(left[i])
                             \/ Cardinality(left[j]) = Cardinality(left[i]) /\ j < i}) = k - 1]
             G == [k \in DOMAIN order |-> left[order[k]]]
  <1>1. IsFiniteSet(D) /\ D \subseteq Nat
    <2>1. PICK m \in Nat : D = 1..m
      BY DEF Partition, IsSeq
    <2> HIDE DEF D
    <2> QED BY <2>1, FS_Interval
  <1>2. \A c \in available : \E i \in D : c \in h.groups[i]
    BY DEF Partition
  <1>3. Groups(h, available) = G
    <2>1. Groups(h, available) = IF \A c \in available : \E i \in D : c \in h.groups[i]
                                 THEN G ELSE <<>>
      BY DEF Groups, Sorted
    <2> HIDE DEF G, D
    <2> QED BY <1>2, <2>1
  <1>4. \A i \in D : left[i] = h.groups[i] \cap available
    OBVIOUS
  <1>5. \A i \in D : count(i) \in Nat
    <2> SUFFICES ASSUME NEW i \in D PROVE count(i) \in Nat
      OBVIOUS
    <2>1. left[i] \in SUBSET h.card
      OBVIOUS
    <2>2. IsFiniteSet(left[i])
      <3> HIDE DEF left
      <3> QED BY <2>1, FS_Subset
    <2> HIDE DEF left
    <2> QED BY <2>2, FS_CardinalityType
  <1>6. \A i, j \in D : <<i, j>> \in R <=> \/ count(i) < count(j)
                                           \/ count(i) = count(j) /\ i < j
    OBVIOUS
  <1>7. DOMAIN order = 1..Cardinality(D)
    OBVIOUS
  <1>8. \A k \in 1..Cardinality(D) :
           order[k] = CHOOSE i \in D : Cardinality({j \in D :
                             \/ Cardinality(left[j]) < Cardinality(left[i])
                             \/ Cardinality(left[j]) = Cardinality(left[i]) /\ j < i}) = k - 1
    OBVIOUS
  <1> HIDE DEF D, left, R, order
  <1>9. IsOrder(D, R)
    <2>1. \A x \in D : <<x, x>> \notin R
      BY <1>1, <1>5, <1>6
    <2>2. \A x, y \in D : x # y => <<x, y>> \in R \/ <<y, x>> \in R
      BY <1>1, <1>5, <1>6
    <2>3. \A x, y, z \in D : <<x, y>> \in R /\ <<y, z>> \in R => <<x, z>> \in R
      <3> SUFFICES ASSUME NEW x \in D, NEW y \in D, NEW z \in D,
                          <<x, y>> \in R, <<y, z>> \in R
                   PROVE  <<x, z>> \in R
        OBVIOUS
      <3>1. /\ count(x) \in Nat /\ count(y) \in Nat /\ count(z) \in Nat
            /\ x \in Nat /\ y \in Nat /\ z \in Nat
        BY <1>1, <1>5
      <3>2. /\ count(x) < count(y) \/ (count(x) = count(y) /\ x < y)
            /\ count(y) < count(z) \/ (count(y) = count(z) /\ y < z)
        BY <1>6
      <3> HIDE DEF count
      <3>3. count(x) < count(z) \/ (count(x) = count(z) /\ x < z)
        BY <3>1, <3>2
      <3> QED BY <1>6, <3>3 DEF count
    <2> QED BY <2>1, <2>2, <2>3 DEF IsOrder
  <1>10. \A i \in D : Below(D, R, i) = {j \in D :
                             \/ Cardinality(left[j]) < Cardinality(left[i])
                             \/ Cardinality(left[j]) = Cardinality(left[i]) /\ j < i}
    BY <1>6 DEF Below
  <1>11. ListsInOrder(order, D, R)
    <2>1. ASSUME NEW k \in 1..Cardinality(D),
                 NEW x \in D, Cardinality(Below(D, R, x)) = k - 1
          PROVE  order[k] \in D /\ Cardinality(Below(D, R, order[k])) = k - 1
      <3> DEFINE before(i) == {j \in D :
                             \/ Cardinality(left[j]) < Cardinality(left[i])
                             \/ Cardinality(left[j]) = Cardinality(left[i]) /\ j < i}
      <3>1. order[k] = CHOOSE i \in D : Cardinality(before(i)) = k - 1
        BY <1>8
      <3>2. \A i \in D : Below(D, R, i) = before(i)
        BY <1>10
      <3> HIDE DEF before
      <3>3. Cardinality(before(x)) = k - 1
        BY <2>1, <3>2
      <3>4. \E i \in D : Cardinality(before(i)) = k - 1
        BY <3>3
      <3>5. order[k] \in D /\ Cardinality(before(order[k])) = k - 1
        <4> DEFINE e == order[k]
        <4>1. e = CHOOSE i \in D : Cardinality(before(i)) = k - 1
          BY <3>1
        <4> HIDE DEF e
        <4>2. e \in D /\ Cardinality(before(e)) = k - 1
          BY <3>4, <4>1
        <4> QED BY <4>2 DEF e
      <3> QED BY <3>2, <3>5
    <2> QED BY <1>1, <1>7, <1>9, <2>1, ByRank
  <1>12. /\ DOMAIN order = 1..Cardinality(D) /\ Cardinality(D) \in Nat
         /\ \A k \in DOMAIN order : order[k] \in D
         /\ \A x \in D : \E k \in DOMAIN order : order[k] = x
         /\ \A k, l \in DOMAIN order : k < l => <<order[k], order[l]>> \in R
    BY <1>11 DEF ListsInOrder
  <1>13. /\ DOMAIN G = DOMAIN order
         /\ \A k \in DOMAIN order : G[k] = left[order[k]]
    OBVIOUS
  <1> HIDE DEF G
  <1>14. IsSeq(G)
    BY <1>12, <1>13 DEF IsSeq
  <1>15. \A k, l \in DOMAIN G : k < l => Cardinality(G[k]) <= Cardinality(G[l])
    <2> SUFFICES ASSUME NEW k \in DOMAIN order, NEW l \in DOMAIN order, k < l
                 PROVE  count(order[k]) <= count(order[l])
      BY <1>13
    <2>1. order[k] \in D /\ order[l] \in D /\ <<order[k], order[l]>> \in R
      BY <1>12
    <2>2. count(order[k]) < count(order[l]) \/ count(order[k]) = count(order[l])
      BY <1>6, <2>1
    <2>3. count(order[k]) \in Nat /\ count(order[l]) \in Nat
      BY <1>5, <2>1
    <2> HIDE DEF count
    <2> QED BY <2>2, <2>3
  <1>16. \A k, l \in DOMAIN order : k # l => order[k] # order[l]
    <2> SUFFICES ASSUME NEW k \in DOMAIN order, NEW l \in DOMAIN order, k < l
                 PROVE  order[k] # order[l]
      BY <1>12
    <2> QED BY <1>9, <1>12 DEF IsOrder
  <1>17. \A k, l \in DOMAIN G : k # l => G[k] \cap G[l] = {}
    <2>1. \A i, j \in D : i # j => left[i] \cap left[j] = {}
      BY <1>4 DEF Partition, D
    <2> QED BY <1>12, <1>13, <1>16, <2>1
  <1>18. /\ \A i \in DOMAIN G : \E x \in D : G[i] = h.groups[x] \cap available
         /\ \A x \in D : \E i \in DOMAIN G : G[i] = h.groups[x] \cap available
    BY <1>4, <1>12, <1>13
  <1>19. \A c \in available : \E i \in DOMAIN G : c \in G[i]
    BY <1>2, <1>18
  <1> QED BY <1>3, <1>14, <1>15, <1>17, <1>18, <1>19 DEF GroupsListed, D

-----------------------------------------------------------------------------
(* The table of groups and boards *)

(* Row i, column j, both from 1, of a table with L columns.                 *)
At(L, i, j) == (i - 1) * L + j

LEMMA AtFacts ==
  ASSUME NEW L \in Nat, NEW N \in Nat
  PROVE  /\ N * L \in Nat
         /\ \A i \in 1..N, j \in 1..L :
               /\ At(L, i, j) \in 1..(N * L)
               /\ ((At(L, i, j) - 1) \div L) + 1 = i
               /\ ((At(L, i, j) - 1) % L) + 1 = j
         /\ \A i, m \in 1..N, j, l \in 1..L : i < m => At(L, i, j) < At(L, m, l)
         /\ \A i \in 1..N, j, l \in 1..L : j < l => At(L, i, j) < At(L, i, l)
         /\ \A q \in 1..(N * L) : \E i \in 1..N, j \in 1..L : q = At(L, i, j)
  <1>1. N * L \in Nat
    OBVIOUS
  <1>2. ASSUME NEW i \in 1..N, NEW j \in 1..L
        PROVE  /\ At(L, i, j) \in 1..(N * L)
               /\ ((At(L, i, j) - 1) \div L) + 1 = i
               /\ ((At(L, i, j) - 1) % L) + 1 = j
    <2>1. i - 1 \in Nat /\ i - 1 < N /\ j - 1 \in Nat /\ j - 1 < L
      OBVIOUS
    <2>2. (i - 1) * L \in Nat /\ (i - 1) * L + L <= N * L
      BY <2>1, LaterRow
    <2>3. /\ ((i - 1) * L + (j - 1)) \div L = i - 1
          /\ ((i - 1) * L + (j - 1)) % L = j - 1
      BY <2>1, Place
    <2>4. At(L, i, j) - 1 = (i - 1) * L + (j - 1)
      BY <2>2 DEF At
    <2>5. At(L, i, j) \in 1..(N * L)
      BY <1>1, <2>2 DEF At
    <2> QED BY <2>3, <2>4, <2>5
  <1>3. ASSUME NEW i \in 1..N, NEW m \in 1..N, NEW j \in 1..L, NEW l \in 1..L, i < m
        PROVE  At(L, i, j) < At(L, m, l)
    <2>1. i - 1 \in Nat /\ m - 1 \in Nat /\ i - 1 < m - 1
      BY <1>3
    <2>2. /\ (i - 1) * L \in Nat /\ (m - 1) * L \in Nat
          /\ (i - 1) * L + L <= (m - 1) * L
      BY <2>1, LaterRow
    <2> QED BY <2>2 DEF At
  <1>4. ASSUME NEW i \in 1..N, NEW j \in 1..L, NEW l \in 1..L, j < l
        PROVE  At(L, i, j) < At(L, i, l)
    <2>1. (i - 1) * L \in Nat
      OBVIOUS
    <2> QED BY <1>4, <2>1 DEF At
  <1>5. ASSUME NEW q \in 1..(N * L)
        PROVE  \E i \in 1..N, j \in 1..L : q = At(L, i, j)
    <2> DEFINE a == (q - 1) \div L
               r == (q - 1) % L
    <2>1. L # 0 /\ q - 1 \in Nat
      BY <1>1
    <2>2. a \in Nat /\ r \in Nat /\ r < L /\ q - 1 = a * L + r
      <3> DEFINE p == q - 1
      <3>1. p \in Nat
        BY <2>1
      <3> HIDE DEF p
      <3>2. p \div L \in Nat /\ p % L \in Nat /\ p % L < L /\ p = (p \div L) * L + (p % L)
        BY <2>1, <3>1
      <3> QED BY <3>2 DEF p
    <2> HIDE DEF a, r
    <2>3. a < N
      <3> SUFFICES ASSUME N <= a PROVE FALSE
        BY <2>2
      <3>1. N * L <= a * L /\ a * L \in Nat
        <4>1. CASE N = a
          BY <1>1, <4>1
        <4>2. CASE N # a
          <5>1. N < a
            BY <2>2, <4>2
          <5> QED BY <2>2, <5>1, LaterRow
        <4> QED BY <4>1, <4>2
      <3> QED BY <1>1, <2>2, <3>1
    <2>4. a + 1 \in 1..N /\ r + 1 \in 1..L
      BY <2>2, <2>3
    <2>5. a * L \in Nat /\ (a + 1) - 1 = a
      BY <2>2
    <2>6. q = At(L, a + 1, r + 1)
      BY <2>2, <2>5 DEF At
    <2> QED BY <2>4, <2>6
  <1> QED BY <1>1, <1>2, <1>3, <1>4, <1>5

(* BoardParts is the table of groups and boards.                            *)
LEMMA BoardPartsTable ==
  ASSUME NEW h, IsSeq(h.groups), NEW available,
         NEW boards \in Seq(SUBSET available), Groups(h, available) # <<>>
  PROVE  /\ DOMAIN BoardParts(h, available, boards)
              = 1..(Len(Groups(h, available)) * Len(boards))
         /\ \A i \in 1..Len(Groups(h, available)), j \in 1..Len(boards) :
               BoardParts(h, available, boards)[At(Len(boards), i, j)]
                 = IF boards[j] \subseteq Groups(h, available)[i] THEN boards[j] ELSE {}
  <1> DEFINE groups == Groups(h, available)
             N == Len(groups)
             L == Len(boards)
             Visited(group, b) == IF b \subseteq group THEN b ELSE {}
             visit == [k \in 1..(N * L) |->
                         Visited(groups[((k - 1) \div L) + 1], boards[((k - 1) % L) + 1])]
  <1>1. BoardParts(h, available, boards) = visit
    BY DEF BoardParts
  <1>2. N \in Nat /\ L \in Nat
    BY GroupsSeq
  <1> HIDE DEF groups, N, L, Visited
  <1>3. \A i \in 1..N, j \in 1..L :
           /\ At(L, i, j) \in 1..(N * L)
           /\ ((At(L, i, j) - 1) \div L) + 1 = i
           /\ ((At(L, i, j) - 1) % L) + 1 = j
    BY <1>2, AtFacts, Zenon
  <1>4. ASSUME NEW i \in 1..N, NEW j \in 1..L
        PROVE  visit[At(L, i, j)] = Visited(groups[i], boards[j])
    <2> DEFINE q == At(L, i, j)
    <2>1. /\ q \in 1..(N * L)
          /\ ((q - 1) \div L) + 1 = i
          /\ ((q - 1) % L) + 1 = j
      BY <1>3
    <2> HIDE DEF q
    <2>2. visit[q] = Visited(groups[((q - 1) \div L) + 1], boards[((q - 1) % L) + 1])
      BY <2>1
    <2>3. visit[q] = Visited(groups[i], boards[j])
      BY <2>1, <2>2
    <2> QED BY <2>3 DEF q
  <1>5. DOMAIN visit = 1..(N * L)
    OBVIOUS
  <1> HIDE DEF visit
  <1> QED BY <1>1, <1>4, <1>5 DEF groups, N, L, Visited

(* The groups are listed, and a board is in one of them.                    *)
LEMMA BoardsInGroups ==
  ASSUME NEW h, Partition(h.groups, h), BoardsLinked(h), IsFiniteSet(h.card),
         NEW available \in SUBSET h.card, available # {}
  PROVE  LET G == Groups(h, available)
             N == Len(G)
             boards == Split(available, h.board)
         IN  /\ N \in Nat /\ G # <<>> /\ DOMAIN G = 1..N
             /\ GroupsListed(G, h, available)
             /\ \A b \in boards : \A i \in 1..N : b \cap G[i] # {} => b \subseteq G[i]
             /\ \A b \in boards : \E i \in 1..N : b \subseteq G[i]
  <1> DEFINE boards == Split(available, h.board)
             G == Groups(h, available)
             N == Len(G)
  <1>1. /\ \A b \in boards : b \subseteq available /\ b # {}
        /\ \A b \in boards : \A c, d \in b : h.board[c] = h.board[d]
    BY SplitFacts
  <1>2. GroupsListed(G, h, available)
    BY GroupsInOrder
  <1>3. N \in Nat
    <2>1. IsSeq(h.groups)
      BY DEF Partition
    <2> QED BY <2>1, GroupsSeq
  <1> HIDE DEF boards, G
  <1>4. G # <<>> /\ DOMAIN G = 1..N
    <2>1. DOMAIN G # {}
      BY <1>2 DEF GroupsListed
    <2>2. DOMAIN G = 1..N
      BY <1>2 DEF GroupsListed, IsSeq
    <2> QED BY <2>1, <2>2
  <1> HIDE DEF N
  <1>5. /\ \A c \in available : \E i \in 1..N : c \in G[i]
        /\ \A i \in 1..N : \E x \in DOMAIN h.groups : G[i] = h.groups[x] \cap available
    BY <1>2, <1>4 DEF GroupsListed
  <1>6. ASSUME NEW b \in boards, NEW i \in 1..N, b \cap G[i] # {} PROVE b \subseteq G[i]
    <2>1. PICK c \in b : c \in G[i]
      BY <1>6
    <2>2. PICK x \in DOMAIN h.groups : G[i] = h.groups[x] \cap available
      BY <1>5
    <2> SUFFICES ASSUME NEW d \in b PROVE d \in h.groups[x] \cap available
      BY <2>2
    <2>3. h.board[c] = h.board[d] /\ c \in available /\ d \in available
      BY <1>1
    <2>4. c \in h.card /\ d \in h.card
      BY <2>3
    <2>5. d \in Reached(h, c) /\ c \in Reached(h, d)
      BY <2>3, <2>4 DEF BoardsLinked
    <2> QED BY <2>1, <2>2, <2>3, <2>4, <2>5 DEF Partition
  <1>7. ASSUME NEW b \in boards PROVE \E i \in 1..N : b \subseteq G[i]
    <2>1. PICK c \in b : c \in available
      BY <1>1
    <2>2. PICK i \in 1..N : c \in G[i]
      BY <1>5, <2>1
    <2>3. b \cap G[i] # {}
      BY <2>1, <2>2
    <2> QED BY <1>6, <2>3
  <1> QED BY <1>2, <1>3, <1>4, <1>6, <1>7 DEF boards, G, N

(* No card is left out of the table.                                        *)
LEMMA BoardPartsCover ==
  ASSUME NEW h, Partition(h.groups, h), BoardsLinked(h), IsFiniteSet(h.card),
         NEW available \in SUBSET h.card, available # {},
         NEW order, ListsAll(order, available, h.board),
         NEW c \in available
  PROVE  \E q \in DOMAIN BoardParts(h, available, order) :
            c \in BoardParts(h, available, order)[q]
  <1> DEFINE G == Groups(h, available)
             N == Len(G)
             L == Len(order)
             parts == BoardParts(h, available, order)
             boards == Split(available, h.board)
  <1>1. N \in Nat /\ G # <<>> /\ \A b \in boards : \E i \in 1..N : b \subseteq G[i]
    BY BoardsInGroups
  <1>2. order \in Seq(SUBSET available) /\ order \in Seq(boards) /\ IsSeq(h.groups)
    BY DEF ListsAll, Partition
  <1>3. PICK j \in 1..L : c \in order[j]
    BY DEF ListsAll
  <1>4. L \in Nat /\ order[j] \in boards
    BY <1>2, <1>3
  <1>5. /\ DOMAIN parts = 1..(N * L)
        /\ \A i \in 1..N, l \in 1..L :
              parts[At(L, i, l)] = IF order[l] \subseteq G[i] THEN order[l] ELSE {}
    <2>1. order \in Seq(SUBSET available) /\ IsSeq(h.groups) /\ Groups(h, available) # <<>>
      BY <1>1, <1>2
    <2> QED BY <2>1, BoardPartsTable
  <1> HIDE DEF G, N, L, parts, boards
  <1>6. PICK i \in 1..N : order[j] \subseteq G[i]
    BY <1>1, <1>4
  <1>7. parts[At(L, i, j)] = order[j]
    BY <1>5, <1>6
  <1>8. \A m \in 1..N, l \in 1..L : At(L, m, l) \in 1..(N * L)
    BY <1>1, <1>4, AtFacts, Zenon
  <1>9. At(L, i, j) \in DOMAIN parts
    BY <1>5, <1>8
  <1> QED BY <1>3, <1>7, <1>9 DEF parts

(* Groups and the boards in each are filled up in their order.              *)
LEMMA GroupsKept ==
  ASSUME NEW h, h.allocator = "board", Partition(h.groups, h), BoardsLinked(h),
         IsFiniteSet(h.card),
         NEW available \in SUBSET h.card, available # {},
         NEW order, ListsAll(order, available, h.board),
         NEW got \in SUBSET available,
         NEW k \in Nat, k <= Len(Groups(h, available)) * Len(order),
         StopsAt(BoardParts(h, available, order), k, got)
  PROVE  KeepsBoards(h, available, got)
  <1> DEFINE boards == Split(available, h.board)
             G == Groups(h, available)
             N == Len(G)
             L == Len(order)
             parts == BoardParts(h, available, order)
             groups == {g \cap available : g \in ToSet(h.groups)}
  <1>1. IsFiniteSet(available)
    BY FS_Subset
  <1>2. /\ L \in Nat /\ DOMAIN order = 1..L
        /\ \A j \in 1..L : order[j] \in boards
        /\ \A b \in boards : \E j \in 1..L : order[j] = b
        /\ \A i, j \in 1..L : order[i] = order[j] => i = j
        /\ \A i, j \in 1..L : Cardinality(order[i]) < Cardinality(order[j]) => i < j
    BY <1>1, ListsAllFacts
  <1>3. /\ \A b \in boards : b \subseteq available /\ b # {}
        /\ \A b, c \in boards : b \cap c # {} => b = c
        /\ \A b \in boards : \A c, d \in b : h.board[c] = h.board[d]
        /\ \A c \in available : \E b \in boards : c \in b
    BY SplitFacts
  <1>4. IsSeq(h.groups)
    BY DEF Partition
  <1>5. /\ N \in Nat /\ G # <<>> /\ DOMAIN G = 1..N
        /\ GroupsListed(G, h, available)
        /\ \A b \in boards : \E i \in 1..N : b \subseteq G[i]
    BY BoardsInGroups
  <1> HIDE DEF boards
  <1>6. /\ DOMAIN parts = 1..(N * L)
        /\ \A i \in 1..N, j \in 1..L :
              parts[At(L, i, j)] = IF order[j] \subseteq G[i] THEN order[j] ELSE {}
    <2>1. order \in Seq(SUBSET available)
      BY DEF ListsAll
    <2> QED BY <1>4, <1>5, <2>1, BoardPartsTable
  <1> HIDE DEF G, N, L, parts
  <1>7. /\ N * L \in Nat
        /\ \A i \in 1..N, j \in 1..L : At(L, i, j) \in 1..(N * L)
        /\ \A i, m \in 1..N, j, l \in 1..L : i < m => At(L, i, j) < At(L, m, l)
        /\ \A i \in 1..N, j, l \in 1..L : j < l => At(L, i, j) < At(L, i, l)
        /\ \A q \in 1..(N * L) : \E i \in 1..N, j \in 1..L : q = At(L, i, j)
    BY <1>2, <1>5, AtFacts, Zenon
  (* A board is in one group, and so at one place.                          *)
  <1>8. /\ \A c \in available : \E i \in 1..N : c \in G[i]
        /\ \A i, j \in 1..N : i # j => G[i] \cap G[j] = {}
        /\ \A i \in 1..N : \E x \in DOMAIN h.groups : G[i] = h.groups[x] \cap available
        /\ \A x \in DOMAIN h.groups : \E i \in 1..N : G[i] = h.groups[x] \cap available
        /\ \A i, j \in 1..N : i < j => Cardinality(G[i]) <= Cardinality(G[j])
    BY <1>5 DEF GroupsListed
  <1> DEFINE row == [b \in boards |-> CHOOSE i \in 1..N : b \subseteq G[i]]
             col == [b \in boards |-> CHOOSE j \in 1..L : order[j] = b]
             pos == [b \in boards |-> At(L, row[b], col[b])]
  <1>9. \A b \in boards : row[b] \in 1..N /\ b \subseteq G[row[b]]
    BY <1>5
  <1>10. \A b \in boards : col[b] \in 1..L /\ order[col[b]] = b
    BY <1>2
  <1>11. \A b \in boards : pos[b] = At(L, row[b], col[b])
    OBVIOUS
  <1> HIDE DEF row, col, pos
  <1>12. \A b \in boards : \A i \in 1..N : b \cap G[i] # {} => i = row[b]
    BY <1>8, <1>9
  <1>13. ASSUME NEW b \in boards PROVE pos[b] \in 1..(N * L) /\ parts[pos[b]] = b
    <2> DEFINE i == row[b]
               j == col[b]
    <2>1. i \in 1..N /\ j \in 1..L /\ order[j] = b /\ b \subseteq G[i]
          /\ pos[b] = At(L, i, j)
      BY <1>9, <1>10, <1>11
    <2> HIDE DEF i, j
    <2>2. parts[At(L, i, j)] = order[j]
      BY <1>6, <2>1
    <2> QED BY <1>7, <2>1, <2>2
  <1>14. \A q \in 1..(N * L) : parts[q] = {} \/
            \E b \in boards : parts[q] = b /\ q = pos[b]
    <2> SUFFICES ASSUME NEW q \in 1..(N * L), parts[q] # {}
                 PROVE  \E b \in boards : parts[q] = b /\ q = pos[b]
      OBVIOUS
    <2>1. PICK i \in 1..N, j \in 1..L : q = At(L, i, j)
      BY <1>7
    <2>2. parts[q] = order[j] /\ order[j] \subseteq G[i] /\ order[j] \in boards
      BY <1>2, <1>6, <2>1
    <2>3. j = col[order[j]]
      BY <1>2, <1>10, <2>2
    <2>4. i = row[order[j]]
      BY <1>3, <1>12, <2>2
    <2> QED BY <1>11, <2>1, <2>2, <2>3, <2>4
  <1>15. UsedUpTo(boards, pos, k, got)
    <2>1. k \in 0..(N * L)
      BY <1>7 DEF G, N, L
    <2>2. /\ \A j \in 1..(N * L) : j < k => parts[j] \subseteq got
          /\ \A c \in got : \E j \in 1..(N * L) : j <= k /\ c \in parts[j]
      BY <1>6 DEF StopsAt, parts
    <2>3. \A b \in boards : \A j \in 1..(N * L) : b \cap parts[j] # {} => parts[j] = b
      BY <1>3, <1>14
    <2>4. \A b \in boards : \A j \in 1..(N * L) : parts[j] = b => j = pos[b]
      BY <1>3, <1>14
    <2> DEFINE len == N * L
    <2>5. len \in Nat /\ DOMAIN parts = 1..len /\ k \in 0..len
      BY <1>6, <1>7, <2>1
    <2>6. \A b \in boards : pos[b] \in 1..len /\ parts[pos[b]] = b
      BY <1>13
    <2> HIDE DEF len
    <2>7. /\ \A j \in 1..len : j < k => parts[j] \subseteq got
          /\ \A c \in got : \E j \in 1..len : j <= k /\ c \in parts[j]
          /\ \A b \in boards : \A j \in 1..len :
                j <= k /\ b \cap parts[j] # {} => parts[j] = b
          /\ \A b \in boards : \A j \in 1..len : parts[j] = b => j = pos[b]
      BY <2>2, <2>3, <2>4 DEF len
    <2>8. Places(boards, parts, len, pos, k, got)
      BY <2>5, <2>6, <2>7 DEF Places
    <2> QED BY <2>8, FilledUpTo
  <1>16. /\ \A b, c \in boards : Broken(got, b) /\ Broken(got, c) => b = c
         /\ \A b, c \in boards : pos[b] < pos[c] /\ c \cap got # {} => b \subseteq got
    BY <1>15, InOrder
  (* Within a group.                                                        *)
  <1>17. ASSUME NEW i \in 1..N
         PROVE  SmallestFirst(got, {b \in boards : b \subseteq G[i]})
    <2> SUFFICES ASSUME NEW b \in boards, NEW c \in boards,
                        b \subseteq G[i], c \subseteq G[i],
                        Cardinality(b) < Cardinality(c), c \cap got # {}
                 PROVE  b \subseteq got
      BY DEF SmallestFirst
    <2>1. row[b] = i /\ row[c] = i
      BY <1>3, <1>12
    <2>2. col[b] < col[c]
      BY <1>2, <1>10
    <2>3. pos[b] < pos[c]
      BY <1>7, <1>10, <1>11, <2>1, <2>2
    <2> QED BY <1>16, <2>3
  (* Among groups.                                                          *)
  <1>18. ASSUME NEW i \in 1..N, NEW m \in 1..N,
                Cardinality(G[i]) < Cardinality(G[m]), G[m] \cap got # {}
         PROVE  G[i] \subseteq got
    <2>1. \A x \in 1..N : G[x] \subseteq available /\ Cardinality(G[x]) \in Nat
      <3> SUFFICES ASSUME NEW x \in 1..N
                   PROVE  G[x] \subseteq available /\ Cardinality(G[x]) \in Nat
        OBVIOUS
      <3>1. G[x] \subseteq available
        BY <1>8
      <3> QED BY <1>1, <3>1, FS_Subset, FS_CardinalityType
    <2>2. i < m
      <3>1. m < i => Cardinality(G[m]) <= Cardinality(G[i])
        BY <1>8
      <3>2. ~ (m < i) /\ m # i
        BY <1>18, <2>1, <3>1
      <3> QED BY <1>5, <3>2
    <2> SUFFICES ASSUME NEW d \in G[i] PROVE d \in got
      OBVIOUS
    <2>3. PICK e \in G[m] : e \in got
      BY <1>18
    <2>4. PICK b \in boards : d \in b
      BY <1>3, <2>1
    <2>5. PICK c \in boards : e \in c
      BY <1>3, <2>1
    <2>6. row[b] = i /\ row[c] = m
      BY <1>12, <2>3, <2>4, <2>5
    <2>7. pos[b] < pos[c]
      <3>1. pos[b] = At(L, i, col[b]) /\ pos[c] = At(L, m, col[c])
        BY <1>11, <2>6
      <3>2. col[b] \in 1..L /\ col[c] \in 1..L
        BY <1>10
      <3>3. \A j, l \in 1..L : At(L, i, j) < At(L, m, l)
        BY <1>7, <2>2
      <3> QED BY <3>1, <3>2, <3>3
    <2>8. c \cap got # {}
      BY <2>3, <2>5
    <2> QED BY <1>16, <2>4, <2>7, <2>8
  <1>19. \A g \in groups : \E i \in 1..N : g = G[i]
    <2>1. \A g \in ToSet(h.groups) : \E x \in DOMAIN h.groups : g = h.groups[x]
      BY DEF ToSet
    <2> SUFFICES ASSUME NEW g \in ToSet(h.groups) PROVE \E i \in 1..N : g \cap available = G[i]
      OBVIOUS
    <2>2. PICK x \in DOMAIN h.groups : g = h.groups[x]
      BY <2>1
    <2> QED BY <1>8, <2>2
  <1> HIDE DEF groups
  <1>20. SmallestFirst(got, groups)
    BY <1>18, <1>19 DEF SmallestFirst
  <1>21. \A g \in groups : SmallestFirst(got, {b \in boards : b \subseteq g})
    BY <1>17, <1>19
  <1>22. h.groups # <<>>
    <2>1. DOMAIN h.groups # {}
      BY DEF Partition
    <2> QED BY <2>1
  <1> QED BY <1>16, <1>20, <1>21, <1>22 DEF KeepsBoards, boards, groups

-----------------------------------------------------------------------------
(* Boards are kept *)

(* A filling stops at some part.                                            *)
LEMMA FilledStops ==
  ASSUME NEW available, NEW parts \in Seq(SUBSET available), NEW k0, NEW x,
         Filled(parts, DOMAIN parts, available, k0, x)
  PROVE  /\ x.got \in SUBSET available
         /\ \E k \in 0..Len(parts) : StopsAt(parts, k, x.got)
  <1>1. x.got \in SUBSET available
    BY DEF Filled, Filling
  <1>2. PICK k \in DOMAIN parts \cup {0} :
           /\ \A j \in DOMAIN parts : j < k => parts[j] \subseteq x.got
           /\ \A c \in x.got : \E j \in DOMAIN parts : j <= k /\ c \in parts[j]
    BY DEF Filled
  <1>3. k \in 0..Len(parts)
    OBVIOUS
  <1> QED BY <1>1, <1>2, <1>3 DEF StopsAt

(* So does one that goes on to all that is available, unless it takes all.  *)
LEMMA StopsBefore ==
  ASSUME NEW available, NEW parts \in Seq(SUBSET available),
         \A c \in available : \E j \in DOMAIN parts : c \in parts[j],
         NEW got \in SUBSET available,
         NEW k \in 0..Len(parts \o <<available>>), StopsAt(parts \o <<available>>, k, got)
  PROVE  got = available \/ (k \in 0..Len(parts) /\ StopsAt(parts, k, got))
  <1> DEFINE all == parts \o <<available>>
             L == Len(parts)
  <1>1. /\ L \in Nat /\ DOMAIN parts = 1..L /\ DOMAIN all = 1..(L + 1) /\ Len(all) = L + 1
        /\ \A j \in 1..L : all[j] = parts[j]
    OBVIOUS
  <1>2. /\ \A j \in DOMAIN all : j < k => all[j] \subseteq got
        /\ \A c \in got : \E j \in DOMAIN all : j <= k /\ c \in all[j]
    BY DEF StopsAt
  <1>3. k \in 0..(L + 1)
    BY <1>1
  <1> HIDE DEF all, L
  <1>4. CASE k = L + 1
    <2>1. \A j \in 1..L : parts[j] \subseteq got
      BY <1>1, <1>2, <1>4
    <2> QED BY <1>1, <2>1
  <1>5. CASE k # L + 1
    <2>1. k \in 0..L
      BY <1>1, <1>3, <1>5
    <2>2. \A j \in 1..L : j < k => parts[j] \subseteq got
      BY <1>1, <1>2
    <2>3. \A c \in got : \E j \in 1..L : j <= k /\ c \in parts[j]
      BY <1>1, <1>2, <2>1
    <2> QED BY <1>1, <2>1, <2>2, <2>3 DEF StopsAt, L
  <1> QED BY <1>4, <1>5

(* Nodes on which the cards of a board are linked, as far as the allocator  *)
(* depends on it.                                                           *)
Linked(h) == h.allocator = "board" => BoardsLinked(h)

(* Without groups of the node none are listed.                              *)
LEMMA NoGroups ==
  ASSUME NEW h, h.groups = <<>>, NEW available, available # {}
  PROVE  Groups(h, available) = <<>>
  <1> DEFINE D == DOMAIN h.groups
             left == [i \in D |-> h.groups[i] \cap available]
             order == [k \in 1..Cardinality(D) |->
                         CHOOSE i \in D : Cardinality({j \in D :
                             \/ Cardinality(left[j]) < Cardinality(left[i])
                             \/ Cardinality(left[j]) = Cardinality(left[i]) /\ j < i}) = k - 1]
             G == [k \in DOMAIN order |-> left[order[k]]]
  <1>1. Groups(h, available) = IF \A c \in available : \E i \in D : c \in h.groups[i]
                               THEN G ELSE <<>>
    BY DEF Groups, Sorted
  <1>2. D = {}
    OBVIOUS
  <1> HIDE DEF G, D
  <1>3. ~(\A c \in available : \E i \in D : c \in h.groups[i])
    BY <1>2
  <1> QED BY <1>1, <1>3

LEMMA RemainingKeepsBoards ==
  ASSUME NEW h, IsHost(h), h.allocator \in {"spider", "board"}, Linked(h),
         h.groups = <<>> \/ Partition(h.groups, h),
         NEW available \in SUBSET h.card,
         NEW k \in Nat, k <= Cardinality(available),
         NEW a \in Remaining(h, available, k)
  PROVE  KeepsBoards(h, available, a)
  <1>1. IsFiniteSet(h.card) /\ IsFiniteSet(available)
    BY FS_Subset DEF IsHost
  <1>2. IsSeq(h.groups)
    BY DEF Partition, IsSeq
  <1>3. CASE h.allocator = "spider"
    <2>1. PICK order \in Orders(Split(available, h.motherboard)) :
            \E x \in Fill(order, k) : a = IF x.needed = 0 THEN x.got ELSE None
      BY <1>3 DEF Remaining
    <2>2. PICK x \in Fill(order, k) : a = IF x.needed = 0 THEN x.got ELSE None
      BY <2>1
    <2>3. ListsAll(order, available, h.motherboard)
      BY <1>1, OrdersOfSplit
    <2>4. /\ order \in Seq(SUBSET available)
          /\ \A c \in available : \E i \in 1..Len(order) : c \in order[i]
      BY <2>3 DEF ListsAll
    <2>5. x.needed = 0 /\ Filled(order, DOMAIN order, available, k, x)
      BY <1>1, <2>4, FillServes, FillFits
    <2>6. a = x.got
      BY <2>2, <2>5
    <2>7. PICK stop \in 0..Len(order) : StopsAt(order, stop, x.got)
      BY <2>4, <2>5, FilledStops
    <2>8. x.got \in SUBSET available
      BY <2>4, <2>5, FilledStops
    <2>9. KeepsBoards(h, available, x.got)
      BY <1>1, <1>3, <2>3, <2>7, <2>8, OneGroupKept
    <2> QED BY <2>6, <2>9
  <1>4. CASE h.allocator = "board"
    <2>1. PICK order \in Orders(Split(available, h.board)) :
            \E x \in Fill(BoardParts(h, available, order) \o <<available>>, k) :
               a = IF x.needed = 0 THEN x.got ELSE None
      BY <1>4 DEF Remaining
    <2> DEFINE parts == BoardParts(h, available, order)
               all == parts \o <<available>>
    <2>2. PICK x \in Fill(all, k) : a = IF x.needed = 0 THEN x.got ELSE None
      BY <2>1
    <2>3. ListsAll(order, available, h.board) /\ order \in Seq(SUBSET available)
      <3>1. ListsAll(order, available, h.board)
        BY <1>1, OrdersOfSplit
      <3> QED BY <3>1 DEF ListsAll
    <2>4. parts \in Seq(SUBSET available)
      BY <1>2, <2>3, BoardPartsSeq
    <2>5. /\ all \in Seq(SUBSET available)
          /\ all[Len(all)] = available /\ Len(all) \in 1..Len(all)
      BY <2>4
    <2> HIDE DEF all
    <2>6. x.needed = 0 /\ Filled(all, DOMAIN all, available, k, x)
      BY <1>1, <2>2, <2>5, FillServes, FillFits
    <2>7. a = x.got
      BY <2>2, <2>6
    <2>8. x.got \in SUBSET available
      BY <2>5, <2>6, FilledStops
    <2>9. PICK stop \in 0..Len(all) : StopsAt(all, stop, x.got)
      BY <2>5, <2>6, FilledStops
    <2>10. CASE available = {}
      <3>1. x.got = available
        BY <2>8, <2>10
      <3> QED BY <2>7, <3>1, AllKept
    <2>11. CASE available # {} /\ Partition(h.groups, h)
      <3>1. BoardsLinked(h)
        BY <1>4 DEF Linked
      <3>2. \A c \in available : \E j \in DOMAIN parts : c \in parts[j]
        BY <1>1, <2>3, <2>11, <3>1, BoardPartsCover
      <3>3. x.got = available \/ (stop \in 0..Len(parts) /\ StopsAt(parts, stop, x.got))
        <4> HIDE DEF parts
        <4> QED BY <2>4, <2>8, <2>9, <3>2, StopsBefore DEF all
      <3>4. CASE x.got = available
        BY <2>7, <3>4, AllKept
      <3>5. CASE stop \in 0..Len(parts) /\ StopsAt(parts, stop, x.got)
        <4>1. Len(parts) = Len(Groups(h, available)) * Len(order)
          <5>1. /\ Groups(h, available) # <<>> /\ Len(Groups(h, available)) \in Nat
            BY <1>1, <2>11, <3>1, BoardsInGroups
          <5>2. DOMAIN parts = 1..(Len(Groups(h, available)) * Len(order))
            BY <1>2, <2>3, <5>1, BoardPartsTable
          <5>3. Len(Groups(h, available)) * Len(order) \in Nat
            <6>1. Len(order) \in Nat
              BY <2>3
            <6> QED BY <5>1, <6>1
          <5> HIDE DEF parts
          <5> QED BY <2>4, <5>2, <5>3
        <4>2. stop \in Nat /\ stop <= Len(Groups(h, available)) * Len(order)
          <5>1. Len(parts) \in Nat
            BY <2>4
          <5> HIDE DEF parts
          <5> QED BY <3>5, <4>1, <5>1
        <4>3. KeepsBoards(h, available, x.got)
          BY <1>1, <1>4, <2>3, <2>8, <2>11, <3>1, <3>5, <4>2, GroupsKept
        <4> QED BY <2>7, <4>3
      <3> QED BY <3>3, <3>4, <3>5
    <2>12. CASE available # {} /\ h.groups = <<>>
      <3>1. Groups(h, available) = <<>>
        BY <2>12, NoGroups
      <3>2. parts = order
        BY <3>1 DEF BoardParts
      <3>3. \A c \in available : \E j \in DOMAIN order : c \in order[j]
        BY <2>3 DEF ListsAll
      <3>4. all = order \o <<available>>
        BY <3>2 DEF all
      <3>5. x.got = available \/ (stop \in 0..Len(order) /\ StopsAt(order, stop, x.got))
        BY <2>3, <2>8, <2>9, <3>3, <3>4, StopsBefore
      <3>6. CASE x.got = available
        BY <2>7, <3>6, AllKept
      <3>7. CASE stop \in 0..Len(order) /\ StopsAt(order, stop, x.got)
        <4>1. KeepsBoards(h, available, x.got)
          BY <1>1, <1>4, <2>3, <2>8, <2>12, <3>7, OneGroupKept
        <4> QED BY <2>7, <4>1
      <3> QED BY <3>5, <3>6, <3>7
    <2> QED BY <2>10, <2>11, <2>12
  <1> QED BY <1>3, <1>4

(* Allocate, when no choice of cards has rings.                             *)
LEMMA AllocateKeepsBoards ==
  ASSUME NEW h, IsHost(h), h.allocator # "default", Linked(h),
         h.groups = <<>> \/ Partition(h.groups, h),
         NEW available \in SUBSET h.card,
         NEW k \in Nat, k <= Cardinality(available),
         GetRings(h, available, k) = {},
         NEW pol, NEW a \in Allocate(h, pol, available, k), a # None
  PROVE  KeepsBoards(h, available, a)
  <1>1. h.allocator \in {"spider", "board"}
    BY DEF IsHost
  <1>2. ~WithoutRings(h, available, k)
    BY DEF WithoutRings
  <1>3. a \in IF pol # "best-effort" /\ ~SizeAlwaysFailsToFormRing(h, k)
              THEN {None} ELSE Remaining(h, available, k)
    <2> DEFINE rings == GetRings(h, available, k)
    <2>1. rings = {}
      OBVIOUS
    <2> HIDE DEF rings, SizeAlwaysFailsToFormRing, Remaining, WithoutRings
    <2> QED BY <1>2, <2>1 DEF Allocate, rings
  <1>4. a \in Remaining(h, available, k)
    <2> HIDE DEF SizeAlwaysFailsToFormRing, Remaining
    <2> QED BY <1>3
  <1> QED BY <1>1, <1>4, RemainingKeepsBoards

(* The groups the plugin reads once are those of its node, or none.         *)
LEMMA NodeGroups ==
  ASSUME name \in Name
  PROVE  n.groups = <<>> \/ Partition(n.groups, n)
  <1> DEFINE h == Node[name]
  <1>1. IsHost(h)
    BY NodeAssumption
  <1>2. n = [x \in DOMAIN h \cup {"groups"} |-> IF x = "groups" THEN CPUGroups(h) ELSE h[x]]
    BY DEF n, Plugin, WithGroups
  <1> HIDE DEF n, h
  <1>3. n.groups = CPUGroups(h)
    BY <1>2
  <1>4. n.card = h.card /\ n.link = h.link
    BY <1>1, <1>2 DEF IsHost
  <1>5. CASE h.linkFails
    BY <1>3, <1>5 DEF CPUGroups
  <1>6. CASE ~h.linkFails
    <2>1. Partition(CPUGroups(h), h)
      BY <1>1, <1>6, CPUGroupsPartition DEF IsHost
    <2>2. \A c : Reached(n, c) = Reached(h, c)
      BY <1>4 DEF Reached
    <2>3. Partition(CPUGroups(h), n)
      BY <1>4, <2>1, <2>2 DEF Partition
    <2> QED BY <1>3, <2>3
  <1> QED BY <1>5, <1>6

(* BoardsKept, on the nodes where the allocator's boards are linked.        *)
LinkedBoardsKept == Linked(n) => BoardsKept

LEMMA InitBoards == Init => LinkedBoardsKept
  BY DEF Init, LinkedBoardsKept, BoardsKept

(* All that is free is taken whole.                                         *)
LEMMA GetPreferredAllBoards == IInv /\ GetPreferredAll => LinkedBoardsKept'
  <1> SUFFICES ASSUME IInv, GetPreferredAll PROVE LinkedBoardsKept'
    OBVIOUS
  <1>1. answer' = Free /\ UNCHANGED <<name, used, size>>
    BY DEF GetPreferredAll, AnswerWith
  <1>2. n' = n /\ Free' = Free
    BY <1>1, SameNode
  <1>3. KeepsBoards(n, CardsOf(Free), CardsOf(Free))
    BY AllKept
  <1> HIDE DEF n, Free
  <1> QED BY <1>1, <1>2, <1>3 DEF LinkedBoardsKept, BoardsKept

LEMMA GetPreferredRingsBoards == IInv /\ GetPreferredRings => LinkedBoardsKept'
  <1> SUFFICES ASSUME IInv, GetPreferredRings PROVE LinkedBoardsKept'
    OBVIOUS
  <1> DEFINE cards == CardsOf(Free)
  <1>1. /\ pc = "asked" /\ n.mode = "topology-aware"
        /\ UNCHANGED <<name, policy, used, size>>
        /\ \E a \in Allocate(n, policy, cards, size) :
              answer' = IF a = None THEN None ELSE Whole(a)
    BY DEF GetPreferredRings, AnswerWith, ToDevices
  <1>2. PICK a \in Allocate(n, policy, cards, size) :
           answer' = IF a = None THEN None ELSE Whole(a)
    BY <1>1
  <1>3. n' = n /\ Free' = Free
    BY <1>1, SameNode
  <1>4. name \in Name /\ size \in Nat /\ size # 0 /\ size <= Cardinality(Free)
    BY <1>1, Asked
  <1>5. /\ cards \in SUBSET n.card /\ IsFiniteSet(cards)
        /\ Cardinality(cards) = Cardinality(Free)
    BY <1>1, <1>4, FreeCards
  <1>6. IsHost(n) /\ IsSeq(n.groups) /\ (n.groups = <<>> \/ Partition(n.groups, n))
    BY <1>4, NodeFacts, NodeGroups
  <1> HIDE DEF n, Free, cards
  <1>7. SUFFICES ASSUME Linked(n), n.allocator # "default", answer' # None,
                        GetRings(n, cards, size) = {}
                 PROVE  KeepsBoards(n, cards, CardsOf(answer'))
    BY <1>1, <1>3 DEF LinkedBoardsKept, BoardsKept, cards
  <1>8. a # None /\ answer' = Whole(a)
    BY <1>2, <1>7
  <1>9. KeepsBoards(n, cards, a)
    BY <1>4, <1>5, <1>6, <1>7, <1>8, AllocateKeepsBoards
  <1>10. a \in kSubset(size, cards)
    BY <1>4, <1>5, <1>6, <1>8, AllocateKeepsPolicy
  <1>11. IsFiniteSet(a)
    BY <1>5, <1>10, FS_Subset DEF kSubset
  <1>12. CardsOf(answer') = a
    BY <1>8, <1>11, WholeCards
  <1> QED BY <1>9, <1>12

LEMMA NextBoards == IInv /\ LinkedBoardsKept /\ [Next]_vars => LinkedBoardsKept'
  <1> SUFFICES ASSUME IInv, LinkedBoardsKept, [Next]_vars PROVE LinkedBoardsKept'
    OBVIOUS
  <1>1. CASE GetPreferredAll
    BY <1>1, GetPreferredAllBoards
  <1>2. CASE GetPreferredRings
    BY <1>2, GetPreferredRingsBoards
  <1>3. CASE GetPreferredWithoutRings
    <2>1. rushed' = TRUE
      BY <1>3 DEF GetPreferredWithoutRings
    <2> QED BY <2>1 DEF LinkedBoardsKept, BoardsKept
  <1>4. CASE KubeletChooses \/ GetPreferredEnvShare
    <2>1. n.mode # "topology-aware" /\ UNCHANGED name
      BY <1>4 DEF KubeletChooses, GetPreferredEnvShare, AnswerWith
    <2>2. n' = n
      BY <2>1, SameNode
    <2> HIDE DEF n
    <2> QED BY <2>1, <2>2 DEF LinkedBoardsKept, BoardsKept
  <1>5. CASE Ask \/ Admit \/ Start \/ Release
    <2>1. pc' # "answered"
      BY <1>5 DEF Ask, Admit, Start, Release
    <2> QED BY <2>1 DEF LinkedBoardsKept, BoardsKept
  <1>6. CASE UNCHANGED vars
    <2>1. UNCHANGED <<name, used, pc, size, answer, rushed>>
      BY <1>6 DEF vars
    <2>2. n' = n /\ Free' = Free
      BY <2>1, SameNode
    <2> HIDE DEF n, Free
    <2> QED BY <2>1, <2>2 DEF LinkedBoardsKept, BoardsKept
  <1> QED BY <1>1, <1>2, <1>3, <1>4, <1>5, <1>6 DEF Next

(* On every node cards without rings come off one board after the other,    *)
(* groups and boards with least of them first.  For the board allocator the *)
(* cards of a board must be linked: it passes over, group by group, boards  *)
(* whose free cards are not all in the group.                               *)
THEOREM BoardsFilled == Spec => [](Linked(n) => BoardsKept)
  <1>1. Init => LinkedBoardsKept
    BY InitBoards
  <1>2. IInv /\ LinkedBoardsKept /\ [Next]_vars => LinkedBoardsKept'
    BY NextBoards
  <1>3. Spec => []LinkedBoardsKept
    BY <1>1, <1>2, PreferencesInductive, PTL DEF Spec
  <1> QED BY <1>3 DEF LinkedBoardsKept
=============================================================================

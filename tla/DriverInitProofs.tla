--------------------------- MODULE DriverInitProofs ---------------------------
(* The library is opened once, and the inventory has every card once, for   *)
(* any number of cards, rounds and disturbances.                            *)
EXTENDS DriverInit, TLAPS, FiniteSetTheorems

N == Cardinality(Card)

(* The delay tells whether the first round has opened the library.          *)
OpenedInFirstRound ==
    /\ i = 1 => opened = 0
    /\ i # 1 => opened = 1 /\ lib
    /\ pc = "lib" => i = 1
    /\ pc \in Phase \ {"lib", "init", "down"} => i # 1

AfterHandles == {"health", "fetch", "inventory", "devices", "serving"}

(* The map is one to one, and when PCI was read in full it has an index for *)
(* every card there is.                                                     *)
HandlesOnce ==
    /\ \A j, k \in DOMAIN handles : handles[j] = handles[k] => j = k
    /\ pc = "handles" /\ ~missed => counts = N
    /\ pc \in AfterHandles /\ ~missed => DOMAIN handles = 0..(N - 1)

(* Unless a card has gone all are there, and counted.                       *)
AllThere ==
    /\ pc \in AfterHandles /\ ~missed /\ ~dropped => Present = Card
    /\ pc = "devices" /\ ~missed /\ ~dropped => counts = N

IInv ==
    /\ TypeOK
    /\ OpenedInFirstRound
    /\ HandlesOnce
    /\ AllThere
    /\ NoCardTwice
    /\ NoCardLeftOut

LEMMA CardsCounted == N \in Nat
  BY CardAssumption, FS_CardinalityType DEF N

LEMMA PresentCounted ==
    /\ Cardinality(Present) \in 0..N
    /\ Cardinality(Present) = N => Present = Card
    /\ Cardinality(Present') \in 0..N
  <1>1. Present \in SUBSET Card /\ Present' \in SUBSET Card
    BY DEF Present
  <1>2. /\ IsFiniteSet(Present) /\ Cardinality(Present) <= N
        /\ N = Cardinality(Present) => Card = Present
    BY <1>1, CardAssumption, FS_Subset DEF N
  <1>3. IsFiniteSet(Present') /\ Cardinality(Present') <= N
    BY <1>1, CardAssumption, FS_Subset DEF N
  <1>4. Cardinality(Present) \in Nat /\ Cardinality(Present') \in Nat
    BY <1>2, <1>3, FS_CardinalityType
  <1> QED BY <1>2, <1>3, <1>4, CardsCounted

LEMMA MapType ==
  ASSUME NEW n \in 0..N, NEW f \in [0..(n - 1) -> Card]
  PROVE  f \in CardMap
  BY DEF CardMap, N

LEMMA EmptyType == Empty \in CardMap /\ DOMAIN Empty = {}
  <1>1. 0 \in 0..N
    BY CardsCounted
  <1>2. Empty \in [0..(0 - 1) -> Card]
    BY DEF Empty
  <1> QED BY <1>1, <1>2, MapType DEF Empty

(* A one-to-one map of as many indices as there are cards has every card.   *)
LEMMA OneToOneIsOnto ==
  ASSUME NEW f \in [0..(N - 1) -> Card],
         \A j, k \in 0..(N - 1) : f[j] = f[k] => j = k
  PROVE  {f[k] : k \in DOMAIN f} = Card
  <1>1. f \in Injection(0..(N - 1), Card)
    BY DEF Injection, IsInjective
  <1>2. Cardinality(0..(N - 1)) = N
    BY CardsCounted, FS_Interval
  <1>3. f \in Surjection(0..(N - 1), Card)
    BY <1>1, <1>2, CardAssumption, FS_Injection DEF N
  <1> QED BY <1>3 DEF Surjection

LEMMA InitEstablishes == Init => IInv
  <1> SUFFICES ASSUME Init PROVE IInv
    OBVIOUS
  <1>1. TypeOK
    <2>1. faults \in 0..MaxFaults
      BY CardAssumption DEF Init
    <2>2. counts \in 0..Cardinality(Card) /\ slot \in 0..Cardinality(Card)
      BY CardsCounted DEF Init, N
    <2>3. handles \in CardMap /\ devices \in CardMap
      BY EmptyType DEF Init
    <2>4. /\ installed \in BOOLEAN /\ lib \in BOOLEAN
          /\ missed \in BOOLEAN /\ dropped \in BOOLEAN
      BY DEF Init
    <2>5. i \in Delays /\ opened \in Nat /\ pc \in Phase
      BY DEF Init, Delays, Phase
    <2>6. state \in [Card -> {"absent", "loaded", "running"}]
      BY DEF Init
    <2> QED BY <2>1, <2>2, <2>3, <2>4, <2>5, <2>6 DEF TypeOK
  <1>2. OpenedInFirstRound
    BY DEF Init, OpenedInFirstRound
  <1>3. HandlesOnce /\ AllThere
    BY EmptyType DEF Init, HandlesOnce, AllThere, AfterHandles
  <1>4. NoCardTwice /\ NoCardLeftOut
    BY DEF Init, NoCardTwice, NoCardLeftOut
  <1> QED BY <1>1, <1>2, <1>3, <1>4 DEF IInv

(* The end of the process and its start.                                    *)
LEMMA DownInvariant ==
  ASSUME IInv, Fresh, pc' \in {"down", "lib"}, UNCHANGED host,
         faults' \in 0..MaxFaults
  PROVE  IInv'
  <1>1. TypeOK'
    <2>1. counts' \in 0..Cardinality(Card) /\ slot' \in 0..Cardinality(Card)
      BY CardsCounted DEF Fresh, N
    <2>2. handles' \in CardMap /\ devices' \in CardMap
      BY EmptyType DEF Fresh
    <2>3. lib' \in BOOLEAN /\ missed' \in BOOLEAN /\ dropped' \in BOOLEAN
      BY DEF Fresh
    <2>4. i' \in Delays /\ opened' \in Nat /\ pc' \in Phase
      BY DEF Fresh, Delays, Phase
    <2>5. /\ installed' \in BOOLEAN
          /\ state' \in [Card -> {"absent", "loaded", "running"}]
      BY DEF IInv, TypeOK, host
    <2> QED BY <2>1, <2>2, <2>3, <2>4, <2>5 DEF TypeOK
  <1>2. OpenedInFirstRound'
    BY DEF Fresh, OpenedInFirstRound
  <1>3. HandlesOnce' /\ AllThere'
    BY EmptyType DEF Fresh, HandlesOnce, AllThere, AfterHandles
  <1>4. NoCardTwice' /\ NoCardLeftOut'
    BY DEF NoCardTwice, NoCardLeftOut
  <1> QED BY <1>1, <1>2, <1>3, <1>4 DEF IInv

LEMMA FaultType ==
  ASSUME TypeOK, Fault
  PROVE  faults' \in 0..MaxFaults
  BY CardAssumption DEF TypeOK, Fault

LEMMA DiesInvariant ==
  ASSUME IInv, Dies, UNCHANGED host, Fault \/ UNCHANGED faults
  PROVE  IInv'
  <1>1. faults' \in 0..MaxFaults
    BY FaultType DEF IInv, TypeOK
  <1> QED BY <1>1, DownInvariant DEF Dies

LEMMA PresentSame ==
  ASSUME UNCHANGED host
  PROVE  Present' = Present
  BY DEF host, Present

LEMMA HostInvariant ==
  ASSUME IInv, InstallDriver \/ \E c \in Card : CardComesUp(c) \/ CardGoesAway(c)
  PROVE  IInv'
  <1>1. CASE InstallDriver
    <2>1. TypeOK'
      BY <1>1 DEF IInv, TypeOK, InstallDriver
    <2>2. Present' = Present
      BY <1>1 DEF InstallDriver, Present
    <2> QED BY <1>1, <2>1, <2>2 DEF IInv, InstallDriver, OpenedInFirstRound,
               HandlesOnce, AllThere, NoCardTwice, NoCardLeftOut
  <1>2. ASSUME NEW c \in Card, CardComesUp(c)
        PROVE  IInv'
    <2>1. TypeOK'
      BY <1>2 DEF IInv, TypeOK, CardComesUp
    <2>2. Present \subseteq Present' /\ Present' \subseteq Card
      BY <1>2 DEF IInv, TypeOK, CardComesUp, Present
    <2>3. AllThere'
      BY <1>2, <2>2 DEF IInv, CardComesUp, AllThere
    <2> QED BY <1>2, <2>1, <2>3 DEF IInv, CardComesUp, OpenedInFirstRound,
               HandlesOnce, NoCardTwice, NoCardLeftOut
  <1>3. ASSUME NEW c \in Card, CardGoesAway(c)
        PROVE  IInv'
    <2>1. TypeOK'
      BY <1>3, FaultType DEF IInv, TypeOK, CardGoesAway
    <2>2. AllThere' /\ NoCardLeftOut'
      BY <1>3 DEF CardGoesAway, AllThere, NoCardLeftOut
    <2> QED BY <1>3, <2>1, <2>2 DEF IInv, CardGoesAway, OpenedInFirstRound,
               HandlesOnce, NoCardTwice
  <1> QED BY <1>1, <1>2, <1>3

LEMMA LibInvariant ==
  ASSUME IInv, EnsureCndevLib
  PROVE  IInv'
  <1>1. CASE Fault /\ Dies
    BY <1>1, DiesInvariant DEF EnsureCndevLib
  <1>2. CASE pc' = "init"
    <2>1. /\ pc = "lib" /\ pc' = "init" /\ lib' = (installed \/ ImageHasLib)
          /\ UNCHANGED <<i, opened, counts, handles, slot, devices, missed,
                         dropped, faults>>
          /\ UNCHANGED host
      BY <1>2 DEF EnsureCndevLib, Dies
    <2>2. lib' \in BOOLEAN
      BY <2>1, CardAssumption DEF IInv, TypeOK
    <2>3. TypeOK'
      BY <2>1, <2>2 DEF IInv, TypeOK, host, Phase
    <2>4. OpenedInFirstRound'
      BY <2>1 DEF IInv, OpenedInFirstRound
    <2>5. HandlesOnce' /\ AllThere' /\ NoCardTwice' /\ NoCardLeftOut'
      BY <2>1 DEF IInv, HandlesOnce, AllThere, AfterHandles, NoCardTwice,
                  NoCardLeftOut
    <2> QED BY <2>3, <2>4, <2>5 DEF IInv
  <1> QED BY <1>1, <1>2 DEF EnsureCndevLib

LEMMA InitCndevInvariant ==
  ASSUME IInv, InitCndev
  PROVE  IInv'
  <1>1. CASE Dies /\ UNCHANGED faults
    BY <1>1, DiesInvariant DEF InitCndev
  <1>2. CASE ~(Dies /\ UNCHANGED faults)
    <2>1. /\ pc = "init" /\ pc' \in {"count", "init"}
          /\ Delayed(i) = 2 => lib
          /\ i' = Delayed(i)
          /\ opened' = IF i' = 2 THEN opened + 1 ELSE opened
          /\ Fault \/ UNCHANGED faults
          /\ UNCHANGED <<lib, counts, handles, slot, devices, missed, dropped>>
          /\ UNCHANGED host
      BY <1>2 DEF InitCndev, NextRound
    <2>2. faults' \in 0..MaxFaults
      BY <2>1, FaultType DEF IInv, TypeOK
    <2>3. i \in Delays
      BY DEF IInv, TypeOK
    <2>4. i' \in Delays /\ i' # 1 /\ (i' = 2 <=> i = 1)
      BY <2>1, <2>3 DEF Delays, Delayed
    <2>5. opened' \in Nat
      BY <2>1 DEF IInv, TypeOK
    <2>6. TypeOK'
      BY <2>1, <2>2, <2>4, <2>5 DEF IInv, TypeOK, host, Phase
    <2>7. OpenedInFirstRound'
      BY <2>1, <2>4 DEF IInv, OpenedInFirstRound
    <2>8. HandlesOnce' /\ AllThere' /\ NoCardTwice' /\ NoCardLeftOut'
      BY <2>1 DEF IInv, HandlesOnce, AllThere, AfterHandles, NoCardTwice,
                  NoCardLeftOut
    <2> QED BY <2>6, <2>7, <2>8 DEF IInv
  <1> QED BY <1>1, <1>2

LEMMA CountInvariant ==
  ASSUME IInv, GetDeviceCount
  PROVE  IInv'
  <1>1. /\ pc = "count" /\ pc' \in {"init", "pci"}
        /\ counts' \in {counts, Cardinality(Present)}
        /\ Fault \/ UNCHANGED faults
        /\ UNCHANGED <<lib, i, opened, handles, slot, devices, missed, dropped>>
        /\ UNCHANGED host
    BY DEF GetDeviceCount, NextRound
  <1>2. faults' \in 0..MaxFaults
    BY <1>1, FaultType DEF IInv, TypeOK
  <1>3. counts' \in 0..Cardinality(Card)
    BY <1>1, PresentCounted DEF IInv, TypeOK, N
  <1>4. TypeOK'
    BY <1>1, <1>2, <1>3 DEF IInv, TypeOK, host, Phase
  <1>5. OpenedInFirstRound'
    BY <1>1 DEF IInv, OpenedInFirstRound, Phase
  <1>6. HandlesOnce' /\ AllThere' /\ NoCardTwice' /\ NoCardLeftOut'
    BY <1>1 DEF IInv, HandlesOnce, AllThere, AfterHandles, NoCardTwice,
                NoCardLeftOut
  <1> QED BY <1>4, <1>5, <1>6 DEF IInv

LEMMA PciInvariant ==
  ASSUME IInv, FetchMLUCounts
  PROVE  IInv'
  <1>1. /\ pc = "pci" /\ pc' \in {"init", "handles"}
        /\ missed' \in {TRUE, FALSE, missed}
        /\ pc' = "handles" /\ ~missed' => counts = N
        /\ Fault \/ UNCHANGED faults
        /\ UNCHANGED <<lib, i, opened, counts, handles, slot, devices, dropped>>
        /\ UNCHANGED host
    BY DEF FetchMLUCounts, NextRound, AllCounted, N
  <1>2. faults' \in 0..MaxFaults
    BY <1>1, FaultType DEF IInv, TypeOK
  <1>3. TypeOK'
    BY <1>1, <1>2 DEF IInv, TypeOK, host, Phase
  <1>4. OpenedInFirstRound'
    BY <1>1 DEF IInv, OpenedInFirstRound, Phase
  <1>5. HandlesOnce' /\ AllThere' /\ NoCardTwice' /\ NoCardLeftOut'
    BY <1>1 DEF IInv, HandlesOnce, AllThere, AfterHandles, NoCardTwice,
                NoCardLeftOut
  <1> QED BY <1>3, <1>4, <1>5 DEF IInv

LEMMA HandlesInvariant ==
  ASSUME IInv, GenerateDeviceHandleMap
  PROVE  IInv'
  <1>1. CASE counts > Cardinality(Present)
    <2>1. Dies /\ UNCHANGED faults /\ UNCHANGED host
      BY <1>1, PresentCounted, CardsCounted DEF GenerateDeviceHandleMap, IInv, TypeOK
    <2> QED BY <2>1, DiesInvariant
  <1>2. CASE counts <= Cardinality(Present)
    <2>1. /\ pc = "handles" /\ pc' = "health" /\ slot' = 0
          /\ HandleMap(counts)
          /\ UNCHANGED <<lib, i, opened, counts, devices, missed, dropped, faults>>
          /\ UNCHANGED host
      BY <1>2 DEF GenerateDeviceHandleMap
    <2>2. PICK h \in [0..(counts - 1) -> Card] :
             IsNumbering(h, Present) /\ handles' = h
      BY <2>1 DEF HandleMap
    <2>3. counts \in 0..N
      BY DEF IInv, TypeOK, N
    <2>4. TypeOK'
      <3>1. handles' \in CardMap
        BY <2>2, <2>3, MapType
      <3>2. slot' \in 0..Cardinality(Card)
        BY <2>1, CardsCounted DEF N
      <3> QED BY <2>1, <3>1, <3>2 DEF IInv, TypeOK, host, Phase
    <2>5. OpenedInFirstRound'
      BY <2>1 DEF IInv, OpenedInFirstRound, Phase
    <2>6. HandlesOnce'
      <3>1. \A j, k \in 0..(counts - 1) : h[j] = h[k] => j = k
        <4> SUFFICES ASSUME NEW j \in 0..(counts - 1), NEW k \in 0..(counts - 1),
                            j < k
                     PROVE  h[j] # h[k]
          BY <2>3, CardsCounted
        <4>1. h[j] < h[k]
          BY <2>2 DEF IsNumbering
        <4>2. h[j] \in Nat /\ h[k] \in Nat
          BY <2>2, CardAssumption
        <4> QED BY <4>1, <4>2
      <3>2. ~missed' => counts = N
        BY <2>1 DEF IInv, HandlesOnce
      <3> QED BY <2>1, <2>2, <3>1, <3>2 DEF HandlesOnce
    <2>7. AllThere'
      <3>1. ~missed => Present = Card
        BY <1>2, <2>1, PresentCounted, CardsCounted DEF IInv, HandlesOnce
      <3>2. Present' = Present
        BY <2>1, PresentSame
      <3> QED BY <2>1, <3>1, <3>2 DEF AllThere
    <2>8. NoCardTwice' /\ NoCardLeftOut'
      BY <2>1 DEF NoCardTwice, NoCardLeftOut
    <2> QED BY <2>4, <2>5, <2>6, <2>7, <2>8 DEF IInv
  <1> QED BY <1>1, <1>2, PresentCounted, CardsCounted DEF IInv, TypeOK

LEMMA HealthInvariant ==
  ASSUME IInv, IsDriverRunning
  PROVE  IInv'
  <1>1. /\ pc = "health" /\ pc' \in {"init", "health", "fetch"}
        /\ slot' \in {slot, 0} \/ (slot + 1 < counts /\ slot' = slot + 1)
        /\ Fault \/ UNCHANGED faults
        /\ UNCHANGED <<lib, i, opened, counts, handles, devices, missed, dropped>>
        /\ UNCHANGED host
    BY DEF IsDriverRunning, NextRound
  <1>2. faults' \in 0..MaxFaults
    BY <1>1, FaultType DEF IInv, TypeOK
  <1>3. slot' \in 0..Cardinality(Card)
    BY <1>1, CardsCounted DEF IInv, TypeOK, N
  <1>4. TypeOK'
    BY <1>1, <1>2, <1>3 DEF IInv, TypeOK, host, Phase
  <1>5. OpenedInFirstRound'
    BY <1>1 DEF IInv, OpenedInFirstRound, Phase
  <1>6. HandlesOnce'
    BY <1>1 DEF IInv, HandlesOnce, AfterHandles
  <1>7. AllThere' /\ NoCardTwice' /\ NoCardLeftOut'
    BY <1>1, PresentSame DEF IInv, AllThere, AfterHandles, NoCardTwice, NoCardLeftOut
  <1> QED BY <1>4, <1>5, <1>6, <1>7 DEF IInv

LEMMA FetchInvariant ==
  ASSUME IInv, FetchDevices
  PROVE  IInv'
  <1>1. CASE Dies
    BY <1>1, DiesInvariant DEF FetchDevices
  <1>2. CASE ~Dies
    <2>1. /\ pc \in {"fetch", "inventory"} /\ pc' \in {"inventory", "devices"}
          /\ counts' = Cardinality(Present)
          /\ UNCHANGED <<lib, i, opened, handles, slot, devices, missed, dropped,
                         faults>>
          /\ UNCHANGED host
      BY <1>2 DEF FetchDevices
    <2>2. counts' \in 0..Cardinality(Card)
      BY <2>1, PresentCounted DEF N
    <2>3. TypeOK'
      BY <2>1, <2>2 DEF IInv, TypeOK, host, Phase
    <2>4. OpenedInFirstRound'
      BY <2>1 DEF IInv, OpenedInFirstRound, Phase
    <2>5. HandlesOnce'
      BY <2>1 DEF IInv, HandlesOnce, AfterHandles
    <2>6. AllThere'
      BY <2>1, PresentSame DEF IInv, AllThere, AfterHandles, N
    <2>7. NoCardTwice' /\ NoCardLeftOut'
      BY <2>1 DEF NoCardTwice, NoCardLeftOut
    <2> QED BY <2>3, <2>4, <2>5, <2>6, <2>7 DEF IInv
  <1> QED BY <1>1, <1>2

LEMMA DevicesInvariant ==
  ASSUME IInv, GetDevices
  PROVE  IInv'
  <1>1. CASE Dies
    BY <1>1, DiesInvariant DEF GetDevices
  <1>2. CASE ~Dies
    <2>1. /\ pc = "devices" /\ pc' = "serving"
          /\ \E found \in [0..(counts - 1) -> Present] :
                /\ \A k \in 0..(counts - 1) : found[k] \in Found(k)
                /\ devices' = found
          /\ UNCHANGED <<lib, i, opened, counts, handles, slot, missed, dropped,
                         faults>>
          /\ UNCHANGED host
      BY <1>2 DEF GetDevices
    <2>2. PICK found \in [0..(counts - 1) -> Present] :
             (\A k \in 0..(counts - 1) : found[k] \in Found(k)) /\ devices' = found
      BY <2>1
    <2>3. counts \in 0..N
      BY DEF IInv, TypeOK, N
    <2>4. found \in [0..(counts - 1) -> Card]
      BY <2>2 DEF Present
    <2>5. TypeOK'
      <3>1. devices' \in CardMap
        BY <2>2, <2>3, <2>4, MapType
      <3> QED BY <2>1, <3>1 DEF IInv, TypeOK, host, Phase
    <2>6. OpenedInFirstRound'
      BY <2>1 DEF IInv, OpenedInFirstRound, Phase
    <2>7. HandlesOnce' /\ AllThere'
      BY <2>1, PresentSame DEF IInv, HandlesOnce, AllThere, AfterHandles
    <2>8. ASSUME ~missed
          PROVE  \A j, k \in 0..(counts - 1) : found[j] = found[k] => j = k
      <3>1. \A k \in 0..(counts - 1) : k \in DOMAIN handles
        BY <2>1, <2>3, <2>8, CardsCounted DEF IInv, HandlesOnce, AfterHandles
      <3>2. \A k \in 0..(counts - 1) : found[k] = handles[k]
        BY <2>2, <3>1 DEF Found
      <3> QED BY <3>1, <3>2 DEF IInv, HandlesOnce
    <2>9. NoCardTwice'
      BY <2>1, <2>2, <2>8 DEF NoCardTwice
    <2>10. NoCardLeftOut'
      <3> SUFFICES ASSUME ~missed, ~dropped
                   PROVE  {found[k] : k \in DOMAIN found} = Card
        BY <2>1, <2>2 DEF NoCardLeftOut
      <3>1. counts = N
        BY <2>1 DEF IInv, AllThere
      <3> QED BY <2>4, <2>8, <3>1, OneToOneIsOnto
    <2> QED BY <2>5, <2>6, <2>7, <2>9, <2>10 DEF IInv
  <1> QED BY <1>1, <1>2

LEMMA RestartInvariant ==
  ASSUME IInv, RestartPlugins
  PROVE  IInv'
  <1>1. /\ pc = "serving" /\ pc' = "inventory" /\ Fault
        /\ UNCHANGED <<lib, i, opened, counts, handles, slot, devices, missed,
                       dropped>>
        /\ UNCHANGED host
    BY DEF RestartPlugins, host
  <1>2. TypeOK'
    BY <1>1, FaultType DEF IInv, TypeOK, host, Phase
  <1>3. OpenedInFirstRound'
    BY <1>1 DEF IInv, OpenedInFirstRound, Phase
  <1>4. HandlesOnce' /\ AllThere'
    BY <1>1, PresentSame DEF IInv, HandlesOnce, AllThere, AfterHandles
  <1>5. NoCardTwice' /\ NoCardLeftOut'
    BY <1>1 DEF NoCardTwice, NoCardLeftOut
  <1> QED BY <1>2, <1>3, <1>4, <1>5 DEF IInv

LEMMA StepPreserves == IInv /\ [Next]_vars => IInv'
  <1> SUFFICES ASSUME IInv, [Next]_vars PROVE IInv'
    OBVIOUS
  <1>1. CASE EnsureCndevLib
    BY <1>1, LibInvariant
  <1>2. CASE InitCndev
    BY <1>2, InitCndevInvariant
  <1>3. CASE GetDeviceCount
    BY <1>3, CountInvariant
  <1>4. CASE FetchMLUCounts
    BY <1>4, PciInvariant
  <1>5. CASE GenerateDeviceHandleMap
    BY <1>5, HandlesInvariant
  <1>6. CASE IsDriverRunning
    BY <1>6, HealthInvariant
  <1>7. CASE FetchDevices
    BY <1>7, FetchInvariant
  <1>8. CASE GetDevices
    BY <1>8, DevicesInvariant
  <1>9. CASE RestartPlugins
    BY <1>9, RestartInvariant
  <1>10. CASE StartProcess
    <2>1. faults' \in 0..MaxFaults
      BY <1>10 DEF StartProcess, IInv, TypeOK
    <2> QED BY <1>10, <2>1, DownInvariant DEF StartProcess
  <1>11. CASE InstallDriver \/ \E c \in Card : CardComesUp(c) \/ CardGoesAway(c)
    BY <1>11, HostInvariant
  <1>12. CASE UNCHANGED vars
    <2>1. Present' = Present
      BY <1>12 DEF vars, Present
    <2> QED BY <1>12, <2>1 DEF vars, IInv, TypeOK, OpenedInFirstRound, HandlesOnce,
               AllThere, NoCardTwice, NoCardLeftOut
  <1> QED BY <1>1, <1>2, <1>3, <1>4, <1>5, <1>6, <1>7, <1>8, <1>9, <1>10, <1>11,
             <1>12 DEF Next, Step

(* Every reachable state satisfies the inductive invariant.                 *)
THEOREM StartInductive == Spec => []IInv
  BY InitEstablishes, StepPreserves, PTL DEF Spec

(* Every variable of the start keeps its type.                              *)
THEOREM TypeCorrect == Spec => []TypeOK
  <1>1. IInv => TypeOK
    BY DEF IInv
  <1> QED BY <1>1, StartInductive, PTL

(* For any number of rounds and restarts of the process, the driver is      *)
(* called with its library opened, once.                                    *)
THEOREM OpenedOnce == Spec => []LibraryOpenedOnce
  <1>1. IInv => LibraryOpenedOnce
    BY DEF IInv, OpenedInFirstRound, LibraryOpenedOnce
  <1> QED BY <1>1, StartInductive, PTL

(* For any number of cards that come and go while the driver is polled, the *)
(* plugin lists all of them, and ...                                        *)
THEOREM ListsEveryCard == Spec => []NoCardLeftOut
  <1>1. IInv => NoCardLeftOut
    BY DEF IInv
  <1> QED BY <1>1, StartInductive, PTL

(* ... lists none twice.                                                    *)
THEOREM ListsNoneTwice == Spec => []NoCardTwice
  <1>1. IInv => NoCardTwice
    BY DEF IInv
  <1> QED BY <1>1, StartInductive, PTL
=============================================================================

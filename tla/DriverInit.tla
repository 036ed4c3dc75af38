------------------------------ MODULE DriverInit ------------------------------
(***************************************************************************)
(* The start of the process, up to the first inventory of the cards:       *)
(*                                                                         *)
(*   EnsureCndevLib --> EnsureMLUAllOk --> GetDeviceCount --> GetDevices   *)
(*                        ^         |                                      *)
(*                        +-- delay-+  until every card on the PCI bus is  *)
(*                                     counted by the driver and runs      *)
(*                                                                         *)
(* Meanwhile the driver is being installed, and loads the cards one by     *)
(* one.  The handles of the cards are kept in cndevHandleMap by index, and *)
(* every later call of the driver goes through that map.                   *)
(***************************************************************************)
EXTENDS Naturals, FiniteSets

CONSTANTS
    Card,          \* the cards on the PCI bus, numbered
    ImageHasLib,   \* is there a libcndev.so in the image?
    MaxFaults      \* bound: disturbances in a behaviour

ASSUME CardAssumption ==
    /\ Card \subseteq Nat
    /\ IsFiniteSet(Card)
    /\ Card # {}
    /\ ImageHasLib \in BOOLEAN
    /\ MaxFaults \in Nat

VARIABLES
    installed,  \* is libcndev.so on the host?
    state,      \* what the driver has made of each card
    pc,         \* the call the process makes next; "down" without a process
    lib,        \* can /usr/lib/libcndev.so be opened?
    i,          \* the variable of EnsureMLUAllOk
    opened,     \* dl.handles: how often the library was opened
    counts,     \* what GetDeviceCount returned last
    handles,    \* cndevHandleMap
    slot,       \* the card isDriverRunning asks about next
    devices,    \* the inventory: the card found at each index
    missed,     \* history: did the last FetchMLUCounts overlook a card?
    dropped,    \* history: has a card gone away in the life of the process?
    faults      \* disturbances so far

host == <<installed, state>>
vars == <<installed, state, pc, lib, i, opened, counts, handles, slot, devices,
          missed, dropped, faults>>

Phase == {"lib", "init", "count", "pci", "handles", "health",
          "fetch", "inventory", "devices", "serving", "down"}

Empty == [k \in {} |-> 0]

(* Maps from an index to a card.                                            *)
CardMap == UNION {[0..(n - 1) -> Card] : n \in 0..Cardinality(Card)}

Delays == {1, 2, 4, 8, 16, 32, 64, 128, 256, 512, 1024, 2048, 4096, 8192,
           16384, 32768, 65536}

TypeOK ==
    /\ installed \in BOOLEAN
    /\ state \in [Card -> {"absent", "loaded", "running"}]
    /\ pc \in Phase
    /\ lib \in BOOLEAN
    /\ i \in Delays
    /\ opened \in Nat
    /\ counts \in 0..Cardinality(Card)
    /\ handles \in CardMap
    /\ slot \in 0..Cardinality(Card)
    /\ devices \in CardMap
    /\ missed \in BOOLEAN
    /\ dropped \in BOOLEAN
    /\ faults \in 0..MaxFaults

Fresh ==
    /\ lib' = FALSE
    /\ i' = 1
    /\ opened' = 0
    /\ counts' = 0
    /\ handles' = Empty
    /\ slot' = 0
    /\ devices' = Empty
    /\ missed' = FALSE
    /\ dropped' = FALSE

Init ==
    /\ installed \in BOOLEAN
    /\ state \in [Card -> {"absent", "loaded", "running"}]
    /\ pc = "lib"
    /\ lib = FALSE
    /\ i = 1
    /\ opened = 0
    /\ counts = 0
    /\ handles = Empty
    /\ slot = 0
    /\ devices = Empty
    /\ missed = FALSE
    /\ dropped = FALSE
    /\ faults = 0

-----------------------------------------------------------------------------
(* The host (external) *)

InstallDriver ==
    /\ ~installed
    /\ installed' = TRUE
    /\ UNCHANGED <<state, pc, lib, i, opened, counts, handles, slot, devices,
                   missed, dropped, faults>>

Present == {c \in Card : state[c] # "absent"}

CardComesUp(c) ==
    /\ \/ state[c] = "absent" /\ state' = [state EXCEPT ![c] = "loaded"]
       \/ state[c] = "loaded" /\ state' = [state EXCEPT ![c] = "running"]
    /\ UNCHANGED <<installed, pc, lib, i, opened, counts, handles, slot, devices,
                   missed, dropped, faults>>

Fault ==
    /\ faults < MaxFaults
    /\ faults' = faults + 1

(* A card is reset, or its driver reloaded.                                 *)
CardGoesAway(c) ==
    /\ Fault
    /\ state[c] # "absent"
    /\ state' = [state EXCEPT ![c] = "absent"]
    /\ dropped' = TRUE
    /\ UNCHANGED <<installed, pc, lib, i, opened, counts, handles, slot, devices,
                   missed>>

(* The DaemonSet.                                                           *)
StartProcess ==
    /\ pc = "down"
    /\ pc' = "lib"
    /\ Fresh
    /\ UNCHANGED <<host, faults>>

(* A panic.                                                                 *)
Dies ==
    /\ pc' = "down"
    /\ Fresh

-----------------------------------------------------------------------------
(* EnsureCndevLib: the host's library if there is one, else the image's.    *)
EnsureCndevLib ==
    /\ pc = "lib"
    /\ \/ /\ pc' = "init"
          /\ lib' = (installed \/ ImageHasLib)
          /\ UNCHANGED <<i, opened, counts, handles, slot, devices, missed,
                         dropped, faults>>
       \/ installed /\ Fault /\ Dies
    /\ UNCHANGED host

(* Mutant: the delay starts over when it has reached its limit.             *)
DelayedFromStart(n) == IF n < 60000 THEN 2 * n ELSE 2

(* The next round of EnsureMLUAllOk: i doubles while the delay is below 60 s.*)
Delayed(n) == IF n < 60000 THEN 2 * n ELSE n

NextRound == pc' = "init"

(* Mutant: a library that cannot be opened costs a round.                   *)
InitCndevPollsOn ==
    /\ pc = "init"
    /\ i' = Delayed(i)
    /\ opened' = IF i' = 2 /\ lib THEN opened + 1 ELSE opened
    /\ \/ opened' = 1 /\ pc' = "count" /\ UNCHANGED faults
       \/ opened' = 0 /\ NextRound /\ UNCHANGED faults
       \/ NextRound /\ Fault
    /\ UNCHANGED <<host, lib, counts, handles, slot, devices, missed, dropped>>

(* Init of cndev: only the first round opens the library.  When that fails  *)
(* there is no cndevGetErrorString to tell, and errorString calls itself    *)
(* until the stack overflows.                                               *)
InitCndev ==
    /\ pc = "init"
    /\ \/ Delayed(i) = 2 /\ ~lib /\ Dies /\ UNCHANGED faults
       \/ /\ Delayed(i) = 2 => lib
          /\ i' = Delayed(i)
          /\ opened' = IF i' = 2 THEN opened + 1 ELSE opened
          /\ \/ pc' = "count" /\ UNCHANGED faults
             \/ NextRound /\ Fault
          /\ UNCHANGED <<lib, counts, handles, slot, devices, missed, dropped>>
    /\ UNCHANGED host

(* GetDeviceCount: the driver counts the cards it has loaded.               *)
GetDeviceCount ==
    /\ pc = "count"
    /\ \/ /\ counts' = Cardinality(Present)
          /\ IF counts' = 0 THEN NextRound ELSE pc' = "pci"
          /\ UNCHANGED faults
       \/ NextRound /\ Fault /\ UNCHANGED counts
    /\ UNCHANGED <<host, lib, i, opened, handles, slot, devices, missed, dropped>>

(* Mutant: more cards than the driver has counted are no reason to wait.    *)
AllCountedAtLeast(real) == counts <= real

AllCounted(real) == counts = real

(* FetchMLUCounts: a directory that cannot be read is an error, a card      *)
(* whose files cannot be read is not counted.                               *)
FetchMLUCounts ==
    /\ pc = "pci"
    /\ \/ /\ IF AllCounted(Cardinality(Card)) THEN pc' = "handles" ELSE NextRound
          /\ missed' = FALSE
          /\ UNCHANGED faults
       \/ /\ IF AllCounted(Cardinality(Card) - 1) THEN pc' = "handles" ELSE NextRound
          /\ missed' = TRUE
          /\ Fault
       \/ NextRound /\ Fault /\ UNCHANGED missed
    /\ UNCHANGED <<host, lib, i, opened, counts, handles, slot, devices, dropped>>

(* How the driver numbers the cards it has.                                 *)
IsNumbering(h, cards) ==
    /\ \A k \in DOMAIN h : h[k] \in cards
    /\ \A k \in DOMAIN h : \A j \in DOMAIN h : j < k => h[j] < h[k]
    /\ \A c \in cards : \A k \in DOMAIN h : c < h[k] => \E j \in DOMAIN h : h[j] = c

(* Mutant: a handle that is in the map stays there.                         *)
HandleMapKept(n) ==
    \E h \in [0..(n - 1) -> Card] :
        /\ IsNumbering(h, Present)
        /\ handles' = [k \in 0..(n - 1) |-> IF k \in DOMAIN handles THEN handles[k]
                                                                    ELSE h[k]]

(* Mutant: the first handle goes to index 1.                                *)
HandleMapFromOne(n) ==
    \E h \in [0..(n - 1) -> Card] :
        IsNumbering(h, Present) /\ handles' = [k \in 1..n |-> h[k - 1]]

(* A new map: the handles of the first n cards.                             *)
HandleMap(n) ==
    \E h \in [0..(n - 1) -> Card] : IsNumbering(h, Present) /\ handles' = h

(* generateDeviceHandleMap panics when a card has gone since it was counted.*)
GenerateDeviceHandleMap ==
    /\ pc = "handles"
    /\ IF counts <= Cardinality(Present)
         THEN /\ HandleMap(counts)
              /\ slot' = 0
              /\ pc' = "health"
              /\ UNCHANGED <<lib, i, opened, counts, devices, missed, dropped, faults>>
         ELSE Dies /\ UNCHANGED faults
    /\ UNCHANGED host

(* isDriverRunning, one card after the other.  A card that is gone cannot   *)
(* be read.                                                                 *)
IsDriverRunning ==
    /\ pc = "health"
    /\ \/ /\ state[handles[slot]] = "running"
          /\ IF slot + 1 < counts THEN pc' = "health" /\ slot' = slot + 1
                                  ELSE pc' = "fetch" /\ slot' = 0
          /\ UNCHANGED faults
       \/ /\ state[handles[slot]] # "running"
          /\ NextRound
          /\ UNCHANGED <<slot, faults>>
       \/ NextRound /\ Fault /\ UNCHANGED slot
    /\ UNCHANGED <<host, lib, i, opened, counts, handles, devices, missed, dropped>>

(* main counts once more, and GetDevices again: both panic on an error,     *)
(* main on zero too.                                                        *)
FetchDevices ==
    /\ pc \in {"fetch", "inventory"}
    /\ \/ /\ pc = "inventory" \/ Present # {}
          /\ counts' = Cardinality(Present)
          /\ pc' = IF pc = "fetch" THEN "inventory" ELSE "devices"
          /\ UNCHANGED <<lib, i, opened, handles, slot, devices, missed, dropped, faults>>
       \/ pc = "fetch" /\ Present = {} /\ Dies /\ UNCHANGED faults
       \/ Dies /\ Fault
    /\ UNCHANGED host

(* An index without a handle has the handle zero, which the driver refuses  *)
(* or takes for that of its first card.                                     *)
Found(k) == IF k \in DOMAIN handles THEN {handles[k]}
            ELSE {c \in Card : \A d \in Card : c <= d}

(* GetDevices: every index up to the count is read, and an error is a panic.*)
GetDevices ==
    /\ pc = "devices"
    /\ \/ \E found \in [0..(counts - 1) -> Present] :
             /\ \A k \in 0..(counts - 1) : found[k] \in Found(k)
             /\ devices' = found
             /\ pc' = "serving"
             /\ UNCHANGED <<lib, i, opened, counts, handles, slot, missed, dropped,
                            faults>>
       \/ /\ ~(0..(counts - 1) \subseteq {k \in DOMAIN handles : handles[k] \in Present})
          /\ Dies
          /\ UNCHANGED faults
       \/ Dies /\ Fault
    /\ UNCHANGED host

(* The plugins are started anew, in the same process: the handles stay.     *)
RestartPlugins ==
    /\ pc = "serving"
    /\ Fault
    /\ pc' = "inventory"
    /\ UNCHANGED <<host, lib, i, opened, counts, handles, slot, devices, missed,
                   dropped>>

Step ==
    \/ EnsureCndevLib \/ InitCndev \/ GetDeviceCount \/ FetchMLUCounts
    \/ GenerateDeviceHandleMap \/ IsDriverRunning \/ FetchDevices \/ GetDevices

Next ==
    \/ Step
    \/ StartProcess \/ RestartPlugins
    \/ InstallDriver
    \/ \E c \in Card : CardComesUp(c) \/ CardGoesAway(c)

(* The process runs and the DaemonSet starts it again.  Nobody has to       *)
(* install a driver or to repair a card.                                    *)
Fairness == WF_vars(Step) /\ WF_vars(StartProcess)

Spec == Init /\ [][Next]_vars /\ Fairness

-----------------------------------------------------------------------------
(* Properties *)

(* However many rounds it takes, the driver is called with its library      *)
(* opened, and the library is opened once in the life of the process.       *)
LibraryOpenedOnce ==
    /\ opened <= 1
    /\ pc \in Phase \ {"lib", "init", "down"} => opened = 1 /\ lib

(* The plugin never starts with a part of the cards, as it would if it did  *)
(* not wait for a driver that is still loading them: all of the host's      *)
(* cards are in the inventory, unless PCI was misread or a card has gone.   *)
NoCardLeftOut ==
    pc = "serving" /\ ~missed /\ ~dropped => {devices[k] : k \in DOMAIN devices} = Card

(* No card is in the inventory twice under two indices, although counts and *)
(* handles are from different moments, and from rounds that failed.         *)
NoCardTwice ==
    pc = "serving" /\ ~missed =>
        \A j, k \in DOMAIN devices : devices[j] = devices[k] => j = k

(* A host whose driver is installed and runs on all cards gets a plugin     *)
(* that serves them, whatever went wrong while it was coming up.            *)
EventuallyServing ==
    <>[](installed /\ \A c \in Card : state[c] = "running") => <>[](pc = "serving")
=============================================================================

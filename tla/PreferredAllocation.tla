-------------------------- MODULE PreferredAllocation --------------------------
(***************************************************************************)
(* The kubelet gives a pod its devices: it asks the plugin which it        *)
(* prefers (GetPreferredAllocation), takes those and has the plugin answer *)
(* how the container gets at them (Allocate, PrepareResponse).             *)
(*                                                                         *)
(* A device is <<card, number>>: the shares of a card in mode env-share,   *)
(* its instances in mode mim, number 0 for a whole card.                   *)
(***************************************************************************)
EXTENDS Allocators

CONSTANTS
    Name,      \* the nodes that are looked at
    Node,      \* their hardware and options, a record for each
    Policy     \* values of --mlulink-policy

(* A host: finitely many slots, of which one alone forms no ring; finitely  *)
(* many shares or instances of each in the modes that have them.            *)
IsHost(h) ==
    /\ {"mode", "how", "has", "card", "board", "motherboard", "link", "linkFails",
        "rings", "allocator", "topoRule"} \subseteq DOMAIN h
    /\ h.mode \in {"default", "env-share", "mim", "topology-aware"}
    /\ h.how \in {"nodes", "runtime", "cdi"}
    /\ h.allocator \in {"default", "spider", "board"}
    /\ IsFiniteSet(h.card) /\ h.card \subseteq Nat
    /\ IsFiniteSet(h.has)
    /\ h.rings \in [SUBSET h.card -> Nat]
    /\ \A c \in h.card : h.rings[{c}] = 0
    /\ h.mode = "env-share" =>
          "virtualizationNum" \in DOMAIN h /\ h.virtualizationNum \in Nat
    /\ h.mode = "mim" =>
          /\ "instances" \in DOMAIN h
          /\ h.instances \in [h.card -> SUBSET Nat]
          /\ \A c \in h.card : IsFiniteSet(h.instances[c])

ASSUME NodeAssumption ==
    /\ Policy \subseteq {"best-effort", "restricted", "guaranteed"}
    /\ \A nm \in Name : IsHost(Node[nm])

(* GetDevices: what the plugin makes of each card, for its resource.        *)
DevicesOf(h) ==
    CASE h.mode = "env-share" -> h.card \X (1..h.virtualizationNum)
      [] h.mode = "mim" -> UNION {{c} \X h.instances[c] : c \in h.card}
      [] OTHER -> h.card \X {0}

(* None is no set of cards, and no set of devices.                          *)
ASSUME NoneAssumption ==
    \A nm \in Name :
        /\ \A cards \in SUBSET Node[nm].card : None # cards
        /\ \A devices \in SUBSET DevicesOf(Node[nm]) : None # devices

VARIABLES
    name,      \* the node
    policy,    \* its policy
    used,      \* devices the kubelet has given to pods
    pc,        \* "idle", or how far the admission of a pod has come
    size,      \* number of devices the pod asks for
    answer,    \* what the plugin prefers, or None
    response,  \* what Allocate adds to the container
    rushed,    \* history: the answer came without asking for rings
    released   \* history: may devices have been given back?

vars == <<name, policy, used, pc, size, answer, response, rushed, released>>

(* NewAllocator: the groups are read once.                                  *)
WithGroups(h) ==
    [x \in DOMAIN h \cup {"groups"} |-> IF x = "groups" THEN CPUGroups(h) ELSE h[x]]

Plugin == [nm \in Name |-> WithGroups(Node[nm])]

n == Plugin[name]

Devices == DevicesOf(n)

Free == Devices \ used

Whole(cards) == cards \X {0}
CardsOf(devices) == {d[1] : d \in devices}

(* Cards may be in use, or sick, when it begins.                            *)
Init ==
    /\ name \in Name
    /\ policy \in IF n.mode = "topology-aware" THEN Policy ELSE {"best-effort"}
    /\ used \in IF n.mode = "topology-aware" THEN SUBSET Devices ELSE {{}}
    /\ pc = "idle"
    /\ size = 0
    /\ answer = None
    /\ response = <<>>
    /\ rushed = FALSE
    /\ released = (n.mode = "topology-aware")

(* The kubelet admits a pod that asks for no more than is free.             *)
Ask ==
    /\ pc = "idle"
    /\ size' \in 1..Cardinality(Free)
    /\ pc' = "asked"
    /\ UNCHANGED <<name, policy, used, answer, response, rushed, released>>

AnswerWith(answers) ==
    /\ \E a \in answers : answer' = a
    /\ pc' = "answered"
    /\ UNCHANGED <<name, policy, used, size, response, released>>

ToDevices(answers) == {IF a = None THEN None ELSE Whole(a) : a \in answers}

(* Plugins of other modes have no preference: the kubelet chooses.          *)
KubeletChooses ==
    /\ pc = "asked"
    /\ n.mode \notin {"env-share", "topology-aware"}
    /\ AnswerWith(kSubset(size, Free))
    /\ UNCHANGED rushed

GetPreferredEnvShare ==
    /\ pc = "asked"
    /\ n.mode = "env-share"
    /\ AnswerWith(PreferredShares(Free, size))
    /\ UNCHANGED rushed

(* getPreferredAllocatedDeviceUUIDs: all that is available needs no         *)
(* allocator.                                                               *)
NeedsAll == policy = "best-effort" /\ Cardinality(Free) = size

GetPreferredAll ==
    /\ pc = "asked"
    /\ n.mode = "topology-aware"
    /\ NeedsAll
    /\ AnswerWith({Free})
    /\ UNCHANGED rushed

GetPreferredRings ==
    /\ pc = "asked"
    /\ n.mode = "topology-aware"
    /\ ~NeedsAll
    /\ AnswerWith(ToDevices(Allocate(n, policy, CardsOf(Free), size)))
    /\ UNCHANGED rushed

(* GetRings is slow or fails.                                               *)
GetPreferredWithoutRings ==
    /\ pc = "asked"
    /\ n.mode = "topology-aware"
    /\ ~NeedsAll
    /\ ~WithoutRings(n, CardsOf(Free), size)
    /\ \/ AnswerWith(ToDevices(AllocateLate(policy, CardsOf(Free), size)))
       \/ AnswerWith({None})
    /\ rushed' = TRUE

(***************************************************************************)
(* Allocate                                                                *)
(***************************************************************************)
(* Mutant: the nodes of a card come with each of its instances.             *)
AddMimTwice(d, nodes) ==
    nodes \o (IF "ipcm" \in n.has THEN <<<<"card", d[1]>>, <<"ipcm", d[1]>>>>
                                  ELSE <<<<"card", d[1]>>>>)
          \o <<<<"cap", d[1], d[2]>>>>

(* Device nodes of one device; n.has is the kinds of nodes the host has.    *)
AddMim(d, nodes) ==
    nodes \o (IF Contains(nodes, <<"card", d[1]>>) THEN <<>>
              ELSE IF "ipcm" \in n.has THEN <<<<"card", d[1]>>, <<"ipcm", d[1]>>>>
                                       ELSE <<<<"card", d[1]>>>>)
          \o <<<<"cap", d[1], d[2]>>>>

AddCard(d, nodes) == nodes \o SetToSeq({<<kind, d[1]>> : kind \in n.has \cup {"card"}})

(* With the runtime a device is named in the environment: by its slot, or   *)
(* by its three nodes.  An instance has no CDI name.                        *)
AddEnv(d, env) ==
    env \o IF n.mode = "mim"
           THEN <<<<"card", d[1]>>, <<"ipcm", d[1]>>, <<"cap", d[1], d[2]>>>>
           ELSE <<<<"card", d[1]>>>>

AddDevice(d, resp) ==
    CASE n.how = "cdi" /\ n.mode = "mim" -> resp
      [] n.how = "nodes" /\ n.mode = "mim" -> AddMim(d, resp)
      [] n.how = "nodes" /\ n.mode # "mim" -> AddCard(d, resp)
      [] OTHER -> AddEnv(d, resp)

(* The kubelet lists the devices in some order.                             *)
PrepareResponse(devices) == FoldSet(AddDevice, <<>>, devices)

(* The kubelet fails the pod when the plugin returns an error.              *)
Admit ==
    /\ pc = "answered"
    /\ IF answer # None /\ answer \subseteq Devices
       THEN /\ pc' = "served"
            /\ response' = PrepareResponse(answer)
            /\ used' = used \cup answer
            /\ UNCHANGED <<size, answer>>
       ELSE /\ pc' = "idle"
            /\ size' = 0
            /\ answer' = None
            /\ UNCHANGED <<used, response>>
    /\ rushed' = FALSE
    /\ UNCHANGED <<name, policy, released>>

Start ==
    /\ pc = "served"
    /\ pc' = "idle"
    /\ size' = 0
    /\ answer' = None
    /\ response' = <<>>
    /\ UNCHANGED <<name, policy, used, rushed, released>>

(* The kubelet takes back the devices of a pod that has ended.              *)
Release ==
    /\ pc = "idle"
    /\ \E d \in used : used' = used \ {d}
    /\ released' = TRUE
    /\ UNCHANGED <<name, policy, pc, size, answer, response, rushed>>

Next ==
    \/ Ask
    \/ KubeletChooses \/ GetPreferredEnvShare
    \/ GetPreferredAll \/ GetPreferredRings \/ GetPreferredWithoutRings
    \/ Admit \/ Start \/ Release

Spec == Init /\ [][Next]_vars

(***************************************************************************)
(* Properties                                                              *)
(***************************************************************************)
Phase == {"idle", "asked", "answered", "served"}

TypeOK ==
    /\ name \in Name
    /\ policy \in Policy \cup {"best-effort"}
    /\ used \subseteq Devices
    /\ pc \in Phase
    /\ size \in 0..Cardinality(Devices)
    /\ answer = None \/ answer \in SUBSET Devices
    /\ ToSet(response) \subseteq
         (({"card", "ipcm"} \cup n.has) \X n.card)
           \cup {<<"cap", d[1], d[2]>> : d \in Devices}
    /\ rushed \in BOOLEAN
    /\ released \in BOOLEAN

(* The plugin's preference can be taken as it is: free devices, as many as  *)
(* the pod asks for, however boards and groups are filled up.               *)
PreferenceFits ==
    pc = "answered" /\ answer # None =>
        answer \subseteq Free /\ Cardinality(answer) = size

(* Cards without rings come off one board after the other, groups and       *)
(* boards with fewer free cards first: at most one board is broken up, and  *)
(* none is touched while a smaller one of its group is left.                *)
Broken(cards, part) == part \cap cards # {} /\ ~(part \subseteq cards)

SmallestFirst(cards, parts) ==
    \A b, c \in parts : Cardinality(b) < Cardinality(c) /\ c \cap cards # {}
                          => b \subseteq cards

KeepsBoards(h, available, cards) ==
    LET boards == Split(available, IF h.allocator = "spider" THEN h.motherboard
                                                             ELSE h.board)
        groups == IF h.allocator = "spider" \/ h.groups = <<>>
                  THEN {available}
                  ELSE {g \cap available : g \in ToSet(h.groups)}
    IN  /\ \A b, c \in boards : Broken(cards, b) /\ Broken(cards, c) => b = c
        /\ SmallestFirst(cards, groups)
        /\ \A g \in groups : SmallestFirst(cards, {b \in boards : b \subseteq g})

BoardsKept ==
    /\ pc = "answered"
    /\ n.mode = "topology-aware" /\ n.allocator # "default"
    /\ ~rushed /\ answer # None
    /\ GetRings(n, CardsOf(Free), size) = {}
    => KeepsBoards(n, CardsOf(Free), CardsOf(answer))

(* What the board allocator takes for granted when it passes over boards of *)
(* which a group does not hold all cards: the cards of a board are linked,  *)
(* directly or by way of others.                                            *)
BoardsLinked(h) ==
    \A c, d \in h.card : h.board[c] = h.board[d] => d \in Reached(h, c)

(* All of eight cards under the default allocator: the one place where      *)
(* guaranteed and restricted give cards out without having asked for rings, *)
(* whatever README.md:105-109 says of eight (default.go:43).                *)
EightOfEight ==
    /\ n.allocator = "default"
    /\ size = 8
    /\ Cardinality(CardsOf(Free)) = 8

(* The policies: whatever is given out has as many rings as any choice of   *)
(* free cards; under guaranteed and restricted 2, 4 or 8 cards have at      *)
(* least one ring, except when the default allocator is asked for all of    *)
(* eight (EightOfEight); under restricted they have as many as their        *)
(* allocator compares with (README.md:105-109).                             *)
PolicyKept ==
    pc = "answered" /\ n.mode = "topology-aware" /\ ~rushed /\ answer # None
    => LET rings == n.rings[CardsOf(answer)]
       IN  /\ \A cards \in kSubset(size, CardsOf(Free)) : n.rings[cards] <= rings
           /\ policy # "best-effort" /\ size \in {2, 4, 8}
                /\ ~EightOfEight => rings > 0
           /\ policy = "restricted" => rings >= RingsNeeded(n, size)

(* A pod is turned away only if its policy wants rings, if libcntopo fails, *)
(* or if it asks for more shares than there are cards with one.             *)
ServesWhatItCan ==
    pc = "answered" /\ answer = None =>
        \/ policy # "best-effort"
        \/ rushed
        \/ n.mode = "env-share" /\ size > Cardinality(CardsOf(Free))

(* As long as no pod has ended the shares in use are spread evenly, whatever*)
(* the pods asked for.                                                      *)
SharesBalanced ==
    n.mode = "env-share" /\ ~released =>
        \A c, d \in n.card :
            Cardinality(SharesOf(used, c)) <= Cardinality(SharesOf(used, d)) + 1

(* A container gets the device nodes of its devices, each once, also when   *)
(* several of its instances are on one card.                                *)
ContainerSeesItsDevices ==
    pc = "served" /\ n.how = "nodes" =>
        /\ Len(response) = Cardinality(ToSet(response))
        /\ ToSet(response) =
             IF n.mode = "mim"
             THEN ({"card"} \cup (n.has \cap {"ipcm"})) \X CardsOf(answer)
                    \cup {<<"cap", d[1], d[2]>> : d \in answer}
             ELSE ({"card"} \cup n.has) \X CardsOf(answer)

(* The invariant behind the proofs: what a pod asks for stays free until it *)
(* is admitted, an answer is one for the free devices as they still are,    *)
(* and all properties but BoardsKept.                                       *)
AskFits == pc \in {"asked", "answered"} => size \in 1..Cardinality(Free)

AnswerIsOfShares ==
    pc = "answered" /\ n.mode = "env-share" => answer \in PreferredShares(Free, size)

IInv ==
    /\ TypeOK
    /\ AskFits
    /\ PreferenceFits
    /\ PolicyKept
    /\ ServesWhatItCan
    /\ AnswerIsOfShares
    /\ SharesBalanced
    /\ ContainerSeesItsDevices

(* What the README says (README.md:109): "restricted: allocated devices     *)
(* must form the best rings, otherwise return error".  The best rings of a  *)
(* model are those of topoRules (topology.go:51).                           *)
RestrictedIsBest ==
    pc = "answered" /\ policy = "restricted" /\ answer # None /\ size \in DOMAIN n.topoRule
    => n.rings[CardsOf(answer)] >= n.topoRule[size]
=============================================================================

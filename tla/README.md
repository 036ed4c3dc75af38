# Cambricon device plugin: verification project

TLA+ models of `device-plugin/`, the Kubernetes device plugin for Cambricon
MLUs, checked with TLC and proved about with TLAPS. All paths below are relative
to `src/device-plugin/`.

## 1. The system

One process per node. It discovers the MLUs through `libcndev`, serves one gRPC
device plugin per resource to the kubelet, watches the health of the cards, and,
depending on the mode, talks to the API server.

| Component | Code | State | Operations | Model |
|---|---|---|---|---|
| Main loop and plugin lifecycle | `cmd/main.go:107-251`, `pkg/mlu/server.go:66-175, 519-577` | list of plugins, restart timer, signal channel (buffer 1), inotify events; per plugin: server, socket, `stop` channel | startPlugins, stopPlugins, Serve, Start, Register, Stop | `PluginLifecycle` |
| Health pipeline | `pkg/mlu/cambricon.go:211-267`, `server.go:178-203, 502-517` | `unhealthy` map, verdict cache per card, two unbuffered channels, `m.devs`, the stream | a round of reads, hand-overs, Send, Stop | `HealthWatch`, abstractly `HealthFeed` |
| Dynamic sMLU allocation | `server.go:322-464, 655-658`, `pkg/mlu/podutils.go` | globals `dynamicSmlu` / `profileAndInstance`, annotations of pod and node, driver profiles and instances | allocateDynamicSmlu, releaseNodeLock | `DynamicSmlu` |
| sMLU garbage collection | `pkg/dsmlu/dsmlu.go` | `executeLock`, the keep sets of a pass, informer events | exec (every 60 s), DeleteFunc = recycleProfileAndInstance, then fixNodeLock | `DynamicSmlu` |
| Topology annotation | `pkg/topology/topology.go:47-343` | `available`, `annotation`, node annotations | execute at start, on each pod event and each resync | `Topology` |
| Preferred allocation | `pkg/allocator/*.go`, `bindings.go:366-412`, `server.go:579-653, 680-722` | the groups of linked cards, read once; otherwise none | Allocate of three allocators, env-share choice | `Allocators`, `PreferredAllocation` |
| Inventory and response | `cambricon.go:70-209, 269-287`, `server.go:205-311, 458-489` | device lists per profile | GetDevices, classifyByProfile, PrepareResponse | `PreferredAllocation`, `DriverInit` |
| Node labels | `pkg/nodeLabel/nodelabel.go` | `nodeCache`, node labels | ticker, informer handler, retry on conflict | `NodeLabel` |
| Driver start-up | `pkg/cndev/bindings.go:592-770`, `cndev_dl.go`, `main.go:71-81` | the opened library, handle map, counts | EnsureCndevLib, EnsureMLUAllOk, the first GetDevices | `DriverInit` |
| Options, HTTP endpoints, bindings, mocks, charts | `pkg/mlu/options.go`, `main.go:117-144`, ... | - | - | not modelled (section 8) |

How they interact. `main` calls `Serve` of each plugin in turn and blocks for as
long as each takes; the kubelet, told by `Register`, calls `ListAndWatch` and
`Allocate` on the plugin's socket. `watchUnhealthy` hands reports to
`healthcheck`, which hands them to `ListAndWatch`. A `ListAndWatch` that cannot
send kills its own process with SIGHUP, which reaches `main` through the signal
channel and restarts everything. `Allocate` (dynamic sMLU) meets the scheduler
through annotations of the pod and a lock annotation of the node, and the garbage
collector through the driver's state and the same annotations.

What is hard: the unbuffered channels whose senders do not watch `stop`; the
events that reach `main` only while it waits in its `select`; the kubelet that
removes all sockets whenever it restarts; two `Allocate` calls that are one
admission, tied together by process-wide globals; a garbage collector that acts
on listings; informer events that are lost with the process; a cache that is read
without its lock; a driver that loads cards while the plugin counts them; answers
that depend on the order of a Go map. PROJECT.json lists each of these hazards with its line and with the
properties that would notice it going wrong.

What makes each component correct:

* lifecycle - whatever goes wrong, every resource is served again, and main never
  waits while something is broken and no event is on its way;
* health - the kubelet's list follows the cards: no report is lost, repeated or
  reordered, and the goroutines end when the plugin stops;
* allocation - the pod served is the one the scheduler has locked the node for,
  and it runs on the instance created for it;
* collection - nothing in use is destroyed, everything else is, and a deleted pod
  does not keep the node locked;
* topology - the node offers what its free cards can form, after failures and
  restarts as well;
* labels - the node's labels become what the node is, and nobody else's are lost;
* allocators - what is returned has the right size, comes from what is available,
  keeps the policy and breaks up as few boards as possible;
* start-up - a plugin that serves has every card of the host, once.

## 2. Plan

| Step | Module | What it is for | State |
|---|---|---|---|
| 1 | `HealthWatch` | the health pipeline | done, proved |
| 2 | `HealthFeed`, `HealthRefinement` | what the pipeline promises, and that it keeps it | done, safety part proved |
| 3 | `DynamicSmlu` | allocation and collection against API server, kubelet and driver | done, node lock proved |
| 4 | `PluginLifecycle` | the main loop | done, proved |
| 5 | `Topology` | staleness of the annotation; `execute` against pod events and failing updates | done, proved |
| 6 | `NodeLabel` | cache and informer against ticker, retry on conflict | done, proved |
| 7 | `Allocators`, `PreferredAllocation` | the three allocators and env-share as operators; the kubelet's calls around them, GetDevices and PrepareResponse | done, proved |
| 8 | `DriverInit` | EnsureMLUAllOk, loading and symbol lookup, the first inventory | done, proved |
| 9 | `HealthWatch` with devices that Allocate adds | composition | done, proved |
| 10 | proofs of `PodOwnsInstance` and `ExecSparesListed` of `DynamicSmlu` | proofs | done |

## 3. The models and the code

### HealthWatch

One plugin object from the end of `Start` until after `Stop`. Variables are the
locals of the goroutines (`unhealthy`, `omitDupCall`,
`computeModeDisabled` = `getDeviceComputeModeDisabled`), their program counters
(`wpc`, `hpc`, `lw`, `main`), the value a blocked sender holds (`sending`,
`held`), `m.devs` (`devs`), what the kubelet last received (`view`) and the
hardware (`bad`, `prohibited`). `devsInfo` is the map the watcher ranges over:
`Listed`, the devices the plugin started with, and those that dynamic-smlu
allocation adds.

| Action | Code |
|---|---|
| BeginRound, EndRound | `cambricon.go:214-222`, the sleep and the loop |
| ReadHealth, ReadComputeMode | the two driver calls, a second apart, the hardware changing in between |
| JudgeCached, Conclude, Judge | the verdict cache and the decision whether to report |
| HealthcheckReceives, HealthcheckStops | the two cases of `healthcheck` |
| ListAndWatch, DeliverHealth, ListAndWatchStops, Send | `server.go:178-203` |
| ServerStop, CloseStop | `Stop`, in its two halves |
| AllocateAdds | `server.go:436`; the range under way may come across the new entry or not |
| HardwareChanges, KubeletDisconnects | external |

`ListAndWatch` updates only devices of its list (`Updated`): a report about an
added device changes nothing, but a list is sent all the same. An unbuffered channel is a joint step of sender and receiver; a sender that waits
is a program counter ("send", "forward"). Go's map iteration order is the `\E d`
over `todo`. A failing `Send` sets `sighup`; what follows from it is in
`PluginLifecycle`.

### HealthFeed and HealthRefinement

`HealthFeed` is the promise: a queue of at most two changes of state, delivered
in order to a list that the kubelet has in full while the stream is up.
`HealthRefinement` maps the goroutines onto it: the queue is what `healthcheck`
and `watchUnhealthy` are blocked with.

### DynamicSmlu

The API server (`pods`, `lock`, `nodeDirty`), the driver (`insts`, `profiles`),
the process (`record` for the two globals, which are always written together,
`calls`, `exec`, `rec`, `events`, `proc`) and the kubelet's admission. Each call
of the driver or the API server is a step of its own, so everything else may
happen between two of them.

| Action | Code |
|---|---|
| Allocate, List, FindProfile, CreateInstance, MatchInfo | the first call of an admission, `server.go:322-454` with `podutils.go:32-191` |
| PatchPod, GetNode, PatchNode, Assigned | the second call: record found, annotate, release the lock, clean the record |
| ExecList, ExecSlot, ExecInstances, ExecProfiles | `dsmlu.go:183-289` |
| Recycle, RecycleProfile, FixNodeLockGet, FixNodeLockUpdate, RecycleTombstone | `dsmlu.go:70-173` |
| Crash, StartProcess, RestartPlugins | a panic; `Serve` with its unconditional unlock; the main loop's restart, which leaves old handlers and the globals |
| Bind, Finish, Delete, Reject, StartContainers | external: scheduler, pods, API server, kubelet |

A fault is a kind in `Faults` and takes one of `MaxFaults`: a failing API call, a
conflict, a failing driver call, a restart, a tombstone, a rejection by the
kubelet. What the code itself makes fail (a patch of a pod that is gone, a
cancelled context, a full profile) costs none. `fresh` in `exec` and
`unfixed` are history, read only by properties; `owner` in a grant is so too, except
that it stands for the profile that the annotation names.

A failing driver call is an error of the handler or, in the recycler, a way on to
the node lock; but while `MinDsmluUnit` is not set, as by default, both read the
card's memory before they look for the profile, and panic when that fails
(`server.go:380-384`, `dsmlu.go:157-161`): FindProfile and RecycleProfile then end
the process as well. All runs have `MinDsmluUnit = 0`, which allows both outcomes;
the proofs hold for any value.

DeletedPodUnlocks has one exception, which the code has no second attempt for:
fixNodeLock reads and updates the node once, and logs a failure
(`dsmlu.go:92-96, 108-113`). The lock of the deleted pod then stays, and with it
the node closed to further dynamic sMLU pods, until the plugin starts anew.
`unfixed` holds the pods this has happened to. OrphansCollected has one too: an
instance stays as long as the annotation of another live pod names its handle,
which the driver has reused.

### PluginLifecycle

`main`'s program counter, the run under way (`todo`, `cur`, `plugins`), what is at
each socket (`sock`: the current server, a leaked one, a stale file or nothing),
the streams, and the inputs of the `select`: timer, signal channel (`inflight` is
raised and not yet delivered, `sigs` the buffer), create events. Only events for
`kubelet.sock` are there; others are read and ignored. Register and the kubelet's
call of ListAndWatch are one step.

### Topology

`execute` with its four places to return early (`pc` is the call it makes next),
what it remembers (`available`, `annotation`), the informer (`events`, `started`),
the annotations of the node, and the pods as the API server (`phase`) and the
kubelet's pod-resources (`holds`) see them, which is not at the same time.

| Action | Code |
|---|---|
| HandleEvent, Resync, Tombstone | the handlers, `topology.go:204-226`; a tombstone panics |
| FindCardInUse | `:94-118`, the comparison with what was free before |
| GetTopo | `:120-145`; the rings are the constant `Rings`, a function of the cards |
| GetNode, UpdateNode | `:147-183`, merging into what is on the node |
| Schedule, Admit, Run, Terminate, Remove, Forget | external: pods and kubelet |
| Crash, StartProcess | external; `execute` runs once before the informer |

`executeLock` is the program counter: one pass at a time. `synced` is history:
the last pass that changed `available` came through. GetNode decides and
UpdateNode writes; nobody else writes these annotations, and any other writer of
the node is a conflict, which is one of the failures of UpdateNode.

### NodeLabel

The two threads that run `checkAndUpdateNodeLabels` - Run's ticker and the
informer's handler - with what each holds (`pc`, `want`, `got`, `tries`), the
cache, the informer (`store`, `notices`), and the node. A node is its revision
and the set of labels that have the right value.

| Action | Code |
|---|---|
| GetActualLabels | `nodelabel.go:240-289`; without the versions when the driver fails |
| UseCache, ReadNode, StoreNode, Compare | `:180-198, 167-178`, the unlocked read of the cache, the read of the API and its store |
| GetNode, UpdateNode (Update, Conflict) | `:200-238`, one attempt of RetryOnConflict |
| InitNodeInformer, Tick, Handle | `:66-143` |
| Inform, Edit, Crash, StartProcess | external: informer, other writers, DaemonSet |

`handled` and `late` are history: the node the handler saw last, and whether a
first read of the API was stored after it. That race takes an initial check that
failed; it leaves an old node in the cache, and when its labels look right, the
ticker is content until the informer reports another change. CacheFollowsInformer
and LabelsRepaired name it as their only exception.

### Allocators and PreferredAllocation

`Allocators` has the code's functions as operators whose value is the *set* of
answers the code can give: the order of Go's maps and of equal elements under
`sort.Slice` is left open, that of the stable sort of groups is not.

| Operator | Code |
|---|---|
| LinkGroups, Reached, CPUGroups | `GetMLULinkGroups`, a depth-first search, as the sets reachable from each first slot |
| Sorted | the order in which the slots are searched, and the stable sort of groups: the k-th element has k - 1 before it |
| Split, Orders, Groups | `splitByBoards`, `splitByMotherBoards`, `filterAvaliableDevsByGroup` |
| Fill, AllocateRemainingFrom, BoardParts, Remaining | the allocation without rings: a fold over the parts; the nested loops over groups and boards as one table of parts, row by row |
| GetRings, Best, InFirst, Preferred, RingsNeeded | the allocation with rings; the rings of a set of cards are the node's constant |
| Allocate, AllocateLate | the three `Allocate`; the timeout |
| PreferredShares, ByFreeShares | `getPreferredEnvShareDeviceID` |

`PreferredAllocation` puts the kubelet around them: it asks, takes the answer or
fails the pod, has the container's response prepared, and takes devices back. In
topology-aware mode it starts from every set of cards in use; in the other modes
from a fresh node, so that what calls do to each other is seen. `DevicesOf` is
GetDevices, `WithGroups` what `New` adds to the node, and PrepareResponse a fold of
`AddDevice` over the devices in some order.

A node is any record for which `IsHost` holds: finitely many slots, boards and
links as one likes, any table of rings in which a single card has none
(`sizeAlwaysFailsToFormRing` takes that for granted too), finitely many shares
or instances of each card.

### DriverInit

The process from `EnsureCndevLib` to the first inventory, one driver call or file
system read per action, and the host that meanwhile gets its driver and its cards.

| Action | Code |
|---|---|
| EnsureCndevLib | `bindings.go:733-770`, and main's panic |
| InitCndev, Delayed, NextRound | `:667-686`, `cndev_dl.go:31-77` |
| GetDeviceCount, FetchMLUCounts, AllCounted | `:592-647, 695-718` |
| GenerateDeviceHandleMap, HandleMap | `:575-590, 720-722` |
| IsDriverRunning | `:649-665`, one card per step |
| FetchDevices, GetDevices, Found | `main.go:77-81`, `cambricon.go:121-131`; every call goes through the handle map |
| RestartPlugins | the main loop calls GetDevices again, with the old handle map |
| InstallDriver, CardComesUp, CardGoesAway, StartProcess | external |

`missed` and `dropped` are history: did PCI hide a card from the last count, and
has a card gone away since the process began.

## 4. Runs

All passing runs explore their whole state space. Bounds:

| Run | Instance | States | Shows |
|---|---|---|---|
| health | 1 listed device and 1 that is added, on 1 card, 2 failing reads | 58,076 | safety and liveness of the pipeline, quiescence, and the refinement of `HealthFeed` |
| dsmlu | 2 pods of one name, 2 handlers, 1 card, 2 ids, 1 fault of any kind | 1.5 M (symmetry) | the safety of allocation and collection |
| dsmlu_live | 2 pods, 1 handler, 1 id, 1 fault of any kind | 479,339 | nothing is left on the cards; a deleted pod does not keep the node locked, except after a failed fixNodeLock |
| lifecycle | 2 resources, 5 disturbances of 10 kinds | 313,715 | main never waits in vain, and all is served again |
| topology | 2 pods of 2 cards each, 4 cards, 2 faults of 5 kinds | 128,762 | the node offers what is free |
| nodelabel | 2 labels, 2 edits by others, 1 fault of 4 kinds, 2 attempts | 548,870 | the labels become right, and nothing is undone |
| allocation | 8 cards, 4 boards, 2 motherboards, 3 policies, 7 kinds of node | 108,678 | preferences fit, keep policy and boards; containers get their devices |
| startup | 3 cards, 3 disturbances | 250,684 | the inventory is the host's cards, and the process comes to serve |

Why they are enough. Health: two devices on a card exercise the
cache and fill both slots of the pipeline; more devices only queue up behind the
same two slots, and the safety properties are proved for any number of devices
and cards. sMLU: two pods are what it takes for one to disturb the
other, two handlers for an old and a new plugin object, two ids for one to be
reused while the other lives; one fault at a time, since each fault path ends in
an error return or a crash that resets the process. Its liveness is checked with
one handler and one id, after one fault of every kind. Lifecycle: two resources make
a run partial; five disturbances cover, for instance, a failed run, a kubelet
restart during the retry, a dropped signal and a late handler together. Topology:
four cards have sets of one size with different rings, two pods can swap their
cards between two passes, and two faults are a failure and the restart after it.
Node labels: two labels, of which one needs the driver, tell a partial set of
labels from a whole one; one edit is hidden by a late first read, and a
second one comes on top of it or makes a retry conflict again; two attempts are a
conflict and the end of the retries. Allocation: eight cards are
the largest node the code speaks of, and all sets of cards in use, sizes and
policies are enumerated; boards and motherboards of two sizes arise from what is
in use, and the eight cards of the default allocator's node form no ring, so that
the exception of PolicyKept happens. Start-up: with three cards the driver can have a part of them and number
it otherwise than the whole; three disturbances are, for instance, a card lost
while it is counted, PCI misread and a restart of the plugins.
The safety properties are also proved for every value of the constants; BoardsKept
for the nodes that `BoardsLinked` describes (section 6).

Symmetry is used only in dsmlu, which checks no liveness. CHECK_DEADLOCK is FALSE
for PluginLifecycle, where main may wait for events that need not come, for
Topology, where no pod means no event, for NodeLabel, which ends after one check in
one-shot mode, and for DriverInit, whose process may serve with nothing left to
happen.

The four runs that expect a violation each check one sentence of the code against
what the code does:

| Run | The sentence | What happens |
|---|---|---|
| dsmlu_exec | "Found legacy smlu instance" (`dsmlu.go:269`) | the instance was created after the pods were listed and belongs to a pod being admitted |
| dsmlu_recycle | "recycle instance %d from pod %s" (`dsmlu.go:144`) | the driver has given the handle to another pod |
| topology_same | "No change since last sync" (`topology.go:243`) | the last pass failed after it had replaced `t.available`, and is not repeated |
| alloc_restricted | "restricted: allocated devices must form the best rings, otherwise return error" (`README.md:109`) | four cards of an 8H-095U with two rings are given out, although its best four have six (`topology.go:51`) |

Disagreements that are plain from a few lines and need no run:

* `server.go:350-363`: the retry of a failed patch sleeps `rand.Intn(i)` with
  `i = 0` at first, and `rand.Intn(0)` panics: the first failure ends the process
  in the middle of an admission. DynamicSmlu has it as a `Crash`.
* `main.go:187-193`: after SIGTERM the log says "shutting down", but main returns
  only when stopPlugins fails; otherwise it waits on, without plugins, and a SIGHUP
  or a restart of the kubelet starts them again. PluginLifecycle has it so.
* `default.go:43`: the default allocator gives out all of eight cards without asking
  for rings, whatever the policy. `README.md:105-109` says that guaranteed and
  restricted work for eight, and "guaranteed: allocated devices must form at least
  one ring, otherwise return error". PolicyKept names the case as its one exception
  (`EightOfEight`; without it the run finds the eight cards of `plain`, which have no
  ring, given out under restricted), and the theorem `EightWithoutRings` says what
  happens in it, for any rings and policy.
* `bindings.go:451-453`: when the library cannot be opened, `errorString` asks for a
  symbol of it, fails, and calls itself until the stack overflows. DriverInit has it
  as `Dies`; the process comes back through the DaemonSet, and so serves at last.

## 5. Fairness

* Health: the goroutines run (WF). A Go `select` with several ready cases picks
  one at random, so a case that becomes ready again and again is taken (SF of each
  case). The kubelet answers a registration by ListAndWatch (WF). `Stop`, once
  begun, ends. Nothing makes the hardware, the kubelet or the reads fail.
* DynamicSmlu: handlers run, `wait.Until` repeats exec, the kubelet goes on with
  admissions, the DaemonSet restarts the process (WF). The recycler waits for
  `executeLock`: exec sleeps 60 s between passes and a Go mutex in starvation mode
  goes to its oldest waiter (SF). Nobody has to bind, end or delete pods.
* PluginLifecycle: main runs, the armed timer fires, the runtime delivers signals,
  the kubelet and the process come back (WF). A disturbance never has to happen,
  and there are at most MaxFaults, so the liveness is "once disturbances end".

* Topology: `execute` runs, the informer delivers events and resyncs, the kubelet
  frees the cards of removed pods, the process comes back (WF). Pods need not
  come, go on or leave. The resync needs a pod: NodeOffersFree says so in its
  premise, because after the last deletion nothing makes `execute` look again.
* NodeLabel: both threads run, the ticker ticks, the informer starts and delivers,
  the DaemonSet restarts the process (WF). Edits and faults are bounded and need
  not come.
* DriverInit: the process runs and the DaemonSet restarts it (WF). Nobody has to
  install a driver or bring up a card: EventuallyServing assumes that the host does
  come up and stays up.

## 6. Proofs

For every value of the constants allowed by the named assumptions of the modules.

* `HealthWatchProofs`: `IInv` is TypeOK, `ControlMatchesData` (a blocked
  goroutine holds an event, and only then), PipelineConsistent,
  EveryReportIsAChange and StreamInSync. PipelineConsistent alone is not
  inductive: that a hand-over keeps the newest report needs that two reports about
  one device in flight are opposite, and that needs to know who holds what.
  `TypeCorrect`, `PipelineStaysConsistent`, `ReportsAreChanges` and
  `KubeletInSync` follow. Assumption: `None` is no device, event or list.
* `HealthRefinementProofs`: `FeedImplemented`, the safety part of
  `ImplementsFeed`, one step of the proof per action, on top of `IInv` and of "no
  list yet, no ListAndWatch yet".
* `DynamicSmluProofs`: `LockInv`. LockProtectsCandidate speaks of candidates; the
  inductive form speaks of *unsettled* pods: bound, not assigned, and still there
  or with their deletion still to be handled - a pod's lock is released by its
  own assignment or by the recycler handling its deletion, never else. It needs
  that the recycler handles only deleted pods, once each; that there is one
  admission at a time and, before a restart, one call; and that a call about to
  patch or unlock works for the holder of the lock.
  `OwnInv` adds what ties the two calls of an admission together: a record is of a
  pod that is not assigned, except while the call that assigned it still runs
  (`RecordIsOfUnassigned`); a call creates an instance only without a record, and
  annotates with what the record says (`CallsFollowRecord`); while the pod under
  admission waits, its calls serve it and the first one leaves the record
  (`AdmissionServesItsPod`). `AnnotationsNameOwnInstances` and
  `UniqueNamesOwnTheirs` follow. `SpareInv` is for the resync: an instance that was
  there when a pass listed the pods is kept by it, or out of use for good
  (`ListedIsSettled`), because a pod that is over or annotated stays so (lemma
  `PodsSettle`) and an instance is in use only once after it is created;
  `ListedAreSpared` is the action property ExecSparesListed.

  Looking for `OwnInv` showed that an earlier claim, "a running pod is annotated
  with an instance made for it", is false, which the two pods of the run cannot
  show. Three pods can, two of them of one name: the first is deleted between its
  two calls, and its record stays; its namesake is bound, and the deleted pod's
  second call, which is not told the pod, finds the record under the name and
  annotates the namesake with it; the namesake's own calls then serve the third
  pod. The namesake runs on the instance made for the deleted one. So
  PodOwnsInstance allows an instance of a `Forsaken` pod, and no other; the theorem
  says it for any number of pods, which the run's bound of two does not.
* `PluginLifecycleProofs`: `IInv`: which plugins main has in which phase
  (`Phases`), SocketLeadsToServer, that a registered plugin is served or an event
  says otherwise (`ServedOrNoted`), that an incomplete run left the timer armed
  (`IncompleteRunRetried`), and that every create event and late handler stems
  from a disturbance (`Accounted`, for the types).

* `TopologyProofs`: `IInv` is TypeOK, NodeOffersAvailable and, what makes it
  inductive, `AnnotationIsOfAvailable`: from getTopo to the update, `annotation`
  is the levels of `available`. `MergedOffersAnnotation` says that merging into
  any node leaves exactly the numbers of cards that have a level.
* `NodeLabelProofs`: TypeOK, CacheFollowsInformer and OnlyAdds. The cache can be
  told from the informer's node only if the notices form a chain: each one's old
  node is what the handler saw before, the last one's new node is the store.
  OnlyAdds rests on revisions: a node read has the node's labels as long as it has
  its revision, which grows with every write.
* `DriverInitProofs`: `IInv` is TypeOK, NoCardLeftOut, NoCardTwice and three
  parts. `OpenedInFirstRound`: the library is open from the first round on; the
  delay grows, so no later round looks like the first. `HandlesOnce`: no two
  indices have one handle, and unless PCI was misread there is an index for each
  card. `AllThere`: unless a card has gone all are there and counted. That the
  inventory then has every card is an argument by cardinality
  (`OneToOneIsOnto`): a one-to-one map from as many indices as there are cards.
* `AllocationProofs`, for any nodes. The work is in the operators:
  - *Folds.* PrepareResponse and Fill are folds, for which the library has no fact.
    `FoldExists` shows that a fold over a finite set is defined, `SubsetInduction`
    is the induction over it; both are first-order, with the step as a function.
  - *A fill* (`FillFits`): after any number of parts the cards taken are distinct,
    as many as are no longer needed, and from the parts up to one at which the
    filling stops, those before it being used up. So a fill over parts that cover
    what is available serves (`FillServes`, `RemainingServes`), and with the
    shares and the rings every answer fits (`SharesPreferred`,
    `AllocateKeepsPolicy`). What `PoliciesKept` says of guaranteed and restricted
    has the exception of section 4, and `EightWithoutRings` proves it real.
  - *Shares* (`SharesStayBalanced`): a pod takes one share of each of the cards
    with most free ones; that keeps any two within one of each other.
  - *The response* (`ResponseFits`): the nodes added so far are those of the devices
    so far, each once, whatever the order.
  - *Boards* (`RemainingKeepsBoards`): a filling that stops at some part leaves at
    most one board broken, once boards have positions in the order of their turns.
    With groups these are places in the table of groups and boards (`AtFacts`,
    `GroupsKept`). `ByRank` shows that `Sorted` lists each element once and in
    order, `CPUGroupsPartition` that the search divides the cards into groups.

  `IInv` is TypeOK, PreferenceFits, PolicyKept, ServesWhatItCan, SharesBalanced,
  ContainerSeesItsDevices and two parts that make it inductive: what a pod asks
  for stays free until it is admitted (`AskFits`), and an answer in mode env-share is
  one for the shares as they still are (`AnswerIsOfShares`), without which admitting
  it could unbalance them. `BoardsFilled` adds BoardsKept to it.

  Looking for the proof of BoardsKept showed what the board allocator depends on: it
  passes over a board of which a group does not hold all free cards
  (`board.go:108`). If the cards of a board are not linked, the board is in no group
  and its cards are taken last, whatever their number: TLC finds BoardsKept
  violated in three states on a node whose boards straddle two groups. The
  hardware the allocator is for has linked boards, as the node of the run has;
  `BoardsFilled` names it as its hypothesis (`Linked`). No other theorem needs it,
  and it is none for the spider allocator.

Only model-checked: all liveness (fairness and ENABLED are beyond the prover) and
the refinement's fairness.

## 7. Abstractions

* The mutex of a plugin object is left out of DynamicSmlu: the kubelet makes one
  call at a time, and calls of different objects do not share a mutex. The data
  race between such calls on the two globals is modelled by whole writes.
* Pods of the model ask for vcore and vmemory both, so an admission is two calls.
  `MultiContainer` is empty in the runs (the scheduler never makes one a candidate
  that the code could serve), and so is `Malformed`, the pods whose profile
  annotation does not parse; the proofs allow any.
* A profile is a pair of card and shape; rounding of memory to units is left out.
* An entry that Allocate adds to `devsInfo` is a step of HealthWatch of its own. The
  runtime's check for concurrent use of a map, which ends the process, is one of
  PluginLifecycle's crashes.
* The rings of a set of cards and its levels are constants of the node: what
  libcntopo computes. A failing or slow library is an answer of its own.
* Devices, nodes, labels and cards are names or numbers; paths, UUIDs and their
  formats are left out. That the string forms are taken apart again as they were
  put together (`-_-`, the commas of a path) is therefore assumed.
* The handle of an index that is not in the map is zero, which the driver refuses
  or takes for that of the first card.
* The kubelet calls ListAndWatch once per plugin object: each restart of the
  plugin makes a new object.

## 8. Not modelled

* In PrepareResponse: mounts, and the devices of dynamic-smlu, which take the branch
  of mim's. In GetDevices: dynamic-smlu's fake devices, which only count a pod's
  vcore and vmemory, and the resource
  real-mlu-counts, whose devices nobody allocates and whose health is not watched
  (`server.go:132`).
* The levels that topology leaves unchanged on the node when only their quality
  changes, and a node with no annotation at all, to which the first level could not
  be written (`topology.go:170`); nodes carry annotations of the kubelet.
* The goroutine that a timeout of an allocator leaves behind (`board.go:57`), and
  the result of more than 100 sets that `cntopo.go:89` would cut off with a panic.
* The integration test's shortcut in EnsureMLUAllOk (`bindings.go:688`), pods with
  one of the two dynamic sMLU resources only, and pods with several containers.
* Options, HTTP endpoints, the remaining cgo bindings, mocks, tests and charts: no
  state of their own, or no behaviour of the program.

## 9. Running

    tlc -workers 2 -config MCHealthWatch.cfg MCHealthWatch
    tlapm HealthWatchProofs.tla

and likewise for every run and proof module of PROJECT.json.

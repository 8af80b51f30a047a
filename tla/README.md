# Verification of containerLearning

The repository is a collection of study notes on containers and Kubernetes.
Most of it is prose and the configuration of other people's systems. Three
programs are written out in it, and they are what this project models:

- a Kubernetes controller for a custom resource `Network` (Go), with its
  generated clients, informers and listers;
- a journal server over Redis (JavaScript);
- the small HTTP server behind the Envoy demo (Go).

In what follows `P/` stands for
`src/k8s/principle/k8s-api-demo/examples/k8s-controller-custom-resource/`.

## 1. Inventory

| Component | Source | State it keeps | Operations | Interacts by | What makes it correct |
|---|---|---|---|---|---|
| Network controller | `P/controller.go` | what each worker holds between `Get` and `Done`; the work queue | three event handlers, `Run`, `runWorker`, `processNextWorkItem`, `syncHandler` | callbacks from the informer, reads of its cache, calls of the queue | no change is lost, one worker per Network, nothing older acted on after something newer, what lasts is acted on |
| Work queue | client-go, as `controller.go` calls it | ready, dirty, processing and delayed keys, back-off counts | `AddRateLimited`, `Get`, `Forget`, `Done`, `ShutDown`, the delay loop | shared by handlers and workers | a key added while it is processed is neither lost nor given to a second worker; counts are forgotten |
| Network informer | client-go, configured in `P/pkg/client/informers` | reflector position, queue of pending keys, cache, `HasSynced` | list and watch with namespace and tweak, resync, relist, delivery | API server through the typed client, handlers, listers | notifications name every change of the cache; the cache is a replica of what was asked for, never goes back, catches up |
| Process lifecycle | `P/main.go`, `P/pkg/signals` | where `main` is, signals received, `stopCh` | start, two signals, return, exit status | starts every other goroutine, closes `stopCh` | handlers before events, workers after the first list, a signal always ends it, the status is right |
| Informer factory | `P/pkg/client/informers/externalversions` | options, `informers`, `startedInformers`, a mutex | the options, `InformerFor`, `ForResource`, `Start`, `WaitForCacheSync` | called by any goroutine | one informer per type, run once, none left behind, no wait under the lock; the informer is the one the options ask for |
| Lister | `P/pkg/client/listers` | none: reads the cache | `List`, `Networks`, `Get` | the informer's indexer | complete once synced; `Get` and `List` agree, by namespace |
| Typed clientset | `P/pkg/client/clientset` | its namespace | `Get`, `List`, `Watch`, `Create`, `Update`, `Patch`, `Delete`, `DeleteCollection` | API server | no update undone or counted twice, no call outside its namespace, deletes only what was meant |
| Fake clientset | `P/pkg/client/clientset/versioned/fake`, `.../typed/samplecrd/v1/fake` | the tracker's objects and watches | the same interface | tests | how far an informer and a controller built on it can be trusted |
| API types, scheme, deep copies | `P/pkg/apis`, `.../scheme` | none | generated | | out of scope |
| Journal server | `src/k8s/exercise/kbp-sample-master/server.js` | per request: the list it read; in Redis: the journal | `requestHandler` and its callbacks | HTTP clients, one Redis connection | what was acknowledged is seen, in order, and every request ends |
| Envoy demo server | `src/envoy/http_server.go` | per request: headers, what is sent | `/health` with two decorators, `/post` | HTTP clients | headers set in time, own headers win, no success without a whole body |
| Manifests, Dockerfiles, notes | the rest of `src/` | | | | out of scope |

**The hard behaviours.** Two workers and the informer share the queue, and a
change may arrive between the moment `syncHandler` reads the lister and the
moment its key is `Done`. Deletions may arrive as tombstones, resyncs look like
updates, additions are held back by a rate limiter. The process can be stopped
twice or killed at any point and starts again with empty memory. `Start` runs
in a goroutine of its own beside those that register informers, and a wait
for caches may never end. The journal server reads, waits for a body and
writes back while other requests do the same, answers before Redis does, and
ends on any exception thrown in a callback. A reflector may list again at a
revision behind the server's, and readers must not see a Network go back. A request of
a client may be handled after its program gave up on it, between other
programs' reads and writes. `PROJECT.json` lists each hazard at
its line with the properties that cover it, or why none does.

## 2. Modules

| Module | Models | Uses |
|---|---|---|
| `Reconcile` | abstract: what a level triggered controller promises | |
| `WorkQueue` | client-go's rate limited queue (external), one operator per call | |
| `NetworkController` | handlers, workers, informer, shutdown, restart | extends `WorkQueue`, instantiates `Reconcile` |
| `InformerFactory` | the shared informer factory and its lock | |
| `Lifecycle` | one process from exec to exit | instantiates `InformerFactory` with the goroutines `main` and `starter` |
| `TypedClientset` | what each method of the typed client asks of the API server | |
| `NetworkClients` | programs that call the typed client side by side | instantiates `TypedClientset` |
| `NetworkLister` | the lister's reads of an indexer | |
| `Replica` | abstract: what an informer promises its readers | |
| `NetworkInformer` | from a factory's options to what a lister shows | instantiates `TypedClientset`, `NetworkLister`, `Replica` |
| `FakeClientset` | the fake clientset with an informer and the controller's handlers on it | |
| `Journal` | abstract: what the journal server promises its clients | |
| `JournalServer` | the journal server and its Redis connection | instantiates `Journal` |
| `HttpServer` | one request to the demo server | |
| `*Proofs` | theorems and their proofs | extend what they prove about |
| `MC_*` | symmetry sets for TLC | |

### NetworkController and WorkQueue

*Versions.* A Network is abstracted to its generation: `api[k]` is the version
the API server stores, 0 for none, and every write takes a fresh one. Its
resource version is that generation. `cache[k]` is the informer's copy and
`handled[k]` the version `syncHandler` acted on last (its event, or its removal
branch for 0); it stands for the effects outside the process and survives it.

*Informer.* `ObserveAdd`, `ObserveUpdate` and `ObserveDelete` bring one key of
the cache to the server's version and queue the notification client-go sends.
Several server changes may collapse into one, and a deletion may be observed
without its object (a tombstone). `Resync` notifies an update whose two objects
are the same. `HandleEvent` runs the handler for the oldest notification:
`enqueueNetwork` and `enqueueNetworkForDelete` are the two key functions
followed by `AddRateLimited`, and `UpdateFunc` drops what has not changed.

*Workers.* A worker goes through `UntilLoop`, `TakeItem`, `LookupNetwork` (the
lister's read), `SyncNetwork` (the act on that read), `ForgetItem` and
`FinishItem` (the deferred `Done`), one step each, since the informer and the
other workers can run between any two. `LookupFails` is the error path:
`Forget` is skipped and the deferred `Done` is all that happens.

*Process.* `Signal` closes `stopCh`; `RunReturns` runs the deferred `ShutDown`;
`MainReturns`, `SecondSignal` and `ProcessKilled` end the process wherever its
workers are; `ProcessStarts` is a new one, with an empty queue and cache.

*Not modelled:* lengths of delays (a key held back is added at some later
point, in any order), event recording and logging, and the type assertions and
malformed keys the code guards against: only Networks are in the cache and
only keys of Networks in the queue.

### InformerFactory

Callers run `InformerFor`, `Start` or `WaitForCacheSync` in any order and as
often as they like. Taking the lock, the check and the creation in
`InformerFor`, the check (`StartNext`) and the start (`StartOne`) in each turn of
`Start`'s loop, and each wait are steps, so that what the lock protects is
visible: the mutant `LockSkipped` breaks `RunsOnce`, `OneInformerPerType` and
`StartLeavesNoneBehind`.
`made` numbers the informers `newFunc` has made, so two of one type differ.

### Lifecycle

`main` statement by statement: `SetupSignalHandler`, the clients (each may end
in `Fatalf`), the three requests of `NewController` for the informer, the
registration of the handlers, `go Start`, and `Run` up to its return. The
factory's calls are the actions of `InformerFactory`. `exit` is the status: 0,
1 (second signal), 255 (`Fatalf`) or 143 (a signal before anyone listened).
`cache.WaitForCacheSync` looks once more after `stopCh` is closed, so a
signalled process whose cache has synced does launch its workers.

### TypedClientset and NetworkClients

Each method of `networks` is an operator that returns the request it builds:
verb, namespace of the client, name, parameters, body. `NetworkClients` has
programs that call them and an API server that answers. A program holds the
Network it got last and counts in its `spec`: an update writes back one more
than it read. So `spec` must be the number of updates executed (`acked` by
whether the program knows, `orphaned` otherwise), whoever else wrote. A call is
one step, the one in which the server handles it, as its program waits;
`AnswerLost` is the same without the answer, `RequestDelayed` leaves the
request in `late`, to be handled at any later time or never. `DeleteCollection`
is not one step at the server: it lists what is selected and deletes it one by
one (`SweepBegins`, `SweepDeletes`, `SweepEnds`); what becomes of a Network
relabelled or created again between the two is the server's matter, and no
property speaks of it. The server is external, and
modelled as the API conventions have it: updates of custom resources must carry
the current resource version, a recreated object has a new uid, a patch carries
no version, and a patch that changes nothing gives out none.

### NetworkInformer, NetworkLister and Replica

`Init` is a program that builds a factory with any options, or an informer of
its own, and gets its informer through the accessors or through `ForResource`;
what it *asked for* (namespace, labels, resync period) is kept in `asked`, and
what it got, by the definitions translated from the code, in `informer`. A list
and a resync queue their keys in any order, as the server and the iteration over
a map give them (`Enqueue`). Its
`ListFunc` and `WatchFunc` produce requests of `TypedClientset`. The reflector,
DeltaFIFO and the server are external. `log` is the server's history: a
revision is an index into it, and `StoredAt(k, r)` the version of `k` at
revision `r`. A list is answered from any revision not older than what the
client was told; a watch goes on from the revision it names; after
`WatchBreaks` the reflector opens the watch again or lists again.

`Replica` says what readers may rely on: each key is shown as it was at some
revision, under the filter asked for, and that revision only grows. The
refinement takes `at[k]` to be the reflector's revision, or, for a key with
something pending, the revision before it was queued (the history variable
`before`).

Two external facts are assumed. Every event carries the revision of its change,
and one server answers, so that lists do not go back. And a relist finds the
FIFO empty: the reflector waits a second after an error, and emptying takes no
I/O. Without the second, a list from an older revision could replace a newer
pending deletion, a matter inside client-go.

### FakeClientset

Each call of the fake is one step, as `testing.Fake` holds its lock. `Track` is
the tracker: it stores, and puts an event into the watch channel, which panics
when full. `Patch` may or may not change anything: whether the tracker has a
reaction to it depends on the client-go version. The informer lists with the
label filter of `FakeNetworks.List` and then watches through the reactor of
`NewSimpleClientset`, which hands over only the resource and the namespace. The
controller's handlers put names into `due`, with `UpdateFunc` comparing
resource versions: the tracker gives out none, so a Network is a content under
whatever version the test wrote into it or left in it. A test that gets a
Network, changes it and updates it puts another content under the same version;
`Create` and `Update` take any pair, so this is among the steps. `Sync` is a
worker. The queue between them is that of `NetworkController` and not repeated. One namespace and
one informer.

### JournalServer

`requestHandler`, the callback of `client.get`, and the `'end'` of the body are
the three callbacks, each one step, as Node runs them. Redis has a queue of
commands and a queue of replies, both first in first out: one connection. A
message is the request that posted it. `badBodyEnd` is `JSON.parse` throwing in
a callback that runs after the `try` was left, and `RedisFailsSet` the error of
a `set` without a callback; either ends the process, after which a prefix of
the commands it had queued still reaches Redis. `before[r]` (the POSTs
acknowledged when `r` arrived) and `lost` (acknowledged POSTs whose `SET` was
never executed) are history variables. The manifests run two replicas; each
talks to the Redis of its own pod (`127.0.0.1`), so the model is of one. It
assumes that Redis has emptied the old connection before the container is up
again, and that a connection lasts as long as its process: a client that
reconnects within a living process, and what it does with commands it had sent,
is not modelled.

`Journal` has no Redis and no commands. A request sees the journal in the step
in which it arrives; a `POST` replaces the journal by what it saw and its own
message, in the step that answers it; what was written is saved behind, in
order; a death cuts off the requests in progress and the end of what is not
saved, with the one journal Redis refused if that was the cause. In the
refinement mapping `unsaved` is what the commands in line will store
(`Written`), and `seen[r]` is the list that the `get` of `r` will find, has
found, or has brought to its callback (`Sights`), one and the same from the
arrival of `r` until it is answered. Nothing in it is about messages: that a `POST` overwrites
a concurrent one is part of the promise.

### HttpServer

One request, since requests share nothing. `handler` wraps from the last
decorator to the first; each decorator is a step that changes `header`, and
`wire` is the copy taken by the first write. Values are told apart by who set
them: the server or the request, whose headers `WithServerHeader` copies. The
names are those the program sets and any others (`Others`); the request has
each up to `MaxValues` times.

## 3. Runs

All finish well within five minutes on two cores.

| Run | Bounds | Shows |
|---|---|---|
| `controller_safety` | 2 Networks, 2 workers (as `main` starts), 3 writes, 1 queued notification, no failures | `OneWorkerPerKey`, `QueueConsistent`, `BackoffForgotten` |
| `controller_faults` | 2 Networks, 2 workers, 2 writes, failing lookups, 1 restart | `TypeOK`, `NoLostChange`, `HandledNeverGoesBack`, `ImplementsReconcile` |
| `controller_liveness` | 1 Network, 2 workers, 2 writes, signals and kills, 1 restart | `LiveNetworksHandled`, `DeletionsHandled` |
| `run_waits_for_workers` | as above; expects a violation | finding 1 |
| `failed_item_put_back` | as above; expects a violation | finding 2 |
| `factory` | 2 goroutines, 2 types, any number of calls | `RunsOnce`, `OneInformerPerType`, `StartLeavesNoneBehind`, `CallsReturn`, `WaitReturns` |
| `lifecycle` | 3 signals, 1 process | `HandlersBeforeEvents`, `WorkersAfterSync`, `ExitStatusIsRight`, `SignalEndsProcess`, `WorkersAreLaunched` |
| `informer` | 2 namespaces of 1 name, 3 revisions, 2 broken watches, every factory with up to 3 options | `QueueLeadsToRv`, `SyncedListerIsComplete`, `ImplementsReplica`, `CatchesUp` |
| `clients` | 2 programs, 2 namespaces of 1 name, 3 resource versions, 1 request or answer that does not arrive | `NoUpdateLost`, `CallsChangeOnlyWhatWasMeant`, `ConflictMeansOvertaken` |
| `fake_informer` | 2 Networks, 2 contents (1 selected) under 2 resource versions, channel of 2 | `CacheFollowsTracker`, `ControllerFollowsFake` |
| `journal` | 3 requests of all five kinds, Redis errors, 1 death besides those of bad bodies | `AckedIsSeen`, `JournalKeepsOrder`, `EveryRequestAnswered`, `ImplementsJournal` |
| `http_responses` | 1 header name besides those the program sets, each up to twice in the request, whole and broken bodies | `ResponseHeaders` |

**Why the bounds are enough.** Every controller property is about one key, its
one place in the queue and the workers that may hold it. A second key makes the
queue order matter and a second worker makes exclusion matter. Three writes
give the worst case for one key: one version being acted on, one that arrived
meanwhile, and one after; a deletion needs no write of its own. `MaxNotes = 1`
makes the notification queue a one place buffer: the informer is then one
change ahead of the handlers, and the queue behind them is not limited. For the
safety properties this is no restriction on what is proved (section 5), where
all bounds are arbitrary; the same holds of the bounds of all other runs but
those of liveness. Overlap of requests in `JournalServer` needs three:
an acknowledged POST, one concurrent with it, and a reader. Three revisions let an
informer see a Network created, deleted and created again while its watch
breaks in between, or two Networks of which one leaves the selection; two
namespaces tell a namespace from all of them, and a key from a name. Three
resource versions let two programs read the same Network and both write, or a
late delete meet the next Network of its name. The channel of the fake holds 100; that it fills at two
only makes the panic reachable. Deadlock is checked except in the controller,
informer and clients runs, where bounded writes, restarts and revisions end in
states in which everything has been done or the process has stopped.

**The mutants** in `PROJECT.json` are the bugs the properties were tried on: a
`Done` before the sync or none at all, the wrong key function for deletions,
the resync test turned round, a skipped `Forget`, a missing lock, `Start`
called before the controller is made, a watch without its tweak or its
revision, options applied in the wrong order, an update sent as a patch, a
delete without its options, and so on.

### Fairness

- *Controller* (`Fairness` in `NetworkController`): goroutines that can run do,
  timers fire, the watch delivers, and something starts the process again (the
  Deployment). Weak fairness on each key, each worker, the handlers and the
  process. Writes, resyncs, signals and kills owe nothing.
- *Factory*: weak fairness for a caller inside a method, strong fairness for
  taking the lock, as `sync.Mutex` hands over to a starving goroutine after a
  millisecond. That caches sync is not assumed, except as the hypothesis
  written out in `WaitReturns`.
- *Lifecycle*: weak fairness of `main`, of the other goroutines and of the
  signal handler; the first list succeeds some day.
- *Informer*: the reflector lists and opens its watch again, the watch delivers,
  the queue is popped (`FairSpec` in `NetworkInformer`). Changes, breaks and
  resyncs owe nothing.
- *Journal*: the event loop delivers, clients finish the bodies they began,
  Redis executes, the container restarts. No client has to send anything.

### Findings

1. `run_waits_for_workers`. The comment on `Run` (`P/controller.go:104-107`)
   says it will "wait for workers to finish processing their current work
   items". It does not: the deferred `ShutDown` returns at once, nothing joins
   the workers, and `main` returns after `Run`.
2. `failed_item_put_back`. The comment at `P/controller.go:153-158` says that
   after an error "the item is put back on the workqueue and attempted again
   after a back-off period". Nothing puts it back; and as `UpdateFunc` drops
   resyncs, the item waits for the next change of its object. The only error
   `syncHandler` can return is one of the lister other than not found, which
   the in-memory indexer does not produce, so the path is dormant.

Two facts the passing properties make exact and a reader may not expect: the
cookie of `WithAuthCookie` is never sent (`ResponseHeaders`), and a signal
before the first list ends the controller with status 255.

## 4. Properties and what they rest on

`NoLostChange` is the core. It says where a change is at each moment: in a
notification that will be enqueued, in the queue or held back, about to be read
by the worker that has its key, or about to be acted on in its latest version.
It has three exceptions, each a fact about the code: keys whose last sync
failed (finding 2), deletions that happened while no controller ran (the new
process never learns of them), and the time after `stopCh` is closed.

`Reconcile` says the same without queue, notifications or workers. A key that
changes is owed a sync, a sync reads the version of its moment and acts later,
and there is one sync at a time per key. The mapping: `desired` is the cache,
`owed` the keys noted, queued or being read, `acting` the reads not yet acted
on.

`AckedIsSeen` is the strongest statement that is true of the journal server: an
acknowledged message may be missing from a later list only if a POST concurrent
with it overwrote it, or if the process died before its `SET` left. That two
concurrent POSTs lose a message is how the code is written. `ImplementsJournal`
is the other view of it: answering before Redis has anything costs nothing
while the process lives, since the clients cannot tell the server from one that
reads and writes its journal in memory in one step each.

`LiveNetworksHandled` and `DeletionsHandled` divide what must happen. A Network
that exists is brought to its version whatever becomes of the process. A
deletion is acted on by the process whose cache still had the Network, unless
that process is told to stop or killed; no other process can. A deletion while no
controller runs is thus excepted, here and in `NoLostChange`: the code has
nothing that would find it.

`HandledNeverGoesBack` compares one sync of a Network that exists with the next;
after a removal any version may follow.

`NoUpdateLost` is why the body of an update must carry the version that was
read: with it, an update executed between another program's read and write
makes that write a conflict, whether or not its own program ever learned that
it was executed. `ConflictMeansOvertaken` is the other half: nothing is refused
that had no reason to be.

`QueueLeadsToRv` is the invariant of the informer: for each key, what is
pending, or else the cache, is exactly what was asked for at the reflector's
revision. `ImplementsReplica` follows it to the readers.

`CacheFollowsTracker` says exactly what an informer on the fake clientset
misses (changes between its list and its watch) and lets in (Networks its
labels exclude, once they are touched). `ControllerFollowsFake` says what the
controller on it misses: with nothing enqueued it has acted on what the informer
has, or on another Network under the same resource version, since `UpdateFunc`
takes an update that keeps the version for a resync. Which versions a test uses
is left open, so this covers Networks without one as well as those got, changed
and written back.

## 5. Proofs

Checked by TLAPS for every value of the constants: any keys, workers, goroutines,
types, requests, programs, options and contents, and any bounds. Every
invariant and action property that the passing runs check, and all three
refinements, are theorems.

| Theorem | Module | Statement |
|---|---|---|
| `TypeCorrect` | `NetworkControllerProofs` | `Spec => []TypeOK` |
| `QueueIsConsistent`, `MutualExclusion` | `NetworkControllerProofs` | `Spec => []QueueConsistent`, `Spec => []OneWorkerPerKey` |
| `BackoffIsForgotten` | `NetworkControllerProofs` | `Spec => []BackoffForgotten` |
| `NeverGoesBack` | `NetworkControllerProofs` | `Spec => HandledNeverGoesBack` (an action property) |
| `Implementation` | `NetworkControllerProofs` | `Spec => ImplementsReconcile` |
| `NoChangeIsLost` | `NetworkControllerProofs` | `Spec => []NoLostChange` |
| `ForgetsNothing` | `NetworkControllerProofs` | `Promise!Spec => []Promise!NothingForgotten`, of `Reconcile` alone |
| `TypeCorrect` | `InformerFactoryProofs` | `Spec => []TypeOK` |
| `StartIsSafe`, `InformersAreShared`, `StartIsComplete` | `InformerFactoryProofs` | `RunsOnce`, `OneInformerPerType`, `StartLeavesNoneBehind` |
| `WaitsAreHarmless` | `InformerFactoryProofs` | `Spec => []WaitsForRunning`: nobody waits with the lock, nor for an informer that does not run |
| `TypeCorrect` | `LifecycleProofs` | `Spec => []TypeOK` |
| `HandlersComeFirst`, `WorkersWaitForCache`, `ExitStatusTells` | `LifecycleProofs` | `HandlersBeforeEvents`, `WorkersAfterSync`, `ExitStatusIsRight` |
| `StartFindsInformer` | `LifecycleProofs` | `Spec => []StartReachesInformer`: when `Start` has returned, the informer `Run` waits for is running |
| `TypeCorrect` | `NetworkInformerProofs` | `Spec => []TypeOK` |
| `QueueIsRight`, `ListerIsComplete` | `NetworkInformerProofs` | `QueueLeadsToRv`, `SyncedListerIsComplete` |
| `Implementation` | `NetworkInformerProofs` | `Spec => ImplementsReplica` |
| `TypeCorrect` | `NetworkClientsProofs` | `Spec => []TypeOK` |
| `UpdatesCount`, `ConflictsAreReal` | `NetworkClientsProofs` | `NoUpdateLost`, `ConflictMeansOvertaken` |
| `CallsAreNarrow` | `NetworkClientsProofs` | `CallsChangeOnlyWhatWasMeant` |
| `TypeCorrect` | `FakeClientsetProofs` | `Spec => []TypeOK` |
| `InformerFollows`, `ControllerFollows` | `FakeClientsetProofs` | `CacheFollowsTracker`, `ControllerFollowsFake` |
| `TypeCorrect` | `JournalServerProofs` | `Spec => []TypeOK` |
| `OrderIsKept`, `AcknowledgedIsSeen` | `JournalServerProofs` | `JournalKeepsOrder`, `AckedIsSeen` |
| `OneJournal` | `JournalServerProofs` | `Spec => ImplementsJournal` |
| `NobodyIsForgotten` | `JournalServerProofs` | `Spec => []Awaited`: who waits for Redis has exactly its command or its reply under way |
| `HandlerKeepsOrder` | `HttpServerProofs` | `handler(h, ds) = Append(ds, h)` for every list of decorators |
| `Types`, `HeadersOfHealth` | `HttpServerProofs` | `TypeOK`, `ResponseHeaders` |

*Assumptions.* The constants have their types, and a value that stands for
nothing is none of those that stand for something: `ConstantsOK` of
`NetworkController`, `NetworkClients`, `NetworkInformer` and `HttpServer`, `NoneIsNobody` of
`InformerFactory`, `ContentsOK` of `FakeClientset`, `KindsOK` and `DeathsOK` of
`JournalServer`, `MaxSignalsOK` of `Lifecycle`, `NilIsNothing` of
`NetworkClients`. In Go the last is `nil` against a pointer. TLC evaluates all of
them on the runs. The options of a factory are a list of any length up to the
constant `MaxOptions`.

*Types of the controller.* `TypeOK` alone is not inductive: `LaunchWorkers` sets
every worker to `until`, which keeps "a worker has an item exactly while it is
between `Get` and `Done`" only because before it they are all `off`
(`OffUntilLaunched`).

*Exclusion.* `OneWorkerPerKey` is not inductive either: that `Get` hands out a
free key follows from the queue holding only dirty keys nobody processes, and
from `processing` being what the workers have. `ExclusionInv` is
`QueueConsistent /\ OneWorkerPerKey`. `BackoffForgotten` is inductive with it:
the one step that could leave a count behind is the `Done` after a failed
lookup, which the property names.

*Versions.* `VersionsInOrder` says that a version reaches the server, the cache,
a worker's copy and the handled state in this order, with 0 allowed anywhere.
`SyncNetwork` acts on a copy, so that the copy is not older than `handled`
needs that no other worker has acted for the key since it was made:
`OneWorkerPerKey` again.

*Refinement of `Reconcile`.* Each step of the controller is a step of `Reconcile`
or changes nothing it sees. An observation is `Change`, because its notification
is one that will be enqueued; a handled notification, a delay that ends and a
`Get` move a key within `owed`; a read is `Begin`, allowed since by
`MutualExclusion` no other worker is acting for the key; `ShutDown` and the
deliveries after it are `Drop`, which needs that the queue shuts down only when
`stopped`. *No lost change* is then carried over: `PromiseInv` is inductive in
`Reconcile`, and `NothingForgotten` under the refinement mapping is
`NoLostChange`.

*Factory.* `FactoryInv` adds to the types that an informer was run exactly if
its type is marked started (`StartedRun`), and what a caller in a loop has done
so far (`LoopsOK`): with the lock held, what it has not visited is all that can
be unstarted, and what it has found unmarked stays so until it has started it. `WaitsForRunning` is kept because `WaitForCacheSync` copies the
started informers under the lock and an informer once started stays marked so.

*Lifecycle.* `LifecycleInv` takes over `FactoryInv`: the process takes only steps
of a factory with the goroutines `main` and `starter` (`SameFactory`), so what
`InformerFactoryProofs` proves of each such step holds here. It adds that `main`
only asks for informers and that `Start` is the spawned goroutine's
(`CallersOK`), and what the place where `main` is tells about handlers and
signals (`ProgressOK`, `SignalsOK`). `StartReachesInformer` needs more of the past:
the informer was asked for before `Start` was spawned (`Made`), and `Start`'s one
loop over the informers has it still to visit or already running (`StartOK`).

*Informer.* `InformerInv` has five parts beside the types. `InformerOK`: the
informer is the one asked for. Applying the options is a fold over a list:
`MadeExists` says that the fold has a value for every list, `Applied` that one
option more is applied to what the others made, and `FactoryFacts` that the last
option of a kind decides. `ReflectorOK`: the
open watch carries that namespace and selector and is at the reflector's
revision. `QueueLeadsToRv` is kept by a delivery because the changes a watch has
no event for change nothing that was asked for (`QuietChanges`), and by a list
because it puts in every key that differs from it. `ShownOK`: what the indexer
shows of a key is what was promised at `At(k)`, the revision the refinement
mapping gives it, and `PopulationOK`: behind the first list in the queue nothing
is older than it, from which `SyncedListerIsComplete` follows. Every step moves
`At` forward or leaves it, which is the refinement of `Replica`.

*Clients.* `ClientsInv` adds to `NoUpdateLost` that a copy with the version of the
stored object is equal to it (`VersionsOK`: only the server gives versions, and
each once) and that the last writer of an object who holds a copy holds that
object (`WritersOK`). One lemma for each method says what its request may do to
the server, and the steps only combine them with answers lost and requests
delayed.

*Fake clientset.* `FakeInv` adds to the two properties what holds before the watch
(`BeforeWatch`): no events yet, the cache is the list but for what was missed,
and the handlers have seen nothing before it. `Brought` is what a channel brings
of an object; an event sent is what the channel brings (`AppendBrings`), and
applying the first changes nothing about it (`TailBrings`). A change
that is not enqueued keeps the resource version (`UnenqueuedKeepsVersion`), and
having the same version carries over from one such change to the next.

*Journal.* `JournalInv` follows the journal through the connection. `JournalsOK`
says of every copy of the list (stored, read by a request, on its way in a
command or a reply) what `JournalKeepsOrder` says of the stored one. `SeenOK`
says for each acknowledged message that is not excused where it is: stored, or
from the n-th command on, with nobody who should see it reading earlier; that is
kept because the commands of a connection are executed in order. A death keeps a
prefix of the commands (`Death`), and messages whose `SET` is behind it join
`lost`.

*Refinement of `Journal`.* `AtomicInv` is `JournalInv` and that only a process
that runs has requests in progress (`Attended`). The mapping speaks of what
commands will do, so its lemmas are about `Written`: one command more at the end
(`WrittenLast`) or taken off the front (`WrittenFirst`), and a prefix of them
(`WrittenCut`). From these, `FindsSent` says that a command sent changes nothing
for the gets before it and that a new get will find the latest journal, and
`FindsExecuted` that executing a command changes nothing for the gets behind it.
A `get` sent is `Arrive`, executed or delivered to a `POST` a stutter, refused
`Break`; the end of a body is `Write`; a `set` executed is `Save`. That a request
has one command or reply at most under way (`ConnectionOK`) makes what it sees
one list; that it has one at least is `Awaited`, the half of
`EveryRequestAnswered` that needs no fairness.

*HTTP server.* What is on the wire follows from what is left to call (`ByChain`):
`ResponseHeaders` speaks of the cookie in the last state only, and that the
header had left before `WithAuthCookie` ran must be known of the states before
it. `HandlerKeepsOrder` gives the chain its first state.

*Recursion.* What a fold or a recursive function gives for a list of any length
is proved by the least length that would refute it (`LeastElement`, from the well
founded order of the naturals), as the induction theorems of the library take an
operator as parameter: `MadeExists` and `Applied` for options, the lemmas on
`Written` for commands, `HandlerKeepsOrder` for decorators.

*Model-checked only:* the liveness properties `LiveNetworksHandled`,
`DeletionsHandled`, `CallsReturn`, `WaitReturns`, `SignalEndsProcess`,
`WorkersAreLaunched`, `CatchesUp` and `EveryRequestAnswered`, since fairness and
`ENABLED` are beyond the prover. What each needs of safety is proved:
`NoLostChange` for the first two, `WaitsForRunning` for `CallsReturn` and
`WaitReturns`, `StartReachesInformer` for `WorkersAreLaunched`, `QueueLeadsToRv`
for `CatchesUp`, `Awaited` for the last.

## 6. Plan

Done, in this order: `WorkQueue` and `NetworkController`, `Reconcile` and the
refinement, `InformerFactory`, `JournalServer`, `Lifecycle`, `FakeClientset`,
`HttpServer`, `TypedClientset` and `NetworkClients`, `NetworkLister`, `Replica`
and `NetworkInformer`, the controller on the fake clientset, the proofs of their
safety properties, factories with any number of options, and `Journal` with its
refinement.

What could follow: process restarts in `Lifecycle`, with a refinement of the
process part of `NetworkController` by it; and lists of more than one page in
`NetworkInformer`.

## 7. Not modelled

Generated data types, deep copies and scheme registration: no behaviour of
their own. `NewForConfigOrDie` and `New` of the clientset, which nothing calls,
and `NewForConfig` beyond the fact that it may fail. The format of requests,
label selectors beyond selecting or not, field selectors and paging of lists.
`Get` of the fake clientset, which only reads its tracker. The pprof routes of the demo server. Manifests, Dockerfiles and
notes.

-------------------------- MODULE NetworkController --------------------------
(***************************************************************************)
(* The Network controller: the informer's event handlers, the work queue,  *)
(* the workers and Run, of controller.go, in a process that may be stopped, *)
(* killed and started again.                                               *)
(*                                                                         *)
(* A Network object is its generation: every create or update made through *)
(* the API gets the next number, 0 stands for "no such Network".  The       *)
(* controller never reads the API server itself, it only sees the informer's *)
(* cache, so the watch is the step that copies the API server's state of a *)
(* key to the cache and queues a notification.                             *)
(***************************************************************************)
EXTENDS WorkQueue

CONSTANTS
  Workers,           \* the goroutines Run launches (main passes 2)
  None,              \* a worker without an item
  MaxGen,            \* bound: creates and updates users make
  MaxNotes,          \* bound: a resync waits while this many notes are queued
  MaxRestarts,       \* bound: processes that end
  ListerMayFail      \* can the lister's Get fail with other than NotFound?

ASSUME ConstantsOK ==
  /\ None \notin Keys
  /\ MaxGen \in Nat /\ MaxNotes \in Nat /\ MaxRestarts \in Nat
  /\ ListerMayFail \in BOOLEAN

VARIABLES
  api,               \* api[k]: the Network the API server stores
  lastGen,           \* the generation given out last
  cache,             \* cache[k]: the Network in the informer's indexer
  hasSynced,         \* networksSynced() is true
  notes,             \* notifications queued for the controller's handlers
  stopped,           \* stopCh is closed
  runPc,             \* where Run and main are
  wpc,               \* wpc[w]: where worker w is
  item,              \* item[w]: the key worker w took from the queue
  view,              \* view[w]: what syncHandler read for it
  handled,           \* handled[k]: the version syncHandler last acted on
  failed,            \* the keys whose last sync returned an error
  restarts           \* processes started after the first

clusterVars == <<api, lastGen>>
informerVars == <<cache, hasSynced, notes>>
runVars == <<stopped, runPc, restarts>>
workerVars == <<wpc, item, view, handled, failed>>
vars == <<queueVars, clusterVars, informerVars, runVars, workerVars>>

Gens == 0..MaxGen
Notes == {n \in [type : {"add", "update", "delete"}, key : Keys,
                 old : Gens, new : Gens, tombstone : BOOLEAN] :
            n.tombstone => n.type = "delete"}
WorkerPcs == {"off", "until", "get", "lookup", "apply", "forget", "done",
              "failed", "exited"}
RunPcs == {"waitSync", "running", "returned", "exited"}

Alive == runPc # "exited"

Init ==
  /\ EmptyQueue
  /\ api = [k \in Keys |-> 0]
  /\ lastGen = 0
  /\ cache = [k \in Keys |-> 0]
  /\ hasSynced = FALSE
  /\ notes = <<>>
  /\ stopped = FALSE
  /\ runPc = "waitSync"
  /\ wpc = [w \in Workers |-> "off"]
  /\ item = [w \in Workers |-> None]
  /\ view = [w \in Workers |-> 0]
  /\ handled = [k \in Keys |-> 0]
  /\ failed = {}
  /\ restarts = 0

-----------------------------------------------------------------------------
(* Users of the API, through the typed client.                             *)

Write(k) ==
  /\ lastGen < MaxGen
  /\ lastGen' = lastGen + 1
  /\ api' = [api EXCEPT ![k] = lastGen']
  /\ UNCHANGED <<queueVars, informerVars, runVars, workerVars>>

CreateNetwork(k) == api[k] = 0 /\ Write(k)

UpdateNetwork(k) == api[k] # 0 /\ Write(k)

DeleteNetwork(k) ==
  /\ api[k] # 0
  /\ api' = [api EXCEPT ![k] = 0]
  /\ UNCHANGED <<lastGen, queueVars, informerVars, runVars, workerVars>>

-----------------------------------------------------------------------------
(* The shared informer.  Its indexer changes before the notification is     *)
(* queued, and notifications are delivered in order.  Several changes seen  *)
(* as one (a list after a lost watch) are one step from cache[k] to api[k]. *)

Note(type, k, new, tombstone) ==
  [type |-> type, key |-> k, old |-> cache[k], new |-> new,
   tombstone |-> tombstone]

Notify(n) ==
  /\ Alive
  /\ cache' = [cache EXCEPT ![n.key] = n.new]
  /\ notes' = Append(notes, n)
  /\ UNCHANGED <<hasSynced, queueVars, clusterVars, runVars, workerVars>>

ObserveAdd(k) ==
  /\ cache[k] = 0 /\ api[k] # 0
  /\ Notify(Note("add", k, api[k], FALSE))

ObserveUpdate(k) ==
  /\ cache[k] # 0 /\ api[k] \notin {0, cache[k]}
  /\ Notify(Note("update", k, api[k], FALSE))

\* The watch delivers the deleted object; a list after a lost watch only
\* knows that it is gone and delivers a DeletedFinalStateUnknown.
ObserveDelete(k) ==
  /\ cache[k] # 0 /\ api[k] = 0
  /\ \E lost \in BOOLEAN : Notify(Note("delete", k, 0, lost))

\* The 30 second resync reports every cached object as updated to itself.
Resync(k) ==
  /\ cache[k] # 0 /\ Len(notes) < MaxNotes
  /\ Notify(Note("update", k, cache[k], FALSE))

\* Everything the first list returned is in the cache.
CacheSynced ==
  /\ Alive /\ ~hasSynced
  /\ \A k \in Keys : api[k] # 0 => cache[k] # 0
  /\ hasSynced' = TRUE
  /\ UNCHANGED <<cache, notes, queueVars, clusterVars, runVars, workerVars>>

-----------------------------------------------------------------------------
(* The event handlers.                                                     *)

\* cache.MetaNamespaceKeyFunc fails on a DeletedFinalStateUnknown.
MetaNamespaceKeyFunc(n) == IF n.tombstone THEN None ELSE n.key

\* cache.DeletionHandlingMetaNamespaceKeyFunc reads the key a tombstone has.
DeletionHandlingMetaNamespaceKeyFunc(n) == n.key

EnqueueKey(key) ==
  IF key = None THEN UNCHANGED queueVars ELSE AddRateLimited(key)

enqueueNetwork(n) == EnqueueKey(MetaNamespaceKeyFunc(n))

\* Mutant: the handler of deletes knows no tombstones.
enqueueNetworkForDeleteByMeta(n) == EnqueueKey(MetaNamespaceKeyFunc(n))

\* Mutant: nor does it look at the error.
enqueueNetworkForDeleteUnchecked(n) == AddRateLimited(MetaNamespaceKeyFunc(n))

enqueueNetworkForDelete(n) ==
  EnqueueKey(DeletionHandlingMetaNamespaceKeyFunc(n))

\* Mutant: the comparison of the versions is the wrong way round.
UpdateFuncSwapped(n) ==
  IF n.old # n.new THEN UNCHANGED queueVars ELSE enqueueNetwork(n)

UpdateFunc(n) ==
  IF n.old = n.new THEN UNCHANGED queueVars ELSE enqueueNetwork(n)

\* Mutant: no AddFunc is registered.
HandleEventWithoutAddFunc ==
  /\ Alive /\ notes # <<>>
  /\ LET n == Head(notes) IN
       \/ n.type = "add" /\ UNCHANGED queueVars
       \/ n.type = "update" /\ UpdateFunc(n)
       \/ n.type = "delete" /\ enqueueNetworkForDelete(n)
  /\ notes' = Tail(notes)
  /\ UNCHANGED <<cache, hasSynced, clusterVars, runVars, workerVars>>

HandleEvent ==
  /\ Alive /\ notes # <<>>
  /\ LET n == Head(notes) IN
       \/ n.type = "add" /\ enqueueNetwork(n)
       \/ n.type = "update" /\ UpdateFunc(n)
       \/ n.type = "delete" /\ enqueueNetworkForDelete(n)
  /\ notes' = Tail(notes)
  /\ UNCHANGED <<cache, hasSynced, clusterVars, runVars, workerVars>>

DelayOver(k) ==
  /\ Alive
  /\ WaitingLoop(k)
  /\ UNCHANGED <<clusterVars, informerVars, runVars, workerVars>>

-----------------------------------------------------------------------------
(* A worker: wait.Until(runWorker, ...), processNextWorkItem, syncHandler. *)

WorkerAt(w, from, to) ==
  /\ Alive
  /\ wpc[w] = from
  /\ wpc' = [wpc EXCEPT ![w] = to]
  /\ UNCHANGED <<clusterVars, informerVars, runVars>>

\* wait.Until looks at stopCh before every call of runWorker.
UntilLoop(w) ==
  /\ WorkerAt(w, "until", IF stopped THEN "exited" ELSE "get")
  /\ UNCHANGED <<item, view, handled, failed, queueVars>>

\* Mutant: Done is called before syncHandler instead of deferred.
TakeItemDoneEarly(w) ==
  /\ WorkerAt(w, "get", "lookup")
  /\ queue # <<>>
  /\ queue' = Tail(queue)
  /\ dirty' = dirty \ {Head(queue)}
  /\ item' = [item EXCEPT ![w] = Head(queue)]
  /\ UNCHANGED <<view, handled, failed, processing, waiting, requeues,
                 shuttingDown>>

TakeItem(w) ==
  /\ WorkerAt(w, "get", "lookup")
  /\ \E k \in Keys : Get(k) /\ item' = [item EXCEPT ![w] = k]
  /\ UNCHANGED <<view, handled, failed>>

\* processNextWorkItem returns false and with it runWorker returns.
TakeShutdown(w) ==
  /\ WorkerAt(w, "get", "until")
  /\ GetShutdown
  /\ UNCHANGED <<item, view, handled, failed>>

\* The lister finds the Network, or it is gone (view 0).
LookupNetwork(w) ==
  /\ WorkerAt(w, "lookup", "apply")
  /\ view' = [view EXCEPT ![w] = cache[item[w]]]
  /\ UNCHANGED <<item, handled, failed, queueVars>>

\* The lister fails; the error is logged and Forget is skipped.
LookupFails(w) ==
  /\ ListerMayFail
  /\ WorkerAt(w, "lookup", "failed")
  /\ failed' = failed \cup {item[w]}
  /\ UNCHANGED <<item, view, handled, queueVars>>

\* A Synced event for a Network that exists, its removal for one that does
\* not; either way syncHandler returns nil.
SyncNetwork(w) ==
  /\ WorkerAt(w, "apply", "forget")
  /\ handled' = [handled EXCEPT ![item[w]] = view[w]]
  /\ failed' = failed \ {item[w]}
  /\ UNCHANGED <<item, view, queueVars>>

\* Mutant: success does not reset the rate limiter.
ForgetItemSkipped(w) ==
  /\ WorkerAt(w, "forget", "done")
  /\ UNCHANGED <<item, view, handled, failed, queueVars>>

ForgetItem(w) ==
  /\ WorkerAt(w, "forget", "done")
  /\ Forget(item[w])
  /\ UNCHANGED <<item, view, handled, failed>>

\* Mutant: the deferred Done is missing.
FinishItemWithoutDone(w) ==
  /\ \E pc \in {"done", "failed"} : WorkerAt(w, pc, "get")
  /\ item' = [item EXCEPT ![w] = None]
  /\ view' = [view EXCEPT ![w] = 0]
  /\ UNCHANGED <<handled, failed, queueVars>>

\* The deferred Done, after success and after an error; then runWorker loops.
FinishItem(w) ==
  /\ \E pc \in {"done", "failed"} : WorkerAt(w, pc, "get")
  /\ Done(item[w])
  /\ item' = [item EXCEPT ![w] = None]
  /\ view' = [view EXCEPT ![w] = 0]
  /\ UNCHANGED <<handled, failed>>

processNextWorkItem(w) ==
  \/ TakeItem(w) \/ TakeShutdown(w) \/ LookupNetwork(w) \/ LookupFails(w)
  \/ SyncNetwork(w) \/ ForgetItem(w) \/ FinishItem(w)

-----------------------------------------------------------------------------
(* Run, main and the signals.                                              *)

LaunchWorkers ==
  /\ runPc = "waitSync" /\ hasSynced
  /\ runPc' = "running"
  /\ wpc' = [w \in Workers |-> "until"]
  /\ UNCHANGED <<stopped, restarts, item, view, handled, failed, queueVars,
                 clusterVars, informerVars>>

\* stopCh is closed: WaitForCacheSync gives up, or Run goes past <-stopCh.
\* Both ways the deferred ShutDown is all that happens; nothing waits.
RunReturns ==
  /\ runPc \in {"waitSync", "running"} /\ stopped
  /\ runPc' = "returned"
  /\ ShutDown
  /\ UNCHANGED <<stopped, restarts, clusterVars, informerVars, workerVars>>

Signal ==
  /\ Alive /\ ~stopped /\ restarts < MaxRestarts
  /\ stopped' = TRUE
  /\ UNCHANGED <<runPc, restarts, queueVars, clusterVars, informerVars,
                 workerVars>>

ProcessEnds ==
  /\ Alive
  /\ runPc' = "exited"
  /\ UNCHANGED <<stopped, restarts, queueVars, clusterVars, informerVars,
                 workerVars>>

\* main returns, or calls Fatalf, as soon as Run has returned.
MainReturns == runPc = "returned" /\ ProcessEnds

\* The handler goroutine calls os.Exit whatever Run is doing.
SecondSignal == stopped /\ ProcessEnds

\* The process is killed without a signal it could handle.
ProcessKilled == restarts < MaxRestarts /\ ProcessEnds

\* A new process: only the API server and the effects of syncs survive.
ProcessStarts ==
  /\ runPc = "exited"
  /\ restarts' = restarts + 1
  /\ ResetQueue
  /\ cache' = [k \in Keys |-> 0]
  /\ hasSynced' = FALSE
  /\ notes' = <<>>
  /\ stopped' = FALSE
  /\ runPc' = "waitSync"
  /\ wpc' = [w \in Workers |-> "off"]
  /\ item' = [w \in Workers |-> None]
  /\ view' = [w \in Workers |-> 0]
  /\ failed' = {}
  /\ UNCHANGED <<clusterVars, handled>>

-----------------------------------------------------------------------------
Next ==
  \/ \E k \in Keys :
       \/ CreateNetwork(k) \/ UpdateNetwork(k) \/ DeleteNetwork(k)
       \/ ObserveAdd(k) \/ ObserveUpdate(k) \/ ObserveDelete(k) \/ Resync(k)
       \/ DelayOver(k)
  \/ CacheSynced \/ HandleEvent
  \/ \E w \in Workers : UntilLoop(w) \/ processNextWorkItem(w)
  \/ LaunchWorkers \/ RunReturns
  \/ Signal \/ MainReturns \/ SecondSignal \/ ProcessKilled \/ ProcessStarts

Spec == Init /\ [][Next]_vars

\* Goroutines that can run, timers and the watch are not delayed for ever,
\* and something starts the process again.  Users, resyncs, signals and kills
\* owe nothing, so no fairness is assumed of them.
Fairness ==
  /\ \A k \in Keys :
       /\ WF_vars(ObserveAdd(k) \/ ObserveUpdate(k) \/ ObserveDelete(k))
       /\ WF_vars(DelayOver(k))
  /\ WF_vars(CacheSynced)
  /\ WF_vars(HandleEvent)
  /\ \A w \in Workers : WF_vars(UntilLoop(w) \/ processNextWorkItem(w))
  /\ WF_vars(LaunchWorkers)
  /\ WF_vars(RunReturns)
  /\ WF_vars(MainReturns)
  /\ WF_vars(ProcessStarts)

FairSpec == Spec /\ Fairness

-----------------------------------------------------------------------------
(* Type invariant.                                                         *)

Idle(w) == wpc[w] \in {"off", "until", "get", "exited"}

\* Every variable has its type; a worker has an item exactly while it is
\* between Get and Done.
TypeOK ==
  /\ QueueTypeOK
  /\ api \in [Keys -> Gens]
  /\ lastGen \in Gens
  /\ cache \in [Keys -> Gens]
  /\ hasSynced \in BOOLEAN
  /\ notes \in Seq(Notes)
  /\ stopped \in BOOLEAN
  /\ runPc \in RunPcs
  /\ wpc \in [Workers -> WorkerPcs]
  /\ item \in [Workers -> Keys \cup {None}]
  /\ \A w \in Workers : item[w] = None <=> Idle(w)
  /\ view \in [Workers -> Gens]
  /\ handled \in [Keys -> Gens]
  /\ failed \subseteq Keys
  /\ restarts \in Nat

-----------------------------------------------------------------------------
(* Safety.                                                                 *)

\* The queue holds exactly the dirty keys no worker has, each once, and a key
\* counts as being processed exactly while a worker has it: a key added while
\* it is processed is neither lost nor handed to a second worker.
QueueConsistent ==
  /\ \A i \in 1..Len(queue) : queue[i] \in dirty \ processing
  /\ \A k \in dirty \ processing : \E i \in 1..Len(queue) : queue[i] = k
  /\ \A i, j \in 1..Len(queue) : queue[i] = queue[j] => i = j
  /\ \A k \in Keys : k \in processing <=> \E w \in Workers : item[w] = k

\* "We are never processing the same item simultaneously in two different
\* workers" (the comment on Controller.workqueue), whatever is enqueued,
\* resynced or delayed while a worker runs syncHandler.
OneWorkerPerKey ==
  \A v, w \in Workers : v # w /\ item[v] # None => item[v] # item[w]

\* A notification the handlers will turn into an AddRateLimited.
WillEnqueue(n) == n.type = "update" => n.old # n.new

\* What makes a worker read the cache for k once more, or has it act now on
\* what the cache holds.
Noted(k) == \E i \in 1..Len(notes) : notes[i].key = k /\ WillEnqueue(notes[i])
Queued(k) == k \in waiting \cup dirty
Reading(k) == \E w \in Workers : item[w] = k /\ wpc[w] = "lookup"
ActingOnLatest(k) ==
  \E w \in Workers : item[w] = k /\ wpc[w] = "apply" /\ view[w] = cache[k]

\* A Network whose cached version is not the one syncHandler last acted on is
\* always on its way to a worker: no order of notifications, delays and
\* workers drops a change, although an item is one key for any number of
\* changes and is read after it is taken.  Exempt are the keys whose last
\* sync failed, the Networks deleted while no controller ran, and the time
\* after stopCh is closed.
NoLostChange ==
  ~stopped =>
    \A k \in Keys \ failed :
      cache[k] # handled[k] =>
        \/ Noted(k) \/ Queued(k) \/ Reading(k) \/ ActingOnLatest(k)
        \/ cache[k] = 0 /\ restarts > 0

\* The rate limiter counts a key only while it has something left to do: the
\* back-off of one change is forgotten before the next.
BackoffForgotten ==
  ~stopped =>
    \A k \in Keys \ failed :
      requeues[k] > 0 =>
        \/ Queued(k)
        \/ \E w \in Workers :
             item[w] = k /\ wpc[w] \in {"lookup", "apply", "forget"}

\* syncHandler never acts on a version older than one it has acted on, though
\* it acts on a copy it read earlier; a removal starts anew.
HandledNeverGoesBack ==
  [][\A k \in Keys :
       handled[k] # 0 /\ handled'[k] # 0 => handled'[k] >= handled[k]]_vars

-----------------------------------------------------------------------------
(* Liveness, under FairSpec.                                               *)

\* Every state of a Network that exists and lasts is acted on, although
\* processes stop, are killed and start again with an empty queue and cache.
LiveNetworksHandled ==
  \A k \in Keys : \A g \in Gens \ {0} :
    api[k] = g ~> handled[k] = g \/ api[k] # g

\* The removal branch of syncHandler runs for a deletion if the process that
\* has the Network in its cache lives to see it; one that happens between two
\* processes is promised to nobody.
DeletionsHandled ==
  \A k \in Keys :
    cache[k] # 0 /\ api[k] = 0 /\ ~stopped /\ Alive
      ~> handled[k] = 0 \/ api[k] # 0 \/ stopped \/ ~Alive

-----------------------------------------------------------------------------
(* Refinement.                                                             *)

\* The keys that will be read again, and what a sync has read and acts on.
Owed == {k \in Keys : Noted(k) \/ Queued(k) \/ Reading(k)}
Acting == {<<item[w], view[w]>> : w \in {v \in Workers : wpc[v] = "apply"}}

Promise == INSTANCE Reconcile WITH
  Versions <- Gens,
  desired <- cache,
  owed <- Owed,
  acting <- Acting,
  restarted <- restarts > 0

\* The queue, the handlers and the workers together keep the promise of a
\* level triggered controller: every step is one of Reconcile's or changes
\* nothing Reconcile sees.
ImplementsReconcile == Promise!Spec

-----------------------------------------------------------------------------
(* What comments of controller.go promise and the code does not do.         *)

\* The comment on Run: "it will shutdown the workqueue and wait for workers
\* to finish processing their current work items".
RunWaitsForWorkers ==
  runPc = "returned" => \A w \in Workers : item[w] = None

\* The comment in processNextWorkItem: after an error "the item is put back
\* on the workqueue and attempted again after a back-off period".
FailedItemIsPutBack ==
  [][\A w \in Workers :
       wpc[w] = "failed" /\ wpc'[w] = "get" =>
         item[w] \in waiting' \cup dirty']_vars
=============================================================================

----------------------- MODULE NetworkControllerProofs -----------------------
(***************************************************************************)
(* Proofs about NetworkController, for any set of keys, any set of workers, *)
(* any bounds and any number of restarts: types, exclusion, back-off, the   *)
(* order of versions, the refinement of Reconcile and what follows from it. *)
(***************************************************************************)
EXTENDS NetworkController, TLAPS

(* Appending to a sequence keeps its elements and adds one at the end (what *)
(* the queue's Add and Done and the informer's notifications do).          *)
LEMMA AppendFacts ==
  ASSUME NEW S, NEW s \in Seq(S), NEW e \in S
  PROVE  /\ Append(s, e) \in Seq(S)
         /\ Len(Append(s, e)) = Len(s) + 1
         /\ Len(s) \in Nat
         /\ \A i \in 1..Len(s) : Append(s, e)[i] = s[i]
         /\ Append(s, e)[Len(s) + 1] = e
  OBVIOUS

(* Taking the head off a sequence moves every other element one place to the *)
(* front (what Get and the delivery of a notification do).                 *)
LEMMA TailFacts ==
  ASSUME NEW S, NEW s \in Seq(S), s # <<>>
  PROVE  /\ Tail(s) \in Seq(S)
         /\ Len(Tail(s)) = Len(s) - 1
         /\ Len(s) \in Nat \ {0}
         /\ \A i \in 1..Len(s) - 1 : Tail(s)[i] = s[i + 1]
         /\ Head(s) = s[1]
         /\ s[1] \in S
  OBVIOUS

-----------------------------------------------------------------------------
(* Types.                                                                  *)

\* No worker runs before the cache has synced.
OffUntilLaunched == runPc = "waitSync" => \A w \in Workers : wpc[w] = "off"

USE DEF queueVars, clusterVars, informerVars, runVars, workerVars, vars

(* A queue call keeps the queue's types.                                   *)
LEMMA QueueCallTypes ==
  ASSUME QueueTypeOK, NEW k \in Keys,
         \/ AddRateLimited(k) \/ WaitingLoop(k) \/ Get(k) \/ GetShutdown
         \/ Forget(k) \/ Done(k) \/ ShutDown \/ UNCHANGED queueVars
  PROVE  QueueTypeOK'
<1> USE DEF QueueTypeOK
<1>1. CASE AddRateLimited(k)
  BY <1>1 DEF AddRateLimited
<1>2. CASE WaitingLoop(k)
  BY <1>2, AppendFacts DEF WaitingLoop
<1>3. CASE Get(k)
  BY <1>3, TailFacts DEF Get
<1>4. CASE GetShutdown
  BY <1>4 DEF GetShutdown
<1>5. CASE Forget(k)
  BY <1>5 DEF Forget
<1>6. CASE Done(k)
  BY <1>6, AppendFacts DEF Done
<1>7. CASE ShutDown
  BY <1>7 DEF ShutDown
<1>8. CASE UNCHANGED queueVars
  BY <1>8
<1> QED
  BY <1>1, <1>2, <1>3, <1>4, <1>5, <1>6, <1>7, <1>8

LEMMA NewQueueTypes ==
  ResetQueue => QueueTypeOK'
<1> SUFFICES ASSUME ResetQueue PROVE QueueTypeOK'
  OBVIOUS
<1>1. requeues' \in [Keys -> Nat]
  BY DEF ResetQueue
<1>2. queue' \in Seq(Keys)
  BY DEF ResetQueue
<1> QED
  BY <1>1, <1>2 DEF ResetQueue, QueueTypeOK

(* The handlers turn a notification into one AddRateLimited of its key,     *)
(* tombstones included, unless it is the update of a resync.               *)
LEMMA HandlerCalls ==
  ASSUME TypeOK, HandleEvent
  PROVE  /\ Head(notes) \in Notes
         /\ \/ WillEnqueue(Head(notes)) /\ AddRateLimited(Head(notes).key)
            \/ ~WillEnqueue(Head(notes)) /\ UNCHANGED queueVars
<1>1. notes # <<>> /\ notes \in Seq(Notes)
  BY DEF HandleEvent, TypeOK
<1>2. Head(notes) \in Notes
  BY <1>1, TailFacts
<1> DEFINE n == Head(notes)
<1>3. n.key \in Keys /\ n.key # None /\ (n.tombstone => n.type = "delete")
  BY <1>2, ConstantsOK DEF Notes
<1>4. CASE n.type = "add" /\ enqueueNetwork(n)
  BY <1>2, <1>3, <1>4
     DEF enqueueNetwork, EnqueueKey, MetaNamespaceKeyFunc, WillEnqueue
<1>5. CASE n.type = "update" /\ UpdateFunc(n)
  BY <1>2, <1>3, <1>5
     DEF UpdateFunc, enqueueNetwork, EnqueueKey, MetaNamespaceKeyFunc,
         WillEnqueue
<1>6. CASE n.type = "delete" /\ enqueueNetworkForDelete(n)
  BY <1>2, <1>3, <1>6
     DEF enqueueNetworkForDelete, EnqueueKey,
         DeletionHandlingMetaNamespaceKeyFunc, WillEnqueue
<1> QED
  BY <1>2, <1>4, <1>5, <1>6 DEF HandleEvent

(* An observed change is a well formed note of a new version.              *)
LEMMA ObservedNotes ==
  ASSUME TypeOK, NEW k \in Keys,
         \/ ObserveAdd(k) \/ ObserveUpdate(k) \/ ObserveDelete(k) \/ Resync(k)
  PROVE  \E n \in Notes :
           /\ n.key = k /\ n.old = cache[k] /\ Notify(n)
           /\ \/ WillEnqueue(n) /\ n.new # cache[k] /\ n.new = api[k]
              \/ ~WillEnqueue(n) /\ n.new = cache[k]
<1>1. cache[k] \in Gens /\ api[k] \in Gens /\ 0 \in Gens
  BY ConstantsOK DEF TypeOK, Gens
<1>2. CASE ObserveAdd(k)
  <2>1. Note("add", k, api[k], FALSE) \in Notes
    BY <1>1 DEF Note, Notes
  <2> QED
    BY <1>2, <2>1 DEF ObserveAdd, Note, WillEnqueue
<1>3. CASE ObserveUpdate(k)
  <2>1. Note("update", k, api[k], FALSE) \in Notes
    BY <1>1 DEF Note, Notes
  <2> QED
    BY <1>3, <2>1 DEF ObserveUpdate, Note, WillEnqueue
<1>4. CASE ObserveDelete(k)
  <2>1. PICK lost \in BOOLEAN : Notify(Note("delete", k, 0, lost))
    BY <1>4 DEF ObserveDelete
  <2>2. Note("delete", k, 0, lost) \in Notes
    BY <1>1 DEF Note, Notes
  <2> QED
    BY <1>4, <2>1, <2>2 DEF ObserveDelete, Note, WillEnqueue
<1>5. CASE Resync(k)
  <2>1. Note("update", k, cache[k], FALSE) \in Notes
    BY <1>1 DEF Note, Notes
  <2> QED
    BY <1>5, <2>1 DEF Resync, Note, WillEnqueue
<1> QED
  BY <1>2, <1>3, <1>4, <1>5

LEMMA TypesInit ==
  Init => TypeOK /\ OffUntilLaunched
<1> SUFFICES ASSUME Init PROVE TypeOK /\ OffUntilLaunched
  OBVIOUS
<1>1. QueueTypeOK
  <2>1. requeues \in [Keys -> Nat]
    BY DEF Init, EmptyQueue
  <2>2. queue \in Seq(Keys)
    BY DEF Init, EmptyQueue
  <2> QED
    BY <2>1, <2>2 DEF Init, EmptyQueue, QueueTypeOK
<1>2. 0 \in Gens
  BY ConstantsOK DEF Gens
<1>3. /\ api \in [Keys -> Gens] /\ cache \in [Keys -> Gens]
      /\ handled \in [Keys -> Gens] /\ view \in [Workers -> Gens]
      /\ notes \in Seq(Notes) /\ restarts \in Nat
  BY <1>2 DEF Init
<1>4. /\ wpc \in [Workers -> WorkerPcs]
      /\ item \in [Workers -> Keys \cup {None}]
      /\ \A w \in Workers : item[w] = None /\ wpc[w] = "off"
  BY DEF Init, WorkerPcs
<1>5. \A w \in Workers : item[w] = None <=> Idle(w)
  BY <1>4 DEF Idle
<1>6. /\ lastGen \in Gens /\ hasSynced \in BOOLEAN /\ stopped \in BOOLEAN
      /\ runPc \in RunPcs /\ failed \subseteq Keys
  BY <1>2 DEF Init, RunPcs
<1> QED
  BY <1>1, <1>3, <1>4, <1>5, <1>6 DEF TypeOK, OffUntilLaunched

(* A step of a worker moves that worker, and nothing it leaves alone.      *)
LEMMA WorkerTypes ==
  ASSUME TypeOK, OffUntilLaunched, NEW w \in Workers,
         UntilLoop(w) \/ processNextWorkItem(w)
  PROVE  TypeOK' /\ OffUntilLaunched'
<1> USE DEF TypeOK, OffUntilLaunched, Idle, WorkerAt, WorkerPcs, RunPcs
<1>1. CASE UntilLoop(w)
  <2>1. QueueTypeOK'
    BY <1>1 DEF UntilLoop, QueueTypeOK
  <2> QED
    BY <1>1, <2>1 DEF UntilLoop
<1>2. CASE TakeItem(w)
  <2>1. PICK k \in Keys : Get(k) /\ item' = [item EXCEPT ![w] = k]
    BY <1>2 DEF TakeItem
  <2>2. QueueTypeOK'
    BY <2>1, QueueCallTypes
  <2> QED
    BY <1>2, <2>1, <2>2, ConstantsOK DEF TakeItem
<1>3. CASE TakeShutdown(w)
  <2>1. QueueTypeOK'
    BY <1>3 DEF TakeShutdown, GetShutdown, QueueTypeOK
  <2> QED
    BY <1>3, <2>1 DEF TakeShutdown
<1>4. CASE LookupNetwork(w)
  <2>1. item[w] \in Keys
    BY <1>4 DEF LookupNetwork
  <2>2. QueueTypeOK'
    BY <1>4 DEF LookupNetwork, QueueTypeOK
  <2> QED
    BY <1>4, <2>1, <2>2 DEF LookupNetwork
<1>5. CASE LookupFails(w)
  <2>1. item[w] \in Keys
    BY <1>5 DEF LookupFails
  <2>2. QueueTypeOK'
    BY <1>5 DEF LookupFails, QueueTypeOK
  <2> QED
    BY <1>5, <2>1, <2>2 DEF LookupFails
<1>6. CASE SyncNetwork(w)
  <2>1. item[w] \in Keys
    BY <1>6 DEF SyncNetwork
  <2>2. QueueTypeOK'
    BY <1>6 DEF SyncNetwork, QueueTypeOK
  <2> QED
    BY <1>6, <2>1, <2>2 DEF SyncNetwork
<1>7. CASE ForgetItem(w)
  <2>1. item[w] \in Keys
    BY <1>7 DEF ForgetItem
  <2>2. QueueTypeOK'
    BY <1>7, <2>1, QueueCallTypes DEF ForgetItem
  <2> QED
    BY <1>7, <2>2 DEF ForgetItem
<1>8. CASE FinishItem(w)
  <2>1. item[w] \in Keys
    BY <1>8 DEF FinishItem
  <2>2. QueueTypeOK'
    BY <1>8, <2>1, QueueCallTypes DEF FinishItem
  <2> QED
    BY <1>8, <2>2, ConstantsOK DEF FinishItem, Gens
<1> QED
  BY <1>1, <1>2, <1>3, <1>4, <1>5, <1>6, <1>7, <1>8 DEF processNextWorkItem

(* Every variable keeps its type.                                          *)
LEMMA TypesStep ==
  ASSUME TypeOK, OffUntilLaunched, [Next]_vars
  PROVE  TypeOK' /\ OffUntilLaunched'
<1> USE DEF TypeOK, OffUntilLaunched, Idle
<1>1. ASSUME NEW k \in Keys,
             CreateNetwork(k) \/ UpdateNetwork(k) \/ DeleteNetwork(k)
      PROVE  TypeOK' /\ OffUntilLaunched'
  <2>1. QueueTypeOK'
    BY <1>1 DEF CreateNetwork, UpdateNetwork, DeleteNetwork, Write, QueueTypeOK
  <2>2. lastGen' \in Gens /\ 0 \in Gens
    BY <1>1, ConstantsOK
       DEF CreateNetwork, UpdateNetwork, DeleteNetwork, Write, Gens
  <2>3. api' \in [Keys -> Gens]
    BY <1>1, <2>2 DEF CreateNetwork, UpdateNetwork, DeleteNetwork, Write
  <2> QED
    BY <1>1, <2>1, <2>2, <2>3
       DEF CreateNetwork, UpdateNetwork, DeleteNetwork, Write
<1>2. ASSUME NEW k \in Keys,
             \/ ObserveAdd(k) \/ ObserveUpdate(k) \/ ObserveDelete(k)
             \/ Resync(k)
      PROVE  TypeOK' /\ OffUntilLaunched'
  <2>1. PICK n \in Notes : Notify(n)
    BY <1>2, ObservedNotes
  <2>2. QueueTypeOK'
    BY <2>1 DEF Notify, QueueTypeOK
  <2>3. notes' \in Seq(Notes) /\ n.key \in Keys /\ n.new \in Gens
    BY <2>1, AppendFacts DEF Notify, Notes
  <2> QED
    BY <2>1, <2>2, <2>3 DEF Notify
<1>3. ASSUME NEW k \in Keys, DelayOver(k)
      PROVE  TypeOK' /\ OffUntilLaunched'
  BY <1>3, QueueCallTypes DEF DelayOver
<1>4. CASE CacheSynced
  <2>1. QueueTypeOK'
    BY <1>4 DEF CacheSynced, QueueTypeOK
  <2> QED
    BY <1>4, <2>1 DEF CacheSynced
<1>5. CASE HandleEvent
  <2>1. QueueTypeOK'
    <3>1. Head(notes).key \in Keys
      BY <1>5, HandlerCalls DEF Notes
    <3> QED
      BY <1>5, <3>1, HandlerCalls, QueueCallTypes
  <2>2. notes' \in Seq(Notes)
    BY <1>5, TailFacts DEF HandleEvent
  <2> QED
    BY <1>5, <2>1, <2>2 DEF HandleEvent
<1>6. ASSUME NEW w \in Workers, UntilLoop(w) \/ processNextWorkItem(w)
      PROVE  TypeOK' /\ OffUntilLaunched'
  BY <1>6, WorkerTypes
<1>7. CASE LaunchWorkers
  <2>1. QueueTypeOK'
    BY <1>7 DEF LaunchWorkers, QueueTypeOK
  <2> QED
    BY <1>7, <2>1 DEF LaunchWorkers, RunPcs, WorkerPcs
<1>8. CASE RunReturns
  <2>1. QueueTypeOK'
    BY <1>8 DEF RunReturns, ShutDown, QueueTypeOK
  <2> QED
    BY <1>8, <2>1 DEF RunReturns, RunPcs
<1>9. CASE Signal \/ MainReturns \/ SecondSignal \/ ProcessKilled
  <2>1. QueueTypeOK'
    BY <1>9 DEF Signal, MainReturns, SecondSignal, ProcessKilled, ProcessEnds,
                QueueTypeOK
  <2> QED
    BY <1>9, <2>1
       DEF Signal, MainReturns, SecondSignal, ProcessKilled, ProcessEnds, RunPcs
<1>10. CASE ProcessStarts
  <2>1. QueueTypeOK'
    BY <1>10, NewQueueTypes DEF ProcessStarts
  <2>2. 0 \in Gens
    BY ConstantsOK DEF Gens
  <2>3. cache' \in [Keys -> Gens] /\ notes' \in Seq(Notes)
    BY <1>10, <2>2 DEF ProcessStarts
  <2>4. /\ wpc' \in [Workers -> WorkerPcs]
        /\ item' \in [Workers -> Keys \cup {None}]
        /\ \A w \in Workers : item'[w] = None /\ wpc'[w] = "off"
        /\ view' \in [Workers -> Gens]
    BY <1>10, <2>2 DEF ProcessStarts, WorkerPcs
  <2>5. \A w \in Workers : item'[w] = None <=> Idle(w)'
    BY <2>4
  <2>6. restarts' \in Nat /\ runPc' \in RunPcs
    BY <1>10 DEF ProcessStarts, RunPcs
  <2>7. /\ api' \in [Keys -> Gens]
        /\ lastGen' \in Gens
        /\ hasSynced' \in BOOLEAN /\ stopped' \in BOOLEAN
        /\ handled' \in [Keys -> Gens]
        /\ failed' \subseteq Keys
    BY <1>10 DEF ProcessStarts
  <2>8. TypeOK'
    BY <2>1, <2>3, <2>4, <2>5, <2>6, <2>7
  <2> QED
    BY <2>4, <2>8
<1>11. CASE UNCHANGED vars
  <2>1. QueueTypeOK'
    BY <1>11 DEF QueueTypeOK
  <2> QED
    BY <1>11, <2>1
<1> QED
  BY <1>1, <1>2, <1>3, <1>4, <1>5, <1>6, <1>7, <1>8, <1>9, <1>10, <1>11 DEF Next

(* Type correctness of the controller.                                     *)
THEOREM TypeCorrect == Spec => []TypeOK
<1>1. TypeOK /\ OffUntilLaunched /\ [Next]_vars
        => (TypeOK /\ OffUntilLaunched)'
  BY TypesStep
<1> QED
  BY <1>1, TypesInit, PTL DEF Spec

-----------------------------------------------------------------------------
(* Mutual exclusion.                                                       *)

ExclusionInv == QueueConsistent /\ OneWorkerPerKey

(* Most steps leave alone all that mutual exclusion depends on.            *)
LEMMA ExclusionUnchanged ==
  ASSUME ExclusionInv, UNCHANGED <<queue, dirty, processing, item>>
  PROVE  ExclusionInv'
BY DEF ExclusionInv, QueueConsistent, OneWorkerPerKey

(* A key whose delay is over joins the queue, or only becomes dirty when it *)
(* is queued already or a worker has it.                                   *)
LEMMA ExclusionDelayOver ==
  ASSUME TypeOK, ExclusionInv, NEW k \in Keys, DelayOver(k)
  PROVE  ExclusionInv'
<1> USE DEF ExclusionInv
<1>1. queue \in Seq(Keys)
  BY DEF TypeOK, QueueTypeOK
<1>2. /\ dirty' = dirty \cup {k}
      /\ queue' = IF k \in dirty \cup processing THEN queue
                                                 ELSE Append(queue, k)
      /\ UNCHANGED <<processing, item>>
  BY DEF DelayOver, WaitingLoop, TypeOK
<1>3. OneWorkerPerKey'
  BY <1>2 DEF OneWorkerPerKey
<1>4. CASE k \in dirty \cup processing
  BY <1>2, <1>3, <1>4 DEF QueueConsistent
<1>5. CASE k \notin dirty \cup processing
  <2>1. /\ Len(queue') = Len(queue) + 1 /\ Len(queue) \in Nat
        /\ \A i \in 1..Len(queue) : queue'[i] = queue[i]
        /\ queue'[Len(queue) + 1] = k
    BY <1>1, <1>2, <1>5, AppendFacts
  <2>2. \A i \in 1..Len(queue') : queue'[i] \in dirty' \ processing'
    BY <1>2, <1>5, <2>1 DEF QueueConsistent
  <2>3. \A j \in dirty' \ processing' : \E i \in 1..Len(queue') : queue'[i] = j
    <3> SUFFICES ASSUME NEW j \in dirty' \ processing'
                 PROVE  \E i \in 1..Len(queue') : queue'[i] = j
      OBVIOUS
    <3>1. CASE j = k
      BY <2>1, <3>1
    <3>2. CASE j # k
      <4>1. PICK i \in 1..Len(queue) : queue[i] = j
        BY <1>2, <3>2 DEF QueueConsistent
      <4> QED
        BY <2>1, <4>1
    <3> QED
      BY <3>1, <3>2
  <2>4. \A i, j \in 1..Len(queue') : queue'[i] = queue'[j] => i = j
    <3>1. \A i \in 1..Len(queue) : queue[i] # k
      BY <1>5 DEF QueueConsistent
    <3> QED
      BY <2>1, <3>1 DEF QueueConsistent
  <2>5. \A j \in Keys : j \in processing' <=> \E w \in Workers : item'[w] = j
    BY <1>2 DEF QueueConsistent
  <2> QED
    BY <1>3, <2>2, <2>3, <2>4, <2>5 DEF QueueConsistent
<1> QED
  BY <1>4, <1>5

(* A worker takes a key no other worker has, and the key leaves the queue. *)
LEMMA ExclusionTakeItem ==
  ASSUME TypeOK, ExclusionInv, NEW w \in Workers, TakeItem(w)
  PROVE  ExclusionInv'
<1> USE DEF ExclusionInv
<1>1. PICK k \in Keys : Get(k) /\ item' = [item EXCEPT ![w] = k]
  BY DEF TakeItem
<1>2. /\ queue \in Seq(Keys) /\ queue # <<>> /\ queue' = Tail(queue)
      /\ processing' = processing \cup {k} /\ dirty' = dirty \ {k}
      /\ item \in [Workers -> Keys \cup {None}]
  BY <1>1 DEF Get, TypeOK, QueueTypeOK
<1>3. /\ Len(queue') = Len(queue) - 1 /\ Len(queue) \in Nat \ {0}
      /\ \A i \in 1..Len(queue) - 1 : queue'[i] = queue[i + 1]
      /\ queue[1] = k
  BY <1>1, <1>2, TailFacts DEF Get
<1>4. k \in dirty \ processing
  BY <1>3 DEF QueueConsistent
<1>5. item[w] = None /\ k # None /\ \A v \in Workers : item[v] # k
  <2>1. item[w] = None
    BY DEF TakeItem, WorkerAt, TypeOK, Idle
  <2> QED
    BY <1>4, <2>1, ConstantsOK DEF QueueConsistent
<1>6. OneWorkerPerKey'
  BY <1>1, <1>2, <1>5 DEF OneWorkerPerKey
<1>7. \A i \in 1..Len(queue') : queue'[i] \in dirty' \ processing'
  <2> SUFFICES ASSUME NEW i \in 1..Len(queue')
               PROVE  queue'[i] \in dirty' \ processing'
    OBVIOUS
  <2>1. queue'[i] = queue[i + 1] /\ i + 1 \in 1..Len(queue) /\ i + 1 # 1
    BY <1>3
  <2>2. queue[i + 1] # k
    BY <1>3, <2>1 DEF QueueConsistent
  <2> QED
    BY <1>2, <2>1, <2>2 DEF QueueConsistent
<1>8. \A j \in dirty' \ processing' : \E i \in 1..Len(queue') : queue'[i] = j
  <2> SUFFICES ASSUME NEW j \in dirty' \ processing'
               PROVE  \E i \in 1..Len(queue') : queue'[i] = j
    OBVIOUS
  <2>1. PICK i \in 1..Len(queue) : queue[i] = j
    BY <1>2 DEF QueueConsistent
  <2>2. i # 1 /\ i - 1 \in 1..Len(queue')
    BY <1>2, <1>3, <2>1
  <2>3. queue'[i - 1] = queue[(i - 1) + 1]
    BY <1>3, <2>2
  <2> QED
    BY <2>1, <2>2, <2>3
<1>9. \A i, j \in 1..Len(queue') : queue'[i] = queue'[j] => i = j
  BY <1>3 DEF QueueConsistent
<1>10. \A j \in Keys : j \in processing' <=> \E v \in Workers : item'[v] = j
  <2> SUFFICES ASSUME NEW j \in Keys
               PROVE  j \in processing' <=> \E v \in Workers : item'[v] = j
    OBVIOUS
  <2>1. CASE j = k
    BY <1>1, <1>2, <2>1
  <2>2. CASE j # k
    <3>1. \A v \in Workers : item'[v] = j <=> item[v] = j
      BY <1>1, <1>2, <1>5, <2>2, ConstantsOK
    <3> QED
      BY <1>2, <2>2, <3>1 DEF QueueConsistent
  <2> QED
    BY <2>1, <2>2
<1> QED
  BY <1>6, <1>7, <1>8, <1>9, <1>10 DEF QueueConsistent

(* Done releases the key, and queues it again when it became dirty.        *)
LEMMA ExclusionFinishItem ==
  ASSUME TypeOK, ExclusionInv, NEW w \in Workers, FinishItem(w)
  PROVE  ExclusionInv'
<1> USE DEF ExclusionInv
<1> DEFINE k == item[w]
<1>1. k \in Keys /\ k # None
  BY ConstantsOK DEF FinishItem, WorkerAt, TypeOK, Idle
<1>2. /\ queue \in Seq(Keys)
      /\ queue' = IF k \in dirty THEN Append(queue, k) ELSE queue
      /\ processing' = processing \ {k} /\ dirty' = dirty
      /\ item \in [Workers -> Keys \cup {None}]
      /\ item' = [item EXCEPT ![w] = None]
  BY DEF FinishItem, Done, TypeOK, QueueTypeOK
<1>3. k \in processing
  BY <1>1 DEF QueueConsistent
<1>4. OneWorkerPerKey'
  BY <1>2 DEF OneWorkerPerKey
<1>5. \A i \in 1..Len(queue) : queue[i] # k
  BY <1>3 DEF QueueConsistent
<1>6. \A j \in Keys : j \in processing' <=> \E v \in Workers : item'[v] = j
  <2> SUFFICES ASSUME NEW j \in Keys
               PROVE  j \in processing' <=> \E v \in Workers : item'[v] = j
    OBVIOUS
  <2>1. CASE j = k
    <3>1. \A v \in Workers : item'[v] # k
      BY <1>1, <1>2 DEF OneWorkerPerKey
    <3> QED
      BY <1>2, <2>1, <3>1
  <2>2. CASE j # k
    <3>1. \A v \in Workers : item'[v] = j <=> item[v] = j
      BY <1>2, <2>2, ConstantsOK
    <3> QED
      BY <1>2, <2>2, <3>1 DEF QueueConsistent
  <2> QED
    BY <2>1, <2>2
<1>7. CASE k \notin dirty
  BY <1>2, <1>4, <1>6, <1>7 DEF QueueConsistent
<1>8. CASE k \in dirty
  <2>1. /\ Len(queue') = Len(queue) + 1 /\ Len(queue) \in Nat
        /\ \A i \in 1..Len(queue) : queue'[i] = queue[i]
        /\ queue'[Len(queue) + 1] = k
    BY <1>1, <1>2, <1>8, AppendFacts
  <2>2. \A i \in 1..Len(queue') : queue'[i] \in dirty' \ processing'
    BY <1>2, <1>8, <2>1 DEF QueueConsistent
  <2>3. \A j \in dirty' \ processing' : \E i \in 1..Len(queue') : queue'[i] = j
    <3> SUFFICES ASSUME NEW j \in dirty' \ processing'
                 PROVE  \E i \in 1..Len(queue') : queue'[i] = j
      OBVIOUS
    <3>1. CASE j = k
      BY <2>1, <3>1
    <3>2. CASE j # k
      <4>1. PICK i \in 1..Len(queue) : queue[i] = j
        BY <1>2, <3>2 DEF QueueConsistent
      <4> QED
        BY <2>1, <4>1
    <3> QED
      BY <3>1, <3>2
  <2>4. \A i, j \in 1..Len(queue') : queue'[i] = queue'[j] => i = j
    BY <1>5, <2>1 DEF QueueConsistent
  <2> QED
    BY <1>4, <1>6, <2>2, <2>3, <2>4 DEF QueueConsistent
<1> QED
  BY <1>7, <1>8

LEMMA ExclusionStep ==
  ASSUME TypeOK, ExclusionInv, [Next]_vars
  PROVE  ExclusionInv'
<1>1. ASSUME NEW k \in Keys,
             CreateNetwork(k) \/ UpdateNetwork(k) \/ DeleteNetwork(k)
      PROVE  ExclusionInv'
  BY <1>1, ExclusionUnchanged
     DEF CreateNetwork, UpdateNetwork, DeleteNetwork, Write
<1>2. ASSUME NEW k \in Keys,
             \/ ObserveAdd(k) \/ ObserveUpdate(k) \/ ObserveDelete(k)
             \/ Resync(k)
      PROVE  ExclusionInv'
  BY <1>2, ObservedNotes, ExclusionUnchanged DEF Notify
<1>3. ASSUME NEW k \in Keys, DelayOver(k)
      PROVE  ExclusionInv'
  BY <1>3, ExclusionDelayOver
<1>4. CASE CacheSynced
  BY <1>4, ExclusionUnchanged DEF CacheSynced
<1>5. CASE HandleEvent
  BY <1>5, HandlerCalls, ExclusionUnchanged DEF HandleEvent, AddRateLimited
<1>6. ASSUME NEW w \in Workers, UntilLoop(w) \/ processNextWorkItem(w)
      PROVE  ExclusionInv'
  <2>1. CASE TakeItem(w)
    BY <2>1, ExclusionTakeItem
  <2>2. CASE FinishItem(w)
    BY <2>2, ExclusionFinishItem
  <2>3. CASE ForgetItem(w)
    BY <2>3, ExclusionUnchanged DEF ForgetItem, Forget
  <2>4. CASE \/ UntilLoop(w) \/ TakeShutdown(w) \/ LookupNetwork(w)
             \/ LookupFails(w) \/ SyncNetwork(w)
    BY <2>4, ExclusionUnchanged
       DEF UntilLoop, TakeShutdown, GetShutdown, LookupNetwork, LookupFails,
           SyncNetwork
  <2> QED
    BY <1>6, <2>1, <2>2, <2>3, <2>4 DEF processNextWorkItem
<1>7. CASE LaunchWorkers \/ RunReturns
  BY <1>7, ExclusionUnchanged DEF LaunchWorkers, RunReturns, ShutDown
<1>8. CASE Signal \/ MainReturns \/ SecondSignal \/ ProcessKilled
  BY <1>8, ExclusionUnchanged
     DEF Signal, MainReturns, SecondSignal, ProcessKilled, ProcessEnds
<1>9. CASE ProcessStarts
  <2>1. /\ queue' = <<>> /\ dirty' = {} /\ processing' = {}
        /\ \A w \in Workers : item'[w] = None
    BY <1>9 DEF ProcessStarts, ResetQueue
  <2> QED
    BY <2>1, ConstantsOK DEF ExclusionInv, QueueConsistent, OneWorkerPerKey
<1>10. CASE UNCHANGED vars
  BY <1>10, ExclusionUnchanged
<1> QED
  BY <1>1, <1>2, <1>3, <1>4, <1>5, <1>6, <1>7, <1>8, <1>9, <1>10 DEF Next

LEMMA ExclusionInit ==
  Init => ExclusionInv
<1> SUFFICES ASSUME Init PROVE ExclusionInv
  OBVIOUS
<1>1. /\ queue = <<>> /\ dirty = {} /\ processing = {}
      /\ \A w \in Workers : item[w] = None
  BY DEF Init, EmptyQueue
<1> QED
  BY <1>1, ConstantsOK DEF ExclusionInv, QueueConsistent, OneWorkerPerKey

LEMMA ExclusionAlways == Spec => []ExclusionInv
<1>1. TypeOK /\ ExclusionInv /\ [Next]_vars => ExclusionInv'
  BY ExclusionStep
<1> QED
  BY <1>1, ExclusionInit, TypeCorrect, PTL DEF Spec

(* The queue holds the dirty keys that no worker has, each once, and        *)
(* "processing" is what the workers have, in every state of every run.     *)
THEOREM QueueIsConsistent == Spec => []QueueConsistent
<1>1. ExclusionInv => QueueConsistent
  BY DEF ExclusionInv
<1> QED
  BY <1>1, ExclusionAlways, PTL

(* No two workers ever process the same item, for any number of workers    *)
(* (the comment on Controller.workqueue).                                  *)
THEOREM MutualExclusion == Spec => []OneWorkerPerKey
<1>1. ExclusionInv => OneWorkerPerKey
  BY DEF ExclusionInv
<1> QED
  BY <1>1, ExclusionAlways, PTL

-----------------------------------------------------------------------------
(* The invariant all that follows starts from.                             *)

\* What the proofs below, and the refinement, need to know of the controller.
Inv ==
  /\ TypeOK
  /\ OffUntilLaunched
  /\ ExclusionInv
  /\ shuttingDown => stopped

(* Only a process that was told to stop shuts its queue down.              *)
LEMMA ShutDownWhenStopped ==
  ASSUME TypeOK, shuttingDown => stopped, [Next]_vars
  PROVE  (shuttingDown => stopped)'
<1>1. ASSUME NEW k \in Keys,
             \/ CreateNetwork(k) \/ UpdateNetwork(k) \/ DeleteNetwork(k)
             \/ DelayOver(k)
      PROVE  UNCHANGED <<shuttingDown, stopped>>
  BY <1>1 DEF CreateNetwork, UpdateNetwork, DeleteNetwork, Write, DelayOver,
              WaitingLoop
<1>2. ASSUME NEW k \in Keys,
             \/ ObserveAdd(k) \/ ObserveUpdate(k) \/ ObserveDelete(k)
             \/ Resync(k)
      PROVE  UNCHANGED <<shuttingDown, stopped>>
  BY <1>2, ObservedNotes DEF Notify
<1>3. CASE HandleEvent
  BY <1>3, HandlerCalls DEF HandleEvent, AddRateLimited
<1>4. ASSUME NEW w \in Workers, UntilLoop(w) \/ processNextWorkItem(w)
      PROVE  UNCHANGED <<shuttingDown, stopped>>
  BY <1>4 DEF UntilLoop, processNextWorkItem, TakeItem, TakeShutdown,
     LookupNetwork, LookupFails, SyncNetwork, ForgetItem, FinishItem, WorkerAt,
     Get, GetShutdown, Forget, Done
<1>5. CASE CacheSynced \/ LaunchWorkers
  BY <1>5 DEF CacheSynced, LaunchWorkers
<1>6. CASE RunReturns
  BY <1>6 DEF RunReturns
<1>7. CASE Signal \/ MainReturns \/ SecondSignal \/ ProcessKilled
  BY <1>7 DEF Signal, MainReturns, SecondSignal, ProcessKilled, ProcessEnds
<1>8. CASE ProcessStarts
  BY <1>8 DEF ProcessStarts, ResetQueue
<1>9. CASE UNCHANGED vars
  BY <1>9
<1> QED
  BY <1>1, <1>2, <1>3, <1>4, <1>5, <1>6, <1>7, <1>8, <1>9 DEF Next

LEMMA InvAlways == Spec => []Inv
<1>1. Init => Inv
  BY TypesInit, ExclusionInit DEF Init, EmptyQueue, Inv
<1>2. Inv /\ [Next]_vars => Inv'
  BY TypesStep, ExclusionStep, ShutDownWhenStopped DEF Inv
<1> QED
  BY <1>1, <1>2, PTL DEF Spec

-----------------------------------------------------------------------------
(* The back-off.                                                           *)

LEMMA BackoffUnchanged ==
  ASSUME BackoffForgotten,
         UNCHANGED <<stopped, failed, requeues, waiting, dirty, item, wpc>>
  PROVE  BackoffForgotten'
BY DEF BackoffForgotten, Queued

(* A key the limiter counts is held back, dirty, or with a worker that will *)
(* forget it: what a worker leaves without Forget is a failure.            *)
LEMMA BackoffStep ==
  ASSUME Inv, BackoffForgotten, [Next]_vars
  PROVE  BackoffForgotten'
<1> USE DEF Inv
<1>1. ASSUME NEW k \in Keys,
             CreateNetwork(k) \/ UpdateNetwork(k) \/ DeleteNetwork(k)
      PROVE  BackoffForgotten'
  BY <1>1, BackoffUnchanged
     DEF CreateNetwork, UpdateNetwork, DeleteNetwork, Write
<1>2. ASSUME NEW k \in Keys,
             \/ ObserveAdd(k) \/ ObserveUpdate(k) \/ ObserveDelete(k)
             \/ Resync(k)
      PROVE  BackoffForgotten'
  BY <1>2, ObservedNotes, BackoffUnchanged DEF Notify
<1>3. ASSUME NEW k \in Keys, DelayOver(k)
      PROVE  BackoffForgotten'
  BY <1>3 DEF DelayOver, WaitingLoop, BackoffForgotten, Queued
<1>4. CASE CacheSynced
  BY <1>4, BackoffUnchanged DEF CacheSynced
<1>5. CASE HandleEvent
  <2>1. UNCHANGED <<stopped, failed, dirty, item, wpc>>
    BY <1>5, HandlerCalls DEF HandleEvent, AddRateLimited
  <2>2. \/ UNCHANGED <<requeues, waiting>>
        \/ \E k \in Keys :
             /\ requeues' = [requeues EXCEPT ![k] = @ + 1]
             /\ waiting' = IF shuttingDown THEN waiting ELSE waiting \cup {k}
    BY <1>5, HandlerCalls DEF AddRateLimited, Notes
  <2>3. requeues \in [Keys -> Nat]
    BY DEF TypeOK, QueueTypeOK
  <2> QED
    BY <2>1, <2>2, <2>3 DEF BackoffForgotten, Queued
<1>6. ASSUME NEW w \in Workers, UntilLoop(w) \/ processNextWorkItem(w)
      PROVE  BackoffForgotten'
  <2>1. /\ wpc \in [Workers -> WorkerPcs] /\ requeues \in [Keys -> Nat]
        /\ item \in [Workers -> Keys \cup {None}]
    BY DEF TypeOK, QueueTypeOK
  <2>2. CASE UntilLoop(w) \/ TakeShutdown(w)
    <3>1. /\ wpc[w] \in {"until", "get"}
          /\ \E pc \in {"until", "get", "exited"} : wpc' = [wpc EXCEPT ![w] = pc]
          /\ UNCHANGED <<stopped, failed, requeues, waiting, dirty, item>>
      BY <2>2 DEF UntilLoop, TakeShutdown, GetShutdown, WorkerAt
    <3> QED
      BY <2>1, <3>1 DEF BackoffForgotten, Queued
  <2>3. CASE TakeItem(w)
    <3>1. PICK k \in Keys : Get(k) /\ item' = [item EXCEPT ![w] = k]
      BY <2>3 DEF TakeItem
    <3>2. /\ wpc[w] = "get" /\ wpc' = [wpc EXCEPT ![w] = "lookup"]
          /\ dirty' = dirty \ {k}
          /\ UNCHANGED <<stopped, failed, requeues, waiting>>
      BY <2>3, <3>1 DEF TakeItem, WorkerAt, Get
    <3> QED
      BY <2>1, <3>1, <3>2 DEF BackoffForgotten, Queued
  <2>4. CASE LookupNetwork(w) \/ SyncNetwork(w)
    <3>1. /\ wpc[w] \in {"lookup", "apply"}
          /\ \E pc \in {"apply", "forget"} : wpc' = [wpc EXCEPT ![w] = pc]
          /\ failed' = failed \/ failed' = failed \ {item[w]}
          /\ UNCHANGED <<stopped, requeues, waiting, dirty, item>>
      BY <2>4 DEF LookupNetwork, SyncNetwork, WorkerAt
    <3> QED
      BY <2>1, <3>1 DEF BackoffForgotten, Queued
  <2>5. CASE LookupFails(w)
    <3>1. /\ wpc[w] = "lookup" /\ wpc' = [wpc EXCEPT ![w] = "failed"]
          /\ failed' = failed \cup {item[w]}
          /\ UNCHANGED <<stopped, requeues, waiting, dirty, item>>
      BY <2>5 DEF LookupFails, WorkerAt
    <3> QED
      BY <2>1, <3>1 DEF BackoffForgotten, Queued
  <2>6. CASE ForgetItem(w)
    <3>1. /\ wpc[w] = "forget" /\ wpc' = [wpc EXCEPT ![w] = "done"]
          /\ requeues' = [requeues EXCEPT ![item[w]] = 0]
          /\ UNCHANGED <<stopped, failed, waiting, dirty, item>>
      BY <2>6 DEF ForgetItem, Forget, WorkerAt
    <3> QED
      BY <2>1, <3>1 DEF BackoffForgotten, Queued
  <2>7. CASE FinishItem(w)
    <3>1. /\ wpc[w] \in {"done", "failed"} /\ wpc' = [wpc EXCEPT ![w] = "get"]
          /\ item' = [item EXCEPT ![w] = None]
          /\ UNCHANGED <<stopped, failed, requeues, waiting, dirty>>
      BY <2>7 DEF FinishItem, Done, WorkerAt
    <3> QED
      BY <2>1, <3>1 DEF BackoffForgotten, Queued
  <2> QED
    BY <1>6, <2>2, <2>3, <2>4, <2>5, <2>6, <2>7 DEF processNextWorkItem
<1>7. CASE LaunchWorkers
  <2>1. \A w \in Workers : wpc[w] = "off"
    BY <1>7 DEF LaunchWorkers, OffUntilLaunched
  <2>2. UNCHANGED <<stopped, failed, requeues, waiting, dirty, item>>
    BY <1>7 DEF LaunchWorkers
  <2> QED
    BY <2>1, <2>2 DEF BackoffForgotten, Queued
<1>8. CASE RunReturns
  BY <1>8 DEF RunReturns, ShutDown, BackoffForgotten
<1>9. CASE Signal
  BY <1>9 DEF Signal, BackoffForgotten
<1>10. CASE MainReturns \/ SecondSignal \/ ProcessKilled
  BY <1>10, BackoffUnchanged
     DEF MainReturns, SecondSignal, ProcessKilled, ProcessEnds
<1>11. CASE ProcessStarts
  BY <1>11 DEF ProcessStarts, ResetQueue, BackoffForgotten
<1>12. CASE UNCHANGED vars
  BY <1>12, BackoffUnchanged
<1> QED
  BY <1>1, <1>2, <1>3, <1>4, <1>5, <1>6, <1>7, <1>8, <1>9, <1>10, <1>11, <1>12
     DEF Next

(* While the process runs, the rate limiter counts no key that nothing is  *)
(* left to do for: a success resets the back-off (Forget in               *)
(* processNextWorkItem), however calls of the handlers come in between.    *)
THEOREM BackoffIsForgotten == Spec => []BackoffForgotten
<1>1. Init => BackoffForgotten
  BY DEF Init, EmptyQueue, BackoffForgotten
<1>2. Inv /\ BackoffForgotten /\ [Next]_vars => BackoffForgotten'
  BY BackoffStep
<1> QED
  BY <1>1, <1>2, InvAlways, PTL DEF Spec

-----------------------------------------------------------------------------
(* Versions.                                                               *)

\* A Network that is there in two places was acted on, read, cached and
\* written in this order; 0 says that one of the places does not have it.
VersionsOf(k) ==
  /\ api[k] <= lastGen /\ cache[k] <= lastGen /\ handled[k] <= lastGen
  /\ api[k] # 0 => cache[k] <= api[k] /\ handled[k] <= api[k]
  /\ cache[k] # 0 => handled[k] <= cache[k]

ViewOf(w) ==
  wpc[w] = "apply" =>
    /\ view[w] <= lastGen
    /\ api[item[w]] # 0 => view[w] <= api[item[w]]
    /\ cache[item[w]] # 0 => view[w] <= cache[item[w]]
    /\ view[w] # 0 => handled[item[w]] <= view[w]

VersionsInOrder ==
  (\A k \in Keys : VersionsOf(k)) /\ (\A w \in Workers : ViewOf(w))

LEMMA VersionTypes ==
  ASSUME TypeOK
  PROVE  /\ api \in [Keys -> Nat] /\ cache \in [Keys -> Nat]
         /\ handled \in [Keys -> Nat] /\ view \in [Workers -> Nat]
         /\ lastGen \in Nat
<1>1. Gens \subseteq Nat
  BY ConstantsOK DEF Gens
<1> QED
  BY <1>1 DEF TypeOK

LEMMA VersionsUnchanged ==
  ASSUME VersionsInOrder,
         UNCHANGED <<api, lastGen, cache, handled, wpc, item, view>>
  PROVE  VersionsInOrder'
BY DEF VersionsInOrder, VersionsOf, ViewOf

(* What a worker acts on is never older than what was acted on before: a   *)
(* version reaches the API server, the cache, a worker and the handled     *)
(* state in this order, and no second worker has the key meanwhile.        *)
LEMMA VersionsStep ==
  ASSUME Inv, VersionsInOrder, [Next]_vars
  PROVE  VersionsInOrder'
<1> USE DEF Inv, VersionsInOrder
<1>1. /\ api \in [Keys -> Nat] /\ cache \in [Keys -> Nat]
      /\ handled \in [Keys -> Nat] /\ view \in [Workers -> Nat]
      /\ lastGen \in Nat
      /\ wpc \in [Workers -> WorkerPcs]
      /\ \A w \in Workers :
           wpc[w] \in {"lookup", "apply"} => item[w] \in Keys
  BY VersionTypes, ConstantsOK DEF TypeOK, Idle
<1>2. ASSUME NEW k \in Keys, CreateNetwork(k) \/ UpdateNetwork(k)
      PROVE  VersionsInOrder'
  BY <1>1, <1>2 DEF CreateNetwork, UpdateNetwork, Write, VersionsOf, ViewOf
<1>3. ASSUME NEW k \in Keys, DeleteNetwork(k)
      PROVE  VersionsInOrder'
  BY <1>1, <1>3 DEF DeleteNetwork, VersionsOf, ViewOf
<1>4. ASSUME NEW k \in Keys,
             \/ ObserveAdd(k) \/ ObserveUpdate(k) \/ ObserveDelete(k)
             \/ Resync(k)
      PROVE  VersionsInOrder'
  <2>1. PICK n \in Notes :
          /\ n.key = k /\ Notify(n) /\ n.new \in {api[k], cache[k]}
    BY <1>4, ObservedNotes
  <2>2. /\ cache' = [cache EXCEPT ![k] = n.new]
        /\ UNCHANGED <<api, lastGen, handled, wpc, item, view>>
    BY <2>1 DEF Notify
  <2> QED
    BY <1>1, <2>1, <2>2 DEF VersionsOf, ViewOf
<1>5. ASSUME NEW k \in Keys, DelayOver(k)
      PROVE  VersionsInOrder'
  BY <1>5, VersionsUnchanged DEF DelayOver
<1>6. CASE CacheSynced \/ HandleEvent
  BY <1>6, VersionsUnchanged DEF CacheSynced, HandleEvent
<1>7. ASSUME NEW w \in Workers, UntilLoop(w) \/ processNextWorkItem(w)
      PROVE  VersionsInOrder'
  <2>1. /\ UNCHANGED <<api, lastGen, cache>>
        /\ \E to \in WorkerPcs : wpc' = [wpc EXCEPT ![w] = to]
    BY <1>7 DEF UntilLoop, processNextWorkItem, TakeItem, TakeShutdown,
       LookupNetwork, LookupFails, SyncNetwork, ForgetItem, FinishItem,
       WorkerAt, WorkerPcs
  <2>2. CASE LookupNetwork(w)
    <3>1. /\ wpc[w] = "lookup" /\ UNCHANGED <<handled, item>>
          /\ view' = [view EXCEPT ![w] = cache[item[w]]]
      BY <2>2 DEF LookupNetwork, WorkerAt
    <3> QED
      BY <1>1, <2>1, <3>1 DEF VersionsOf, ViewOf
  <2>3. CASE SyncNetwork(w)
    <3>1. PICK k \in Keys : item[w] = k /\ wpc[w] = "apply"
      BY <1>1, <2>3 DEF SyncNetwork, WorkerAt
    <3>2. /\ handled' = [handled EXCEPT ![k] = view[w]]
          /\ wpc' = [wpc EXCEPT ![w] = "forget"] /\ UNCHANGED <<item, view>>
      BY <2>3, <3>1 DEF SyncNetwork, WorkerAt
    <3>3. \A v \in Workers \ {w} : item[v] # k
      BY <3>1, ConstantsOK DEF ExclusionInv, OneWorkerPerKey
    <3>4. \A v \in Workers : ViewOf(v)'
      BY <1>1, <2>1, <3>1, <3>2, <3>3 DEF ViewOf
    <3>5. \A j \in Keys : VersionsOf(j)'
      BY <1>1, <2>1, <3>1, <3>2 DEF VersionsOf, ViewOf
    <3> QED
      BY <3>4, <3>5
  <2>4. CASE \/ UntilLoop(w) \/ TakeItem(w) \/ TakeShutdown(w)
             \/ LookupFails(w) \/ ForgetItem(w) \/ FinishItem(w)
    <3>1. /\ \E to \in WorkerPcs \ {"apply"} : wpc' = [wpc EXCEPT ![w] = to]
          /\ \A v \in Workers \ {w} : item'[v] = item[v] /\ view'[v] = view[v]
          /\ handled' = handled
      BY <2>4 DEF TypeOK, UntilLoop, TakeItem, TakeShutdown, LookupFails,
         ForgetItem, FinishItem, WorkerAt, WorkerPcs
    <3> QED
      BY <1>1, <2>1, <3>1 DEF VersionsOf, ViewOf
  <2> QED
    BY <1>7, <2>2, <2>3, <2>4 DEF processNextWorkItem
<1>8. CASE LaunchWorkers \/ ProcessStarts
  <2>1. \A w \in Workers : wpc'[w] # "apply"
    BY <1>8 DEF LaunchWorkers, ProcessStarts
  <2>2. /\ UNCHANGED <<api, lastGen, handled>>
        /\ cache' = cache \/ cache' = [k \in Keys |-> 0]
    BY <1>8 DEF LaunchWorkers, ProcessStarts
  <2> QED
    BY <1>1, <2>1, <2>2 DEF VersionsOf, ViewOf
<1>9. CASE RunReturns \/ Signal \/ MainReturns \/ SecondSignal \/ ProcessKilled
  BY <1>9, VersionsUnchanged
     DEF RunReturns, Signal, MainReturns, SecondSignal, ProcessKilled, ProcessEnds
<1>10. CASE UNCHANGED vars
  BY <1>10, VersionsUnchanged
<1> QED
  BY <1>2, <1>3, <1>4, <1>5, <1>6, <1>7, <1>8, <1>9, <1>10 DEF Next

LEMMA VersionsAlways == Spec => []VersionsInOrder
<1>1. Init => VersionsInOrder
  BY DEF Init, VersionsInOrder, VersionsOf, ViewOf
<1>2. Inv /\ VersionsInOrder /\ [Next]_vars => VersionsInOrder'
  BY VersionsStep
<1> QED
  BY <1>1, <1>2, InvAlways, PTL DEF Spec

(* syncHandler never acts on a version older than one it has acted on,      *)
(* across workers and across processes, although it acts on a copy.        *)
THEOREM NeverGoesBack == Spec => HandledNeverGoesBack
<1> DEFINE A == \A k \in Keys :
       handled[k] # 0 /\ handled'[k] # 0 => handled'[k] >= handled[k]
<1>1. Inv /\ VersionsInOrder /\ [Next]_vars => [A]_vars
  <2> SUFFICES ASSUME Inv, VersionsInOrder, [Next]_vars PROVE A
    OBVIOUS
  <2>1. handled \in [Keys -> Nat]
    BY VersionTypes DEF Inv
  <2>2. ASSUME NEW w \in Workers, SyncNetwork(w) PROVE A
    <3>1. /\ item[w] \in Keys /\ wpc[w] = "apply" /\ view[w] \in Nat
          /\ handled' = [handled EXCEPT ![item[w]] = view[w]]
      BY <2>2, VersionTypes DEF SyncNetwork, WorkerAt, Inv, TypeOK, Idle
    <3> QED
      BY <2>1, <3>1 DEF VersionsInOrder, ViewOf
  <2>3. CASE handled' = handled
    BY <2>1, <2>3
  <2>4. handled' = handled \/ \E w \in Workers : SyncNetwork(w)
    BY ObservedNotes
       DEF Inv, Next, CreateNetwork, UpdateNetwork, DeleteNetwork, Write, Notify,
       DelayOver, CacheSynced, HandleEvent, UntilLoop, processNextWorkItem,
       TakeItem, TakeShutdown, LookupNetwork, LookupFails, ForgetItem,
       FinishItem, LaunchWorkers, RunReturns, Signal, MainReturns,
       SecondSignal, ProcessKilled, ProcessEnds, ProcessStarts
  <2> QED
    BY <2>2, <2>3, <2>4
<1> QED
  BY <1>1, InvAlways, VersionsAlways, PTL DEF Spec, HandledNeverGoesBack

-----------------------------------------------------------------------------
(* NetworkController implements Reconcile, and so it loses no change.      *)

\* The step is one of Reconcile's, or one it does not see.
Refines == Promise!Next \/ UNCHANGED Promise!abstractVars

(* The notification queued by the informer owes its key a sync, unless it is *)
(* the update of a resync.                                                 *)
LEMMA NotedAfterNotify ==
  ASSUME TypeOK, NEW n \in Notes, Notify(n), NEW k \in Keys
  PROVE  Noted(k)' <=> Noted(k) \/ (n.key = k /\ WillEnqueue(n))
<1>1. /\ Len(notes') = Len(notes) + 1 /\ Len(notes) \in Nat
      /\ \A i \in 1..Len(notes) : notes'[i] = notes[i]
      /\ notes'[Len(notes) + 1] = n
  BY AppendFacts DEF TypeOK, Notify
<1>2. ASSUME Noted(k)
      PROVE  Noted(k)'
  BY <1>1, <1>2 DEF Noted, WillEnqueue
<1>3. ASSUME n.key = k, WillEnqueue(n)
      PROVE  Noted(k)'
  BY <1>1, <1>3 DEF Noted, WillEnqueue
<1>4. ASSUME Noted(k)', ~(n.key = k /\ WillEnqueue(n))
      PROVE  Noted(k)
  <2>1. PICK i \in 1..Len(notes') : notes'[i].key = k /\ WillEnqueue(notes'[i])
    BY <1>4 DEF Noted, WillEnqueue
  <2>2. i \in 1..Len(notes)
    BY <1>1, <1>4, <2>1
  <2> QED
    BY <1>1, <2>1, <2>2 DEF Noted
<1> QED
  BY <1>2, <1>3, <1>4

(* Delivering a notification takes only that one off.                      *)
LEMMA NotedAfterHandle ==
  ASSUME TypeOK, HandleEvent, NEW k \in Keys
  PROVE  Noted(k) <=>
           \/ Noted(k)'
           \/ Head(notes).key = k /\ WillEnqueue(Head(notes))
<1>1. /\ Len(notes') = Len(notes) - 1 /\ Len(notes) \in Nat \ {0}
      /\ \A i \in 1..Len(notes) - 1 : notes'[i] = notes[i + 1]
      /\ Head(notes) = notes[1]
  BY TailFacts DEF TypeOK, HandleEvent
<1>2. ASSUME Noted(k)'
      PROVE  Noted(k)
  <2>1. PICK i \in 1..Len(notes') : notes'[i].key = k /\ WillEnqueue(notes'[i])
    BY <1>2 DEF Noted, WillEnqueue
  <2>2. i + 1 \in 1..Len(notes) /\ notes'[i] = notes[i + 1]
    BY <1>1
  <2> QED
    BY <2>1, <2>2 DEF Noted
<1>3. ASSUME Head(notes).key = k, WillEnqueue(Head(notes))
      PROVE  Noted(k)
  BY <1>1, <1>3 DEF Noted
<1>4. ASSUME Noted(k), ~(Head(notes).key = k /\ WillEnqueue(Head(notes)))
      PROVE  Noted(k)'
  <2>1. PICK i \in 1..Len(notes) : notes[i].key = k /\ WillEnqueue(notes[i])
    BY <1>4 DEF Noted
  <2>2. i # 1
    BY <1>1, <1>4, <2>1
  <2>3. i - 1 \in 1..Len(notes') /\ notes'[i - 1] = notes[(i - 1) + 1]
    BY <1>1, <2>2
  <2>4. notes'[i - 1] = notes[i]
    BY <2>3
  <2> QED
    BY <2>1, <2>3, <2>4 DEF Noted, WillEnqueue
<1> QED
  BY <1>2, <1>3, <1>4

(* Steps that leave alone what Reconcile sees.                             *)
LEMMA Unseen ==
  ASSUME UNCHANGED <<cache, notes, waiting, dirty, wpc, item, view, handled,
                     failed, stopped, restarts>>
  PROVE  Refines
<1>1. Owed' = Owed /\ Acting' = Acting
  BY DEF Owed, Noted, WillEnqueue, Queued, Reading, Acting
<1> QED
  BY <1>1 DEF Refines, Promise!abstractVars, Owed, Acting

LEMMA ObserveRefines ==
  ASSUME Inv, NEW k \in Keys,
         \/ ObserveAdd(k) \/ ObserveUpdate(k) \/ ObserveDelete(k) \/ Resync(k)
  PROVE  Refines
<1> USE DEF Inv
<1>1. PICK n \in Notes :
        /\ n.key = k /\ n.old = cache[k] /\ Notify(n)
        /\ \/ WillEnqueue(n) /\ n.new # cache[k] /\ n.new = api[k]
           \/ ~WillEnqueue(n) /\ n.new = cache[k]
  BY ObservedNotes
<1>2. /\ Acting' = Acting
      /\ \A j \in Keys : Queued(j)' <=> Queued(j)
      /\ \A j \in Keys : Reading(j)' <=> Reading(j)
  <2>1. UNCHANGED <<waiting, dirty, wpc, item, view>>
    BY <1>1 DEF Notify
  <2> QED
    BY <2>1 DEF Acting, Queued, Reading
<1>3. \A j \in Keys : Noted(j)' <=> Noted(j) \/ (k = j /\ WillEnqueue(n))
  BY <1>1, NotedAfterNotify
<1>4. cache \in [Keys -> Gens] /\ api[k] \in Gens
  BY DEF TypeOK
<1>5. CASE WillEnqueue(n) /\ n.new # cache[k] /\ n.new = api[k]
  <2>1. Owed' = Owed \cup {k}
    BY <1>2, <1>3, <1>5 DEF Owed
  <2>2. \E v \in Gens \ {cache[k]} : cache' = [cache EXCEPT ![k] = v]
    BY <1>1, <1>4, <1>5 DEF Notify
  <2>3. UNCHANGED <<handled, failed, stopped, restarts>>
    BY <1>1 DEF Notify
  <2>4. Promise!Change(k)
    BY <1>2, <2>1, <2>2, <2>3 DEF Promise!Change, Owed, Acting
  <2> QED
    BY <2>4 DEF Refines, Promise!Next
<1>6. CASE ~WillEnqueue(n) /\ n.new = cache[k]
  <2>1. Owed' = Owed
    BY <1>2, <1>3, <1>6 DEF Owed
  <2>2. cache' = cache
    BY <1>1, <1>4, <1>6 DEF Notify
  <2>3. UNCHANGED <<handled, failed, stopped, restarts>>
    BY <1>1 DEF Notify
  <2> QED
    BY <1>2, <2>1, <2>2, <2>3 DEF Refines, Promise!abstractVars, Owed, Acting
<1> QED
  BY <1>1, <1>5, <1>6

(* The queue turns what is noted into what is queued; once it is shut down   *)
(* it refuses, and only a controller that was told to stop is shut down.    *)
LEMMA HandleRefines ==
  ASSUME Inv, HandleEvent
  PROVE  Refines
<1> USE DEF Inv
<1> DEFINE n == Head(notes)
<1>1. n \in Notes /\ n.key \in Keys
  BY HandlerCalls DEF Notes
<1>2. \A j \in Keys : Noted(j) <=> Noted(j)' \/ (n.key = j /\ WillEnqueue(n))
  BY NotedAfterHandle
<1>3. UNCHANGED <<cache, dirty, wpc, item, view, handled, failed, stopped,
                  restarts>>
  BY HandlerCalls DEF HandleEvent, AddRateLimited
<1>4. Acting' = Acting
  BY <1>3 DEF Acting
<1>5. \A j \in Keys : Reading(j)' <=> Reading(j)
  BY <1>3 DEF Reading
<1>6. waiting' = IF WillEnqueue(n) /\ ~shuttingDown THEN waiting \cup {n.key}
                                                    ELSE waiting
  BY HandlerCalls DEF AddRateLimited
<1>7. CASE Owed' = Owed
  BY <1>3, <1>4, <1>7 DEF Refines, Promise!abstractVars, Owed, Acting
<1>8. CASE Owed' # Owed
  <2>1. Owed' \subseteq Owed
    BY <1>2, <1>3, <1>5, <1>6 DEF Owed, Queued
  <2>2. ~WillEnqueue(n) \/ ~shuttingDown => Owed' = Owed
    BY <1>2, <1>3, <1>5, <1>6 DEF Owed, Queued
  <2>3. stopped
    BY <1>8, <2>2
  <2>4. Promise!Drop
    BY <1>3, <1>4, <2>1, <2>3 DEF Promise!Drop, Owed, Acting
  <2> QED
    BY <2>4 DEF Refines, Promise!Next
<1> QED
  BY <1>7, <1>8

LEMMA DelayRefines ==
  ASSUME Inv, NEW k \in Keys, DelayOver(k)
  PROVE  Refines
<1>1. /\ UNCHANGED <<cache, notes, wpc, item, view, handled, failed, stopped,
                     restarts>>
      /\ waiting' \cup dirty' = waiting \cup dirty
  BY DEF DelayOver, WaitingLoop
<1>2. Owed' = Owed
  <2>1. \A j \in Keys : (Queued(j)' <=> Queued(j)) /\ (Noted(j)' <=> Noted(j))
    BY <1>1 DEF Queued, Noted, WillEnqueue
  <2>2. \A j \in Keys : Reading(j)' <=> Reading(j)
    BY <1>1 DEF Reading
  <2> QED
    BY <2>1, <2>2 DEF Owed
<1>3. Acting' = Acting
  BY <1>1 DEF Acting
<1> QED
  BY <1>1, <1>2, <1>3 DEF Refines, Promise!abstractVars, Owed, Acting

(* A worker that is neither reading nor about to act, before or after its   *)
(* step, does nothing Reconcile sees.                                      *)
LEMMA IdleWorkerRefines ==
  ASSUME Inv, NEW w \in Workers,
         wpc[w] \notin {"lookup", "apply"},
         NEW pc \in WorkerPcs \ {"lookup", "apply"},
         wpc' = [wpc EXCEPT ![w] = pc],
         \A v \in Workers \ {w} : item'[v] = item[v] /\ view'[v] = view[v],
         UNCHANGED <<cache, notes, waiting, dirty, handled, failed, stopped,
                     restarts>>
  PROVE  Refines
<1>1. wpc \in [Workers -> WorkerPcs]
  BY DEF Inv, TypeOK
<1>2. \A j \in Keys : (Queued(j)' <=> Queued(j)) /\ (Noted(j)' <=> Noted(j))
  BY DEF Queued, Noted, WillEnqueue
<1>3. \A j \in Keys : Reading(j)' <=> Reading(j)
  BY <1>1 DEF Reading
<1>4. Owed' = Owed
  BY <1>2, <1>3 DEF Owed
<1>5. Acting' = Acting
  <2>1. \A v \in Workers : wpc'[v] = "apply" <=> wpc[v] = "apply"
    BY <1>1
  <2>2. \A v \in Workers : wpc[v] = "apply" =>
          item'[v] = item[v] /\ view'[v] = view[v]
    OBVIOUS
  <2> QED
    BY <2>1, <2>2 DEF Acting
<1> QED
  BY <1>4, <1>5 DEF Refines, Promise!abstractVars, Owed, Acting

(* Taking a key off the queue leaves it owed: the worker will read it.     *)
LEMMA TakeRefines ==
  ASSUME Inv, NEW w \in Workers, TakeItem(w)
  PROVE  Refines
<1> USE DEF Inv
<1>1. PICK k \in Keys : Get(k) /\ item' = [item EXCEPT ![w] = k]
  BY DEF TakeItem
<1>2. k \in dirty
  BY <1>1, TailFacts DEF Get, TypeOK, QueueTypeOK, ExclusionInv, QueueConsistent
<1>3. /\ item \in [Workers -> Keys \cup {None}] /\ wpc \in [Workers -> WorkerPcs]
      /\ wpc[w] = "get" /\ wpc' = [wpc EXCEPT ![w] = "lookup"]
      /\ item[w] = None
      /\ dirty' = dirty \ {k}
  BY <1>1 DEF TakeItem, WorkerAt, TypeOK, Idle, Get
<1>4. UNCHANGED <<cache, notes, waiting, view, handled, failed, stopped,
                  restarts>>
  BY <1>1 DEF TakeItem, WorkerAt, Get
<1>5. \A j \in Keys : Noted(j)' <=> Noted(j)
  BY <1>4 DEF Noted, WillEnqueue
<1>6. \A j \in Keys \ {k} : (Queued(j)' <=> Queued(j)) /\ (Reading(j)' <=> Reading(j))
  <2>1. \A j \in Keys \ {k} : Queued(j)' <=> Queued(j)
    BY <1>3, <1>4 DEF Queued
  <2>2. \A j \in Keys \ {k} : Reading(j)' <=> Reading(j)
    BY <1>1, <1>3 DEF Reading
  <2> QED
    BY <2>1, <2>2
<1>7. Queued(k) /\ Reading(k)'
  BY <1>1, <1>2, <1>3 DEF Queued, Reading
<1>8. Owed' = Owed
  BY <1>5, <1>6, <1>7 DEF Owed
<1>9. Acting' = Acting
  <2>1. \A v \in Workers : wpc'[v] = "apply" <=> wpc[v] = "apply"
    BY <1>3
  <2>2. \A v \in Workers : wpc[v] = "apply" => item'[v] = item[v]
    BY <1>1, <1>3
  <2> QED
    BY <1>4, <2>1, <2>2 DEF Acting
<1> QED
  BY <1>4, <1>8, <1>9 DEF Refines, Promise!abstractVars, Owed, Acting

(* Reading the cache is the beginning of a sync, or its failure: no other  *)
(* worker has the key, and the key stays owed only for another reason.     *)
LEMMA LookupRefines ==
  ASSUME Inv, NEW w \in Workers, LookupNetwork(w) \/ LookupFails(w)
  PROVE  Refines
<1> USE DEF Inv
<1>1. PICK k \in Keys :
        /\ item[w] = k /\ wpc[w] = "lookup" /\ wpc \in [Workers -> WorkerPcs]
        /\ view \in [Workers -> Gens]
  BY DEF LookupNetwork, LookupFails, WorkerAt, TypeOK, Idle
<1>2. \A v \in Workers \ {w} : item[v] # k
  BY <1>1, ConstantsOK DEF ExclusionInv, OneWorkerPerKey
<1>3. k \in Owed
  BY <1>1 DEF Owed, Reading
<1>4. \A p \in Acting : p[1] # k
  BY <1>1, <1>2 DEF Acting
<1>5. Promise!MayBegin(k)
  BY <1>3, <1>4 DEF Promise!MayBegin, Owed, Acting
<1>6. UNCHANGED <<cache, notes, waiting, dirty, item, handled, stopped,
                  restarts>>
  BY DEF LookupNetwork, LookupFails, WorkerAt
<1>7. \A v \in Workers \ {w} : wpc'[v] = wpc[v] /\ view'[v] = view[v]
  BY <1>1 DEF LookupNetwork, LookupFails, WorkerAt
<1>8. Owed' \in {Owed, Owed \ {k}}
  <2>1. \A j \in Keys : (Queued(j)' <=> Queued(j)) /\ (Noted(j)' <=> Noted(j))
    BY <1>6 DEF Queued, Noted, WillEnqueue
  <2>2. \A j \in Keys \ {k} : Reading(j)' <=> Reading(j)
    BY <1>1, <1>6, <1>7 DEF Reading
  <2>3. \A j \in Keys \ {k} : j \in Owed' <=> j \in Owed
    BY <2>1, <2>2 DEF Owed
  <2>4. Owed' \subseteq Keys /\ Owed \subseteq Keys
    BY DEF Owed
  <2>5. CASE k \in Owed'
    BY <1>3, <2>3, <2>4, <2>5
  <2>6. CASE k \notin Owed'
    BY <2>3, <2>4, <2>6
  <2> QED
    BY <2>5, <2>6
<1>9. CASE LookupNetwork(w)
  <2>1. /\ wpc' = [wpc EXCEPT ![w] = "apply"] /\ failed' = failed
        /\ view' = [view EXCEPT ![w] = cache[k]]
    BY <1>1, <1>9 DEF LookupNetwork, WorkerAt
  <2>2. Acting' = Acting \cup {<<k, cache[k]>>}
    <3>1. \A v \in Workers : wpc'[v] = "apply" <=> v = w \/ wpc[v] = "apply"
      BY <1>1, <2>1
    <3>2. view'[w] = cache[k]
      BY <1>1, <2>1
    <3>3. item' = item
      BY <1>6
    <3> QED
      BY <1>1, <1>7, <3>1, <3>2, <3>3 DEF Acting
  <2>3. Promise!Begin(k)
    BY <1>5, <1>6, <1>8, <2>1, <2>2
       DEF Promise!Begin, Promise!MaySettle, Owed, Acting
  <2>4. \E j \in Keys : Promise!Begin(j)
    BY <2>3
  <2> QED
    BY <2>4 DEF Refines, Promise!Next
<1>10. CASE LookupFails(w)
  <2>1. /\ wpc' = [wpc EXCEPT ![w] = "failed"] /\ view' = view
        /\ failed' = failed \cup {k}
    BY <1>1, <1>10 DEF LookupFails, WorkerAt
  <2>2. Acting' = Acting
    <3>1. \A v \in Workers : wpc'[v] = "apply" <=> wpc[v] = "apply"
      BY <1>1, <2>1
    <3> QED
      BY <1>6, <2>1, <3>1 DEF Acting
  <2>3. Promise!Fail(k)
    BY <1>5, <1>6, <1>8, <2>1, <2>2
       DEF Promise!Fail, Promise!MaySettle, Owed, Acting
  <2> QED
    BY <1>1, <2>3 DEF Refines, Promise!Next
<1> QED
  BY <1>9, <1>10

(* Acting ends the one sync the key has.                                   *)
LEMMA SyncRefines ==
  ASSUME Inv, NEW w \in Workers, SyncNetwork(w)
  PROVE  Refines
<1> USE DEF Inv
<1>1. PICK k \in Keys :
        /\ item[w] = k /\ view[w] \in Gens /\ wpc[w] = "apply"
        /\ wpc \in [Workers -> WorkerPcs]
        /\ wpc' = [wpc EXCEPT ![w] = "forget"]
  BY DEF SyncNetwork, WorkerAt, TypeOK, Idle
<1>2. /\ UNCHANGED <<cache, notes, waiting, dirty, item, view, stopped, restarts>>
      /\ handled' = [handled EXCEPT ![k] = view[w]]
      /\ failed' = failed \ {k}
  BY <1>1 DEF SyncNetwork, WorkerAt
<1>3. \A v \in Workers \ {w} : item[v] # k
  BY <1>1, ConstantsOK DEF ExclusionInv, OneWorkerPerKey
<1>4. Owed' = Owed
  <2>1. \A j \in Keys : (Queued(j)' <=> Queued(j)) /\ (Noted(j)' <=> Noted(j))
    BY <1>2 DEF Queued, Noted, WillEnqueue
  <2>2. \A j \in Keys : Reading(j)' <=> Reading(j)
    BY <1>1, <1>2 DEF Reading
  <2> QED
    BY <2>1, <2>2 DEF Owed
<1>5. <<k, view[w]>> \in Acting
  BY <1>1 DEF Acting
<1>6. Acting' = Acting \ {<<k, view[w]>>}
  <2>1. \A v \in Workers : wpc'[v] = "apply" <=> v # w /\ wpc[v] = "apply"
    BY <1>1
  <2>2. Acting' \subseteq Acting \ {<<k, view[w]>>}
    BY <1>2, <1>3, <2>1 DEF Acting
  <2>3. Acting \ {<<k, view[w]>>} \subseteq Acting'
    BY <1>1, <1>2, <2>1 DEF Acting
  <2> QED
    BY <2>2, <2>3
<1>7. Promise!Act(k)
  BY <1>1, <1>2, <1>4, <1>5, <1>6 DEF Promise!Act, Owed, Acting
<1>8. \E j \in Keys : Promise!Act(j)
  BY <1>7
<1> QED
  BY <1>8 DEF Refines, Promise!Next

LEMMA WorkerRefines ==
  ASSUME Inv, NEW w \in Workers, UntilLoop(w) \/ processNextWorkItem(w)
  PROVE  Refines
<1>1. CASE TakeItem(w)
  BY <1>1, TakeRefines
<1>2. CASE LookupNetwork(w) \/ LookupFails(w)
  BY <1>2, LookupRefines
<1>3. CASE SyncNetwork(w)
  BY <1>3, SyncRefines
<1>4. CASE UntilLoop(w) \/ TakeShutdown(w) \/ ForgetItem(w)
  <2>1. /\ wpc[w] \notin {"lookup", "apply"}
        /\ \E pc \in WorkerPcs \ {"lookup", "apply"} :
             wpc' = [wpc EXCEPT ![w] = pc]
    BY <1>4 DEF UntilLoop, TakeShutdown, ForgetItem, WorkerAt, WorkerPcs
  <2>2. UNCHANGED <<cache, notes, waiting, dirty, handled, failed, stopped,
                    restarts, item, view>>
    BY <1>4 DEF UntilLoop, TakeShutdown, GetShutdown, ForgetItem, Forget, WorkerAt
  <2> QED
    BY <2>1, <2>2, IdleWorkerRefines
<1>5. CASE FinishItem(w)
  <2>1. wpc[w] \notin {"lookup", "apply"} /\ wpc' = [wpc EXCEPT ![w] = "get"]
    BY <1>5 DEF FinishItem, WorkerAt
  <2>2. \A v \in Workers \ {w} : item'[v] = item[v] /\ view'[v] = view[v]
    BY <1>5 DEF FinishItem, Inv, TypeOK
  <2>3. UNCHANGED <<cache, notes, waiting, dirty, handled, failed, stopped,
                    restarts>>
    BY <1>5 DEF FinishItem, Done, WorkerAt
  <2>4. "get" \in WorkerPcs \ {"lookup", "apply"}
    BY DEF WorkerPcs
  <2> QED
    BY <2>1, <2>2, <2>3, <2>4, IdleWorkerRefines
<1> QED
  BY <1>1, <1>2, <1>3, <1>4, <1>5 DEF processNextWorkItem

(* Run, main and the signals: launching starts nothing yet, shutting down   *)
(* drops what was delayed, and a new process starts from nothing.          *)
LEMMA RunRefines ==
  ASSUME Inv,
         \/ LaunchWorkers \/ RunReturns \/ Signal \/ MainReturns
         \/ SecondSignal \/ ProcessKilled \/ ProcessStarts
  PROVE  Refines
<1>1. CASE LaunchWorkers
  <2>1. /\ \A v \in Workers : wpc[v] = "off" /\ wpc'[v] = "until"
        /\ UNCHANGED <<cache, notes, waiting, dirty, item, view, handled,
                       failed, stopped, restarts>>
    BY <1>1 DEF LaunchWorkers, Inv, OffUntilLaunched
  <2>2. Acting' = Acting
    BY <2>1 DEF Acting
  <2>3. Owed' = Owed
    BY <2>1 DEF Owed, Queued, Noted, WillEnqueue, Reading
  <2> QED
    BY <2>1, <2>2, <2>3 DEF Refines, Promise!abstractVars, Owed, Acting
<1>2. CASE RunReturns
  <2>1. /\ stopped /\ waiting' = {}
        /\ UNCHANGED <<cache, notes, dirty, wpc, item, view, handled,
                       failed, stopped, restarts>>
    BY <1>2 DEF RunReturns, ShutDown
  <2>2. Acting' = Acting
    BY <2>1 DEF Acting
  <2>3. Owed' \subseteq Owed
    BY <2>1 DEF Owed, Queued, Noted, WillEnqueue, Reading
  <2>4. Promise!Drop
    BY <2>1, <2>2, <2>3 DEF Promise!Drop, Owed, Acting
  <2> QED
    BY <2>4 DEF Refines, Promise!Next
<1>3. CASE Signal
  <2>1. /\ stopped' = TRUE
        /\ UNCHANGED <<cache, notes, waiting, dirty, wpc, item, view, handled,
                       failed, restarts>>
    BY <1>3 DEF Signal
  <2>2. Acting' = Acting
    BY <2>1 DEF Acting
  <2>3. Owed' = Owed
    BY <2>1 DEF Owed, Queued, Noted, WillEnqueue, Reading
  <2>4. Promise!Stop
    BY <2>1, <2>2, <2>3 DEF Promise!Stop, Owed, Acting
  <2> QED
    BY <2>4 DEF Refines, Promise!Next
<1>4. CASE MainReturns \/ SecondSignal \/ ProcessKilled
  BY <1>4, Unseen DEF MainReturns, SecondSignal, ProcessKilled, ProcessEnds
<1>5. CASE ProcessStarts
  <2>1. /\ cache' = [k \in Keys |-> 0] /\ notes' = <<>> /\ waiting' = {}
        /\ dirty' = {} /\ failed' = {} /\ stopped' = FALSE
        /\ handled' = handled /\ restarts' > 0
        /\ \A v \in Workers : wpc'[v] = "off"
    BY <1>5 DEF ProcessStarts, ResetQueue, Inv, TypeOK
  <2>2. Acting' = {}
    BY <2>1 DEF Acting
  <2>3. Owed' = {}
    BY <2>1 DEF Owed, Queued, Noted, Reading
  <2>4. Promise!Restart
    BY <2>1, <2>2, <2>3 DEF Promise!Restart, Owed, Acting
  <2> QED
    BY <2>4 DEF Refines, Promise!Next
<1> QED
  BY <1>1, <1>2, <1>3, <1>4, <1>5

LEMMA StepRefines ==
  ASSUME Inv, [Next]_vars
  PROVE  Refines
<1>1. ASSUME NEW k \in Keys,
             CreateNetwork(k) \/ UpdateNetwork(k) \/ DeleteNetwork(k)
      PROVE  Refines
  BY <1>1, Unseen DEF CreateNetwork, UpdateNetwork, DeleteNetwork, Write
<1>2. CASE CacheSynced
  BY <1>2, Unseen DEF CacheSynced
<1>3. CASE UNCHANGED vars
  BY <1>3, Unseen
<1> QED
  BY <1>1, <1>2, <1>3, ObserveRefines, HandleRefines, DelayRefines,
     WorkerRefines, RunRefines DEF Next

LEMMA InitRefines == Init => Promise!Init
<1> SUFFICES ASSUME Init PROVE Promise!Init
  OBVIOUS
<1>1. /\ notes = <<>> /\ waiting = {} /\ dirty = {}
      /\ \A v \in Workers : wpc[v] = "off"
  BY DEF Init, EmptyQueue
<1>2. Owed = {}
  BY <1>1 DEF Owed, Queued, Noted, Reading
<1>3. Acting = {}
  BY <1>1 DEF Acting
<1>4. /\ cache = [k \in Keys |-> 0] /\ handled = [k \in Keys |-> 0]
      /\ failed = {} /\ stopped = FALSE /\ ~(restarts > 0)
  BY DEF Init
<1> QED
  BY <1>2, <1>3, <1>4 DEF Promise!Init, Owed, Acting

(* Handlers, queue and workers implement a level triggered controller.     *)
THEOREM Implementation == Spec => ImplementsReconcile
<1>1. Inv /\ [Next]_vars => [Promise!Next]_(Promise!abstractVars)
  BY StepRefines DEF Refines
<1> QED
  BY <1>1, InitRefines, InvAlways, PTL DEF Spec, ImplementsReconcile, Promise!Spec

-----------------------------------------------------------------------------
(* What the promise of a level triggered controller is worth: a proof about *)
(* Reconcile alone, which uses no step of the queue or of a worker.        *)

PromiseTypes ==
  /\ cache \in [Keys -> Gens]
  /\ handled \in [Keys -> Gens]
  /\ Acting \subseteq Keys \X Gens

OneSync == \A p, q \in Acting : p[1] = q[1] => p = q

\* NothingForgotten alone is not inductive: Act may set handled to a version
\* that is no longer desired, and only StaleIsOwed says that the key is then
\* owed another sync.
PromiseInv == PromiseTypes /\ OneSync /\ Promise!StaleIsOwed /\ Promise!NothingForgotten

LEMMA PromiseInit ==
  ASSUME Promise!Init
  PROVE  PromiseInv
BY ConstantsOK
   DEF Gens, Promise!Init, PromiseInv, PromiseTypes, OneSync,
       Promise!StaleIsOwed, Promise!NothingForgotten

LEMMA PromiseStep ==
  ASSUME PromiseInv, [Promise!Next]_(Promise!abstractVars)
  PROVE  PromiseInv'
<1> USE DEF PromiseInv, PromiseTypes
<1>1. ASSUME NEW k \in Keys, Promise!Change(k)
      PROVE  PromiseInv'
  <2>1. PICK v \in Gens \ {cache[k]} :
               cache' = [cache EXCEPT ![k] = v]
    BY <1>1 DEF Promise!Change
  <2>2. PromiseTypes' /\ OneSync'
    BY <1>1, <2>1 DEF Promise!Change, OneSync
  <2>3. Promise!StaleIsOwed'
    BY <1>1, <2>1 DEF Promise!Change, Promise!StaleIsOwed
  <2>4. Promise!NothingForgotten'
    BY <1>1, <2>1 DEF Promise!Change, Promise!NothingForgotten
  <2> QED
    BY <2>2, <2>3, <2>4
<1>2. ASSUME NEW k \in Keys, Promise!Begin(k)
      PROVE  PromiseInv'
  <2>1. PromiseTypes' /\ OneSync'
    BY <1>2 DEF Promise!Begin, Promise!MayBegin, OneSync
  <2>2. Promise!StaleIsOwed'
    BY <1>2 DEF Promise!Begin, Promise!MayBegin, Promise!MaySettle, Promise!StaleIsOwed
  <2>3. Promise!NothingForgotten'
    BY <1>2 DEF Promise!Begin, Promise!MaySettle, Promise!NothingForgotten
  <2> QED
    BY <2>1, <2>2, <2>3
<1>3. ASSUME NEW k \in Keys, Promise!Act(k)
      PROVE  PromiseInv'
  <2>1. PICK v \in Gens : /\ <<k, v>> \in Acting
                              /\ Acting' = Acting \ {<<k, v>>}
                              /\ handled' = [handled EXCEPT ![k] = v]
    BY <1>3 DEF Promise!Act
  <2>2. PromiseTypes' /\ OneSync'
    BY <1>3, <2>1 DEF Promise!Act, OneSync
  <2>3. Promise!StaleIsOwed'
    BY <1>3, <2>1 DEF Promise!Act, Promise!StaleIsOwed
  <2>4. ~stopped => v = cache[k] \/ k \in Owed
    BY <2>1 DEF Promise!StaleIsOwed
  <2>5. Promise!NothingForgotten'
    BY <1>3, <2>1, <2>4 DEF Promise!Act, Promise!NothingForgotten
  <2> QED
    BY <2>2, <2>3, <2>5
<1>4. ASSUME NEW k \in Keys, Promise!Fail(k)
      PROVE  PromiseInv'
  <2>1. PromiseTypes' /\ OneSync'
    BY <1>4 DEF Promise!Fail, OneSync
  <2>2. Promise!StaleIsOwed'
    BY <1>4 DEF Promise!Fail, Promise!MayBegin, Promise!MaySettle, Promise!StaleIsOwed
  <2>3. Promise!NothingForgotten'
    BY <1>4 DEF Promise!Fail, Promise!MaySettle, Promise!NothingForgotten
  <2> QED
    BY <2>1, <2>2, <2>3
<1>5. CASE Promise!Stop \/ Promise!Drop
  BY <1>5 DEF Promise!Stop, Promise!Drop, OneSync, Promise!StaleIsOwed, Promise!NothingForgotten
<1>6. CASE Promise!Restart
  BY <1>6, ConstantsOK
     DEF Gens, Promise!Restart, OneSync, Promise!StaleIsOwed, Promise!NothingForgotten
<1>7. CASE UNCHANGED Promise!abstractVars
  BY <1>7 DEF Promise!abstractVars, OneSync, Promise!StaleIsOwed, Promise!NothingForgotten
<1> QED
  BY <1>1, <1>2, <1>3, <1>4, <1>5, <1>6, <1>7 DEF Promise!Next

(* Until it is told to stop, a level triggered controller owes a sync to, or *)
(* is about to act for, every key that is not at the cached version.     *)
THEOREM ForgetsNothing == Promise!Spec => []Promise!NothingForgotten
<1>1. PromiseInv /\ [Promise!Next]_(Promise!abstractVars) => PromiseInv'
  BY PromiseStep
<1>2. Promise!Init => PromiseInv
  BY PromiseInit
<1>3. PromiseInv => Promise!NothingForgotten
  BY DEF PromiseInv
<1> QED
  BY <1>1, <1>2, <1>3, PTL DEF Promise!Spec

(* No change to a Network is lost on its way to a worker.  What a level     *)
(* triggered controller guarantees, the controller guarantees.             *)
THEOREM NoChangeIsLost == Spec => []NoLostChange
<1>1. Promise!NothingForgotten => NoLostChange
  <2> SUFFICES ASSUME Promise!NothingForgotten, ~stopped,
                      NEW k \in Keys \ failed, cache[k] # handled[k]
               PROVE  \/ Noted(k) \/ Queued(k) \/ Reading(k) \/ ActingOnLatest(k)
                      \/ cache[k] = 0 /\ restarts > 0
    BY DEF NoLostChange
  <2>1. \/ k \in Owed
        \/ <<k, cache[k]>> \in Acting
        \/ cache[k] = 0 /\ restarts > 0
    BY DEF Promise!NothingForgotten
  <2>2. CASE <<k, cache[k]>> \in Acting
    BY <2>2 DEF Acting, ActingOnLatest
  <2> QED
    BY <2>1, <2>2 DEF Owed
<1> QED
  BY <1>1, ForgetsNothing, Implementation, PTL DEF ImplementsReconcile
=============================================================================

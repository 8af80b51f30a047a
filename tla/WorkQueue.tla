------------------------------ MODULE WorkQueue ------------------------------
(***************************************************************************)
(* The rate limited work queue of client-go, as controller.go uses it: the *)
(* handlers call AddRateLimited, the workers call Get, Forget and Done, and *)
(* Run calls ShutDown.  The library is not part of the repository; every   *)
(* operator below is one call (or the library's own background loop) and   *)
(* holds the queue's lock for its whole length, so it is one atomic step.  *)
(*                                                                         *)
(* Items are the namespace/name strings of Network resources.              *)
(***************************************************************************)
EXTENDS Naturals, Sequences

CONSTANT Keys           \* the namespace/name strings that can be enqueued

VARIABLES
  queue,                \* the keys ready to be taken, oldest first
  dirty,                \* the keys that need processing
  processing,           \* the keys taken by Get and not yet Done
  waiting,              \* the keys AddRateLimited is holding back
  requeues,             \* requeues[k]: what the rate limiter counts for k
  shuttingDown          \* ShutDown was called

queueVars == <<queue, dirty, processing, waiting, requeues, shuttingDown>>

QueueTypeOK ==
  /\ queue \in Seq(Keys)
  /\ dirty \subseteq Keys
  /\ processing \subseteq Keys
  /\ waiting \subseteq Keys
  /\ requeues \in [Keys -> Nat]
  /\ shuttingDown \in BOOLEAN

\* A new queue, as NewNamedRateLimitingQueue returns it.
EmptyQueue ==
  /\ queue = <<>>
  /\ dirty = {}
  /\ processing = {}
  /\ waiting = {}
  /\ requeues = [k \in Keys |-> 0]
  /\ shuttingDown = FALSE

\* The queue of a new process, as an effect.
ResetQueue ==
  /\ queue' = <<>>
  /\ dirty' = {}
  /\ processing' = {}
  /\ waiting' = {}
  /\ requeues' = [k \in Keys |-> 0]
  /\ shuttingDown' = FALSE

\* The limiter counts the call and always asks for a delay; a key already
\* held back stays held back once.
AddRateLimited(k) ==
  /\ requeues' = [requeues EXCEPT ![k] = @ + 1]
  /\ waiting' = IF shuttingDown THEN waiting ELSE waiting \cup {k}
  /\ UNCHANGED <<queue, dirty, processing, shuttingDown>>

\* The delay of k is over: the background loop adds it.  A key that is being
\* processed only becomes dirty; Done will queue it.
WaitingLoop(k) ==
  /\ k \in waiting
  /\ waiting' = waiting \ {k}
  /\ dirty' = dirty \cup {k}
  /\ queue' = IF k \in dirty \cup processing THEN queue ELSE Append(queue, k)
  /\ UNCHANGED <<processing, requeues, shuttingDown>>

\* Get returns the oldest ready key.
Get(k) ==
  /\ queue # <<>>
  /\ k = Head(queue)
  /\ queue' = Tail(queue)
  /\ processing' = processing \cup {k}
  /\ dirty' = dirty \ {k}
  /\ UNCHANGED <<waiting, requeues, shuttingDown>>

\* Get returns shutdown = true: what was queued has been drained.
GetShutdown ==
  /\ queue = <<>>
  /\ shuttingDown
  /\ UNCHANGED queueVars

Forget(k) ==
  /\ requeues' = [requeues EXCEPT ![k] = 0]
  /\ UNCHANGED <<queue, dirty, processing, waiting, shuttingDown>>

\* A key that became dirty while it was processed is queued again.
Done(k) ==
  /\ processing' = processing \ {k}
  /\ queue' = IF k \in dirty THEN Append(queue, k) ELSE queue
  /\ UNCHANGED <<dirty, waiting, requeues, shuttingDown>>

\* Adds are refused from now on and the keys held back are discarded.
ShutDown ==
  /\ shuttingDown' = TRUE
  /\ waiting' = {}
  /\ UNCHANGED <<queue, dirty, processing, requeues>>
=============================================================================

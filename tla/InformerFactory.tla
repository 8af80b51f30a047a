--------------------------- MODULE InformerFactory ---------------------------
(***************************************************************************)
(* The shared informer factory: goroutines that ask it for informers, start *)
(* them and wait for their caches, any number of times.  In main, one       *)
(* goroutine calls InformerFor (NewController) and another calls Start.    *)
(*                                                                         *)
(* An informer is a number, the order in which newFunc made it.  A method   *)
(* is split where another goroutine could come in if there were no lock.   *)
(***************************************************************************)
EXTENDS Naturals

CONSTANTS
  Callers,           \* goroutines that use the factory
  Types,             \* object types
  None               \* nobody

ASSUME NoneIsNobody == None \notin Callers

VARIABLES
  lock,              \* who holds f.lock
  informers,         \* informers[t]: f.informers[t], 0 when it has none
  startedInformers,  \* the types f.startedInformers has
  made,              \* informers newFunc has made
  runs,              \* runs[t]: Run goroutines started for t
  synced,            \* types whose informer's HasSynced is true
  stopped,           \* stopCh is closed
  pc,                \* pc[c]: where c is
  call,              \* call[c]: the method c is in
  typ,               \* typ[c]: the type InformerFor is asked for, or the one
                     \* that Start's loop has come to
  todo,              \* todo[c]: the types c's range loop has left
  got                \* got[c][t]: the informer c was given for t, or 0

factoryVars == <<informers, startedInformers, made, runs>>
callerVars == <<pc, call, typ, todo, got>>
vars == <<lock, factoryVars, synced, stopped, callerVars>>

Methods == {"InformerFor", "Start", "WaitForCacheSync"}
Pcs == {"idle", "lock", "body", "create", "range", "start", "unlock", "wait"}

Init ==
  /\ lock = None
  /\ informers = [t \in Types |-> 0]
  /\ startedInformers = {}
  /\ made = 0
  /\ runs = [t \in Types |-> 0]
  /\ synced = {}
  /\ stopped = FALSE
  /\ pc = [c \in Callers |-> "idle"]
  /\ call = [c \in Callers |-> "InformerFor"]
  /\ typ \in [Callers -> Types]
  /\ todo = [c \in Callers |-> {}]
  /\ got = [c \in Callers |-> [t \in Types |-> 0]]

Requested == {t \in Types : informers[t] # 0}

\* c goes from one place in its method to the next.
Move(c, from, to) ==
  /\ pc[c] = from
  /\ pc' = [pc EXCEPT ![c] = to]
  /\ UNCHANGED <<call, typ, synced, stopped>>

\* c calls a method.
Enter(c, method) ==
  /\ pc[c] = "idle"
  /\ pc' = [pc EXCEPT ![c] = "lock"]
  /\ call' = [call EXCEPT ![c] = method]
  /\ UNCHANGED <<lock, factoryVars, synced, stopped, todo, got>>

CallInformerFor(c, t) ==
  Enter(c, "InformerFor") /\ typ' = [typ EXCEPT ![c] = t]

CallStart(c) == Enter(c, "Start") /\ UNCHANGED typ

CallWaitForCacheSync(c) == Enter(c, "WaitForCacheSync") /\ UNCHANGED typ

\* Mutant: the methods do not take the lock.
LockSkipped(c) ==
  Move(c, "lock", "body") /\ UNCHANGED <<lock, factoryVars, todo, got>>

Lock(c) ==
  /\ lock = None
  /\ Move(c, "lock", "body")
  /\ lock' = c
  /\ UNCHANGED <<factoryVars, todo, got>>

\* The deferred Unlock; WaitForCacheSync goes on without the lock.
Unlock(c) ==
  /\ Move(c, "unlock", IF call[c] = "WaitForCacheSync" THEN "wait" ELSE "idle")
  /\ lock' = None
  /\ UNCHANGED <<factoryVars, todo, got>>

-----------------------------------------------------------------------------
(* InformerFor: the informer that exists, or a new one.                    *)

InformerExists(c) ==
  /\ call[c] = "InformerFor" /\ typ[c] \in Requested
  /\ Move(c, "body", "unlock")
  /\ got' = [got EXCEPT ![c][typ[c]] = informers[typ[c]]]
  /\ UNCHANGED <<lock, factoryVars, todo>>

InformerMissing(c) ==
  /\ call[c] = "InformerFor" /\ typ[c] \notin Requested
  /\ Move(c, "body", "create")
  /\ UNCHANGED <<lock, factoryVars, todo, got>>

\* newFunc, and the entry in f.informers.
NewInformer(c) ==
  /\ Move(c, "create", "unlock")
  /\ made' = made + 1
  /\ informers' = [informers EXCEPT ![typ[c]] = made']
  /\ got' = [got EXCEPT ![c][typ[c]] = made']
  /\ UNCHANGED <<lock, startedInformers, runs, todo>>

-----------------------------------------------------------------------------
(* Start: a loop over f.informers, in any order.                           *)

StartRange(c) ==
  /\ call[c] = "Start"
  /\ Move(c, "body", "range")
  /\ todo' = [todo EXCEPT ![c] = Requested]
  /\ UNCHANGED <<lock, factoryVars, got>>

\* The loop comes to t, and goes past it if t is marked.
StartNext(c, t) ==
  /\ pc[c] = "range" /\ t \in todo[c]
  /\ pc' = [pc EXCEPT ![c] = IF t \in startedInformers THEN "range" ELSE "start"]
  /\ todo' = [todo EXCEPT ![c] = @ \ {t}]
  /\ typ' = [typ EXCEPT ![c] = t]
  /\ UNCHANGED <<lock, factoryVars, call, synced, stopped, got>>

\* The goroutine with Run, and the mark.
StartOne(c) ==
  /\ Move(c, "start", "range")
  /\ runs' = [runs EXCEPT ![typ[c]] = @ + 1]
  /\ startedInformers' = startedInformers \cup {typ[c]}
  /\ UNCHANGED <<lock, informers, made, todo, got>>

StartDone(c) ==
  /\ todo[c] = {}
  /\ Move(c, "range", "unlock")
  /\ UNCHANGED <<lock, factoryVars, todo, got>>

-----------------------------------------------------------------------------
(* WaitForCacheSync: the started informers, then each one's cache.         *)

\* Mutant: the caller keeps the lock while it waits.
SnapshotKeepsLock(c) ==
  /\ call[c] = "WaitForCacheSync"
  /\ Move(c, "body", "wait")
  /\ todo' = [todo EXCEPT ![c] = startedInformers]
  /\ UNCHANGED <<lock, factoryVars, got>>

\* Mutant: informers nobody started are waited for too.
SnapshotOfAll(c) ==
  /\ call[c] = "WaitForCacheSync"
  /\ Move(c, "body", "unlock")
  /\ todo' = [todo EXCEPT ![c] = Requested]
  /\ UNCHANGED <<lock, factoryVars, got>>

Snapshot(c) ==
  /\ call[c] = "WaitForCacheSync"
  /\ Move(c, "body", "unlock")
  /\ todo' = [todo EXCEPT ![c] = Requested \cap startedInformers]
  /\ UNCHANGED <<lock, factoryVars, got>>

\* cache.WaitForCacheSync is true when t has synced, false when stopCh closes.
WaitOne(c, t) ==
  /\ t \in todo[c] /\ (t \in synced \/ stopped)
  /\ Move(c, "wait", "wait")
  /\ todo' = [todo EXCEPT ![c] = @ \ {t}]
  /\ UNCHANGED <<lock, factoryVars, got>>

WaitDone(c) ==
  /\ todo[c] = {}
  /\ Move(c, "wait", "idle")
  /\ UNCHANGED <<lock, factoryVars, todo, got>>

-----------------------------------------------------------------------------
(* The informers and the stop channel.                                     *)

InformerSyncs(t) ==
  /\ runs[t] > 0 /\ t \notin synced /\ ~stopped
  /\ synced' = synced \cup {t}
  /\ UNCHANGED <<lock, factoryVars, stopped, callerVars>>

Stop ==
  /\ ~stopped
  /\ stopped' = TRUE
  /\ UNCHANGED <<lock, factoryVars, synced, callerVars>>

Step(c) ==
  \/ Unlock(c)
  \/ InformerExists(c) \/ InformerMissing(c) \/ NewInformer(c)
  \/ StartRange(c) \/ (\E t \in Types : StartNext(c, t)) \/ StartOne(c) \/ StartDone(c)
  \/ Snapshot(c) \/ (\E t \in Types : WaitOne(c, t)) \/ WaitDone(c)

Next ==
  \/ \E c \in Callers :
       \/ \E t \in Types : CallInformerFor(c, t)
       \/ CallStart(c) \/ CallWaitForCacheSync(c)
       \/ Lock(c) \/ Step(c)
  \/ \E t \in Types : InformerSyncs(t)
  \/ Stop

Spec == Init /\ [][Next]_vars

\* A goroutine inside a method goes on, and sync.Mutex does not starve the
\* goroutines that wait for it.  Nobody has to call anything, and caches and
\* the stop channel owe nothing.
Fairness ==
  \A c \in Callers : WF_vars(Step(c)) /\ SF_vars(Lock(c))

FairSpec == Spec /\ Fairness

-----------------------------------------------------------------------------
Locked(c) == pc[c] \in {"body", "create", "range", "start", "unlock"}

\* Every variable has its type; a caller is between Lock and Unlock exactly
\* while it has the lock.
TypeOK ==
  /\ lock \in Callers \cup {None}
  /\ \A c \in Callers : Locked(c) <=> lock = c
  /\ informers \in [Types -> Nat]
  /\ startedInformers \subseteq Types
  /\ made \in Nat
  /\ runs \in [Types -> Nat]
  /\ synced \subseteq Types
  /\ stopped \in BOOLEAN
  /\ pc \in [Callers -> Pcs]
  /\ call \in [Callers -> Methods]
  /\ typ \in [Callers -> Types]
  /\ todo \in [Callers -> SUBSET Types]
  /\ got \in [Callers -> [Types -> Nat]]

\* "This allows Start() to be called multiple times safely" (the comment on
\* startedInformers): whoever calls Start, however often and at the same time, an
\* informer is run at most once.
RunsOnce == \A t \in Types : runs[t] <= 1

\* Shared informers are shared: all who asked for a type were given the same
\* informer, the one Start runs and no other.
OneInformerPerType ==
  \A c \in Callers : \A t \in Types :
    got[c][t] # 0 => got[c][t] = informers[t]

\* When Start is done, every informer requested so far is running, also those
\* requested while Start was being called.
StartLeavesNoneBehind ==
  \A c \in Callers :
    call[c] = "Start" /\ pc[c] = "unlock" => \A t \in Requested : runs[t] > 0

\* InformerFor and Start return although caches never sync and others wait for
\* them: nothing waits under the lock.
CallsReturn ==
  \A c \in Callers :
    pc[c] = "lock" /\ call[c] # "WaitForCacheSync" ~> pc[c] = "idle"

\* WaitForCacheSync returns if every informer that runs gets its first list
\* some day: one that nobody started is not waited for.
WaitReturns ==
  (\A t \in Types : WF_vars(InformerSyncs(t))) =>
    \A c \in Callers : pc[c] = "wait" ~> pc[c] = "idle"
=============================================================================

--------------------------- MODULE LifecycleProofs ---------------------------
(***************************************************************************)
(* Proofs about Lifecycle, for any number of signals.  What holds of the    *)
(* informer factory, whoever calls it, is taken from InformerFactoryProofs. *)
(***************************************************************************)
EXTENDS Lifecycle, TLAPS

FactoryProofs == INSTANCE InformerFactoryProofs WITH
  Callers <- {"main", "starter"}, Types <- {Network}, None <- "nobody"

USE DEF vars, processVars, factoryVars, signalVars, controllerVars, Network

\* main only asks for informers; only the goroutine that main spawned calls
\* Start, and it does so once.
CallersOK ==
  /\ call["main"] = "InformerFor"
  /\ starter # "called" => pc["starter"] = "idle"

\* Where main is tells what it has done.
ProgressOK ==
  /\ listening <=> at # "setup"
  /\ handlers <=> at \in {"spawn", "waitSync", "running", "returned"}
  /\ at = "returned" => stopped

\* A signal that was sent is pending, or was the first one, or was dropped.
SignalsOK == pending + (IF stopped THEN 1 ELSE 0) <= sent

LifecycleInv ==
  /\ TypeOK /\ FactoryProofs!FactoryInv
  /\ CallersOK /\ ProgressOK /\ SignalsOK
  /\ HandlersBeforeEvents /\ WorkersAfterSync /\ ExitStatusIsRight

-----------------------------------------------------------------------------
(* The factory, as main sees it.                                            *)

(* InformerFactoryProofs speaks of the same factory.                        *)
LEMMA SameFactory ==
  Factory!Next => FactoryProofs!Next
<1>1. ASSUME NEW c \in {"main", "starter"}, Factory!Lock(c) \/ Factory!Step(c)
      PROVE  FactoryProofs!Lock(c) \/ FactoryProofs!Step(c)
  BY <1>1 DEF
    Factory!Lock, Factory!Step, Factory!Move, Factory!Unlock,
    Factory!InformerExists, Factory!InformerMissing, Factory!NewInformer,
    Factory!StartRange, Factory!StartNext, Factory!StartOne, Factory!StartDone,
    Factory!Snapshot, Factory!WaitOne, Factory!WaitDone, Factory!Requested, Factory!factoryVars,
    FactoryProofs!Lock, FactoryProofs!Step, FactoryProofs!Move,
    FactoryProofs!Unlock, FactoryProofs!InformerExists,
    FactoryProofs!InformerMissing, FactoryProofs!NewInformer,
    FactoryProofs!StartRange, FactoryProofs!StartNext, FactoryProofs!StartOne,
    FactoryProofs!StartDone,
    FactoryProofs!Snapshot, FactoryProofs!WaitOne, FactoryProofs!WaitDone,
    FactoryProofs!Requested, FactoryProofs!factoryVars
<1> QED
  BY <1>1 DEF Factory!Next, Factory!CallInformerFor, Factory!CallStart,
    Factory!CallWaitForCacheSync, Factory!Enter, Factory!InformerSyncs,
    Factory!Stop, Factory!factoryVars, Factory!callerVars,
    FactoryProofs!Next, FactoryProofs!CallInformerFor, FactoryProofs!CallStart,
    FactoryProofs!CallWaitForCacheSync, FactoryProofs!Enter,
    FactoryProofs!InformerSyncs, FactoryProofs!Stop,
    FactoryProofs!factoryVars, FactoryProofs!callerVars

(* A step of this process is one of the factory, called by "main" and       *)
(* "starter", or leaves the factory alone.                                  *)
LEMMA FactoryKept ==
  ASSUME FactoryProofs!FactoryInv, [Next]_vars
  PROVE  FactoryProofs!FactoryInv'
<1>1. Factory!Next \/ UNCHANGED factoryVars
  <2>1. CASE MainRuns
    <3>1. ASSUME NEW from, NEW to, CallsInformerFor(from, to)
          PROVE  Factory!Next
      BY <3>1 DEF CallsInformerFor, Factory!Next
    <3>2. CASE RequestLister \/ RequestHasSynced \/ RequestInformer
      BY <3>1, <3>2 DEF RequestLister, RequestHasSynced, RequestInformer
    <3>3. CASE ~(RequestLister \/ RequestHasSynced \/ RequestInformer)
      BY <2>1, <3>3 DEF MainRuns, SetupSignalHandler, Build, AddEventHandler,
         SpawnStart, LaunchWorkers, SyncFails, RunReturns, MainReturns, Exits
    <3> QED
      BY <3>2, <3>3
  <2>2. CASE StarterCallsStart \/ FactoryRuns \/ FirstSignal
    BY <2>2 DEF StarterCallsStart, FactoryRuns, FirstSignal, Factory!Next
  <2>3. CASE BuildFails \/ SignalArrives \/ SecondSignal \/ Exited \/ UNCHANGED vars
    BY <2>3 DEF BuildFails, SignalArrives, SecondSignal, Exited, Exits
  <2> QED
    BY <2>1, <2>2, <2>3 DEF Next
<1>2. FactoryProofs!Next \/ UNCHANGED FactoryProofs!vars
  BY <1>1, SameFactory DEF FactoryProofs!vars, FactoryProofs!factoryVars,
     FactoryProofs!callerVars
<1>3. "nobody" \notin {"main", "starter"}
  OBVIOUS
<1> QED
  BY <1>2, <1>3, FactoryProofs!FactoryStep

(* What a goroutine inside the factory leaves alone; only one that called   *)
(* Start, as the starter does, runs an informer.                            *)
LEMMA FactoryFrame ==
  ASSUME FactoryProofs!FactoryInv, CallersOK, FactoryRuns
  PROVE  /\ UNCHANGED <<call, stopped>> /\ synced \subseteq synced'
         /\ pc["starter"] = "idle" => pc'["starter"] = "idle"
         /\ runs' = runs \/ starter = "called"
<1>1. /\ pc \in [{"main", "starter"} -> FactoryProofs!Pcs]
      /\ \A c \in {"main", "starter"} : pc[c] \in {"range", "start"} => call[c] = "Start"
  BY DEF FactoryProofs!FactoryInv, FactoryProofs!TypeOK, FactoryProofs!LoopsOK
<1>2. ASSUME NEW c \in {"main", "starter"}, Factory!Lock(c) \/ Factory!Step(c)
      PROVE  /\ UNCHANGED <<call, stopped, synced>>
             /\ \E from \in FactoryProofs!Pcs \ {"idle"} : \E to :
                  pc[c] = from /\ pc' = [pc EXCEPT ![c] = to]
             /\ runs' = runs \/ pc[c] = "start"
  BY <1>2 DEF Factory!Lock, Factory!Step, Factory!Move, Factory!Unlock,
    Factory!InformerExists, Factory!InformerMissing, Factory!NewInformer,
    Factory!StartRange, Factory!StartNext, Factory!StartOne, Factory!StartDone,
    Factory!Snapshot, Factory!WaitOne, Factory!WaitDone, Factory!factoryVars, FactoryProofs!Pcs
<1>3. CASE Factory!InformerSyncs(Network)
  BY <1>3 DEF Factory!InformerSyncs, Factory!factoryVars, Factory!callerVars
<1>4. CASE \E c \in {"main", "starter"} : Factory!Lock(c) \/ Factory!Step(c)
  <2>1. PICK c \in {"main", "starter"} : Factory!Lock(c) \/ Factory!Step(c)
    BY <1>4
  <2>2. pc["starter"] = "idle" => pc'["starter"] = "idle"
    BY <1>1, <1>2, <2>1
  <2>3. runs' = runs \/ starter = "called"
    BY <1>1, <1>2, <2>1 DEF CallersOK
  <2> QED
    BY <1>2, <2>1, <2>2, <2>3
<1> QED
  BY <1>3, <1>4 DEF FactoryRuns

-----------------------------------------------------------------------------
(* The invariant.                                                           *)

LEMMA LifecycleInit == Init => LifecycleInv
<1> SUFFICES ASSUME Init PROVE LifecycleInv
  OBVIOUS
<1>1. FactoryProofs!FactoryInv
  <2>1. FactoryProofs!Init /\ "nobody" \notin {"main", "starter"}
    BY DEF Init, Factory!Init, FactoryProofs!Init
  <2> QED
    BY <2>1, FactoryProofs!FactoryInit
<1>2. Factory!TypeOK
  BY <1>1 DEF FactoryProofs!FactoryInv, FactoryProofs!TypeOK, Factory!TypeOK,
     FactoryProofs!Locked, Factory!Locked, FactoryProofs!Pcs, Factory!Pcs,
     FactoryProofs!Methods, Factory!Methods
<1>3. TypeOK
  <2>1. sent \in 0..MaxSignals /\ pending \in 0..2
    BY MaxSignalsOK DEF Init
  <2> QED
    BY <1>2, <2>1 DEF Init, TypeOK
<1>4. CallersOK /\ ProgressOK /\ SignalsOK
  BY DEF Init, Factory!Init, CallersOK, ProgressOK, SignalsOK
<1>5. HandlersBeforeEvents /\ WorkersAfterSync /\ ExitStatusIsRight
  BY DEF Init, Factory!Init, HandlersBeforeEvents, WorkersAfterSync,
     ExitStatusIsRight
<1> QED
  BY <1>1, <1>3, <1>4, <1>5 DEF LifecycleInv

(* A step of main that goes from one statement to the next.                 *)
LEMMA MainStep ==
  ASSUME LifecycleInv, FactoryProofs!FactoryInv', MainRuns
  PROVE  LifecycleInv'
<1> USE DEF LifecycleInv
<1>1. Factory!TypeOK'
  BY DEF FactoryProofs!FactoryInv, FactoryProofs!TypeOK, Factory!TypeOK,
     FactoryProofs!Locked, Factory!Locked, FactoryProofs!Pcs, Factory!Pcs,
     FactoryProofs!Methods, Factory!Methods
<1> USE DEF TypeOK, CallersOK, ProgressOK, SignalsOK, HandlersBeforeEvents,
            WorkersAfterSync, ExitStatusIsRight, Main, Alive, Exits
<1>2. CASE SetupSignalHandler
  BY <1>1, <1>2 DEF SetupSignalHandler, NextBuild
<1>3. CASE Build
  BY <1>1, <1>3 DEF Build, NextBuild
<1>4. CASE RequestLister \/ RequestHasSynced \/ RequestInformer
  <2>1. /\ call' = [call EXCEPT !["main"] = "InformerFor"]
        /\ pc' = [pc EXCEPT !["main"] = "lock"]
        /\ UNCHANGED <<runs, synced, stopped>>
    BY <1>4 DEF RequestLister, RequestHasSynced, RequestInformer, CallsInformerFor,
       Factory!CallInformerFor, Factory!Enter, Factory!factoryVars
  <2>2. /\ call \in [{"main", "starter"} -> FactoryProofs!Methods]
        /\ pc \in [{"main", "starter"} -> FactoryProofs!Pcs]
    BY DEF FactoryProofs!FactoryInv, FactoryProofs!TypeOK
  <2>3. call'["main"] = "InformerFor" /\ pc'["starter"] = pc["starter"]
    BY <2>1, <2>2
  <2> QED
    BY <1>1, <1>4, <2>1, <2>3 DEF RequestLister, RequestHasSynced, RequestInformer,
       CallsInformerFor
<1>5. CASE AddEventHandler
  BY <1>1, <1>5 DEF AddEventHandler
<1>6. CASE SpawnStart
  BY <1>1, <1>6 DEF SpawnStart
<1>7. CASE LaunchWorkers
  BY <1>1, <1>7 DEF LaunchWorkers
<1>8. CASE SyncFails
  BY <1>1, <1>8 DEF SyncFails
<1>9. CASE RunReturns
  BY <1>1, <1>9 DEF RunReturns
<1>10. CASE MainReturns
  BY <1>1, <1>10 DEF MainReturns
<1> QED
  BY <1>2, <1>3, <1>4, <1>5, <1>6, <1>7, <1>8, <1>9, <1>10 DEF MainRuns

LEMMA LifecycleStep ==
  ASSUME LifecycleInv, [Next]_vars
  PROVE  LifecycleInv'
<1> USE DEF LifecycleInv
<1>1. FactoryProofs!FactoryInv'
  BY FactoryKept
<1>2. Factory!TypeOK'
  BY <1>1 DEF FactoryProofs!FactoryInv, FactoryProofs!TypeOK, Factory!TypeOK,
     FactoryProofs!Locked, Factory!Locked, FactoryProofs!Pcs, Factory!Pcs,
     FactoryProofs!Methods, Factory!Methods
<1>3. CASE MainRuns
  BY <1>1, <1>3, MainStep
<1> USE DEF TypeOK, CallersOK, ProgressOK, SignalsOK, HandlersBeforeEvents,
            WorkersAfterSync, ExitStatusIsRight, Alive, Exits
<1>4. CASE BuildFails
  BY <1>1, <1>2, <1>4 DEF BuildFails, NextBuild
<1>5. CASE StarterCallsStart
  <2>1. /\ call'["main"] = call["main"]
        /\ UNCHANGED <<runs, synced, stopped>>
    BY <1>5 DEF StarterCallsStart, Factory!CallStart, Factory!Enter,
       Factory!factoryVars
  <2> QED
    BY <1>1, <1>2, <1>5, <2>1 DEF StarterCallsStart
<1>6. CASE FactoryRuns
  BY <1>1, <1>2, <1>6, FactoryFrame DEF FactoryRuns
<1>7. CASE SignalArrives
  <2>1. /\ sent' = sent + 1 /\ sent' \in 0..MaxSignals /\ exit = -1
        /\ UNCHANGED <<at, starter, listening, controllerVars, factoryVars>>
        /\ \/ pending' \in {pending, pending + 1} \cap 0..2 /\ exit' = exit
           \/ pending' = pending /\ exit' = 143 /\ ~listening
    <3>1. /\ sent' = sent + 1 /\ sent' \in 0..MaxSignals /\ exit = -1
          /\ UNCHANGED <<at, starter, listening, controllerVars, factoryVars>>
      BY <1>7, MaxSignalsOK DEF SignalArrives
    <3>2. CASE listening
      <4>1. /\ pending' = (IF pending < 2 THEN pending + 1 ELSE 2)
            /\ exit' = exit /\ pending \in 0..2
        BY <1>7, <3>2 DEF SignalArrives
      <4>2. pending' \in {pending, pending + 1} \cap 0..2
        <5>1. CASE pending < 2
          <6>1. pending' = pending + 1 /\ pending + 1 \in 0..2
            BY <4>1, <5>1
          <6> QED
            BY <6>1
        <5>2. CASE pending = 2
          BY <4>1, <5>2
        <5> QED
          BY <4>1, <5>1, <5>2
      <4> QED
        BY <3>1, <4>1, <4>2
    <3>3. CASE ~listening
      BY <1>7, <3>1, <3>3 DEF SignalArrives
    <3> QED
      BY <3>2, <3>3
  <2>2. TypeOK'
    BY <1>2, <2>1
  <2>3. SignalsOK'
    BY <2>1
  <2> QED
    BY <1>1, <2>1, <2>2, <2>3
<1>8. CASE FirstSignal
  <2>1. ~stopped /\ stopped' /\ UNCHANGED <<pc, call, runs, synced>>
    BY <1>8 DEF FirstSignal, Factory!Stop, Factory!factoryVars, Factory!callerVars
  <2> QED
    BY <1>1, <1>2, <1>8, <2>1 DEF FirstSignal
<1>9. CASE SecondSignal
  BY <1>1, <1>2, <1>9 DEF SecondSignal
<1>10. CASE Exited \/ UNCHANGED vars
  BY <1>1, <1>2, <1>10 DEF Exited
<1> QED
  BY <1>3, <1>4, <1>5, <1>6, <1>7, <1>8, <1>9, <1>10 DEF Next

LEMMA LifecycleInvAlways == Spec => []LifecycleInv
BY LifecycleInit, LifecycleStep, PTL DEF Spec

-----------------------------------------------------------------------------
(* The theorems.                                                            *)

(* The process keeps its types: the goroutine for Start and the workers     *)
(* exist exactly when main is past the statement that starts them.          *)
THEOREM TypeCorrect == Spec => []TypeOK
<1>1. LifecycleInv => TypeOK
  BY DEF LifecycleInv
<1> QED
  BY <1>1, LifecycleInvAlways, PTL

(* The informer of main.go runs only after AddEventHandler, although        *)
(* another goroutine starts it: no event of the cluster is missed.          *)
THEOREM HandlersComeFirst == Spec => []HandlersBeforeEvents
<1>1. LifecycleInv => HandlersBeforeEvents
  BY DEF LifecycleInv
<1> QED
  BY <1>1, LifecycleInvAlways, PTL

(* No worker looks into the lister before it holds the first list, whatever *)
(* signals arrive while Run waits for the cache.                            *)
THEOREM WorkersWaitForCache == Spec => []WorkersAfterSync
<1>1. LifecycleInv => WorkersAfterSync
  BY DEF LifecycleInv
<1> QED
  BY <1>1, LifecycleInvAlways, PTL

(* The exit status says whether the controller worked and was told to stop, *)
(* wherever main was when the signals came.                                 *)
THEOREM ExitStatusTells == Spec => []ExitStatusIsRight
<1>1. LifecycleInv => ExitStatusIsRight
  BY DEF LifecycleInv
<1> QED
  BY <1>1, LifecycleInvAlways, PTL

-----------------------------------------------------------------------------
(* The half of WorkersAreLaunched that needs no fairness.                   *)

Made == informers[Network] # 0

\* What main has asked for exists when its call has returned, main is out of the
\* factory before Start is called, and Start has started what exists.
StartOK ==
  /\ pc["main"] # "wait" /\ pc["starter"] # "wait"
  /\ pc["main"] = "unlock" => Made
  /\ pc["main"] = "idle" => Made \/ at \in {"setup", "lister"} \cup DOMAIN NextBuild
  /\ starter # "none" \/ at = "spawn" => pc["main"] = "idle"
  /\ starter = "called" =>
       /\ call["starter"] = "Start"
       /\ pc["starter"] = "idle" => Network \in startedInformers

\* Once Start has returned, the informer that Run waits for is running.
StartReachesInformer ==
  starter = "called" /\ pc["starter"] = "idle" => runs[Network] = 1

LEMMA StartOKFactory ==
  ASSUME LifecycleInv, StartOK, FactoryRuns
  PROVE  StartOK'
<1>1. /\ pc \in [{"main", "starter"} -> FactoryProofs!Pcs]
      /\ informers \in [{Network} -> Nat] /\ made \in Nat
      /\ typ \in [{"main", "starter"} -> {Network}]
      /\ call["main"] = "InformerFor"
      /\ starter # "called" => pc["starter"] = "idle"
      /\ starter # "none" => at \notin {"setup", "lister"} \cup DOMAIN NextBuild
      /\ \A c \in {"main", "starter"} : pc[c] \in {"range", "start"} => call[c] = "Start"
      /\ \A c \in {"main", "starter"} :
           pc[c] = "unlock" /\ call[c] = "Start" /\ Made => Network \in startedInformers
      /\ UNCHANGED <<at, starter, call>>
  BY FactoryFrame
     DEF LifecycleInv, TypeOK, CallersOK, FactoryRuns, Made, NextBuild,
         FactoryProofs!FactoryInv, FactoryProofs!TypeOK, FactoryProofs!LoopsOK,
         FactoryProofs!Requested
<1>2. CASE Factory!InformerSyncs(Network)
  BY <1>1, <1>2 DEF StartOK, Made, Factory!InformerSyncs, Factory!factoryVars,
     Factory!callerVars
<1>3. ASSUME NEW c \in {"main", "starter"}, Factory!Lock(c) \/ Factory!Step(c)
      PROVE  /\ Made => Made'
             /\ startedInformers \subseteq startedInformers'
             /\ \E to : /\ pc' = [pc EXCEPT ![c] = to]
                        /\ to = "wait" => call[c] = "WaitForCacheSync" \/ pc[c] = "wait"
                        /\ to = "unlock" => Made' \/ call[c] # "InformerFor"
                        /\ to = "idle" => pc[c] \in {"unlock", "wait"}
                        /\ pc[c] # "idle"
  <2>1. Factory!Requested = {t \in {Network} : informers[t] # 0}
    BY DEF Factory!Requested
  <2>2. CASE Factory!NewInformer(c)
    <3>1. informers' = [informers EXCEPT ![typ[c]] = made + 1] /\ typ[c] = Network
      BY <1>1, <1>3, <2>2 DEF Factory!NewInformer
    <3>2. Made'
      BY <1>1, <3>1 DEF Made
    <3> QED
      BY <1>1, <2>2, <3>2 DEF Factory!NewInformer, Factory!Move
  <2>3. CASE Factory!InformerExists(c) \/ Factory!InformerMissing(c)
    BY <1>1, <1>3, <2>1, <2>3 DEF Factory!InformerExists, Factory!InformerMissing,
       Factory!Move, Factory!factoryVars, Made
  <2>4. CASE Factory!Lock(c) \/ Factory!Unlock(c)
    BY <1>1, <2>4 DEF Factory!Lock, Factory!Unlock,
       Factory!Move, Factory!factoryVars, Made
  <2>5. CASE \/ Factory!StartRange(c) \/ Factory!StartDone(c) \/ Factory!Snapshot(c)
             \/ Factory!WaitDone(c) \/ \E t \in {Network} : Factory!WaitOne(c, t)
    BY <1>1, <1>3, <2>5 DEF Factory!StartRange, Factory!StartDone, Factory!Snapshot,
       Factory!WaitOne, Factory!WaitDone, Factory!Move, Factory!factoryVars, Made
  <2>6. CASE (\E t \in {Network} : Factory!StartNext(c, t)) \/ Factory!StartOne(c)
    BY <1>1, <2>6 DEF Factory!StartNext, Factory!StartOne, Factory!Move,
       Factory!factoryVars, Made
  <2> QED
    BY <1>3, <2>2, <2>3, <2>4, <2>5, <2>6 DEF Factory!Step
<1>4. ASSUME NEW c \in {"main", "starter"}, Factory!Lock(c) \/ Factory!Step(c)
      PROVE  StartOK'
  <2>1. PICK to : /\ pc' = [pc EXCEPT ![c] = to]
                  /\ to = "wait" => call[c] = "WaitForCacheSync" \/ pc[c] = "wait"
                  /\ to = "unlock" => Made' \/ call[c] # "InformerFor"
                  /\ to = "idle" => pc[c] \in {"unlock", "wait"}
                  /\ pc[c] # "idle"
    BY <1>3, <1>4
  <2>2. Made => Made' /\ startedInformers \subseteq startedInformers'
    BY <1>3, <1>4
  <2>3. startedInformers \subseteq startedInformers'
    BY <1>3, <1>4
  <2>4. CASE c = "main"
    <3>1. pc'["main"] = to /\ pc'["starter"] = pc["starter"]
      BY <1>1, <2>1, <2>4
    <3> QED
      BY <1>1, <2>1, <2>2, <2>3, <2>4, <3>1 DEF StartOK
  <2>5. CASE c = "starter"
    <3>1. pc'["main"] = pc["main"] /\ pc'["starter"] = to
      BY <1>1, <2>1, <2>5
    <3>2. starter = "called" /\ call["starter"] = "Start"
      BY <1>1, <2>1, <2>5 DEF StartOK
    <3>3. Made
      BY <1>1, <3>2 DEF StartOK
    <3>4. to # "wait"
      BY <2>1, <2>5, <3>2 DEF StartOK
    <3>5. to = "idle" => Network \in startedInformers
      BY <1>1, <2>1, <2>5, <3>2, <3>3 DEF StartOK
    <3> QED
      BY <1>1, <2>2, <2>3, <3>1, <3>2, <3>3, <3>4, <3>5 DEF StartOK
  <2> QED
    BY <2>4, <2>5
<1> QED
  BY <1>2, <1>4 DEF FactoryRuns

LEMMA StartOKStep ==
  ASSUME LifecycleInv, StartOK, [Next]_vars
  PROVE  StartOK'
<1>1. /\ pc \in [{"main", "starter"} -> FactoryProofs!Pcs]
      /\ call \in [{"main", "starter"} -> FactoryProofs!Methods]
      /\ starter # "called" => pc["starter"] = "idle"
      /\ starter # "none" <=> at \in {"waitSync", "running", "returned"}
  BY DEF LifecycleInv, TypeOK, CallersOK,
         FactoryProofs!FactoryInv, FactoryProofs!TypeOK
<1> USE <1>1 DEF StartOK, Made, NextBuild, Main, Alive, Exits
<1>2. CASE RequestLister \/ RequestHasSynced \/ RequestInformer
  <2>1. /\ pc' = [pc EXCEPT !["main"] = "lock"]
        /\ call' = [call EXCEPT !["main"] = "InformerFor"]
        /\ UNCHANGED <<informers, startedInformers, starter>>
        /\ at' \in {"hasSynced", "informer", "addHandler"}
        /\ at \in {"lister", "hasSynced", "informer"}
    BY <1>2 DEF RequestLister, RequestHasSynced, RequestInformer, CallsInformerFor,
       Factory!CallInformerFor, Factory!Enter, Factory!factoryVars
  <2>2. /\ pc'["main"] = "lock" /\ pc'["starter"] = pc["starter"]
        /\ call'["starter"] = call["starter"]
    BY <2>1
  <2> QED
    BY <2>1, <2>2
<1>3. CASE SetupSignalHandler \/ Build
  BY <1>3 DEF SetupSignalHandler, Build
<1>4. CASE AddEventHandler \/ SpawnStart
  BY <1>4 DEF AddEventHandler, SpawnStart
<1>5. CASE LaunchWorkers \/ SyncFails \/ RunReturns \/ MainReturns
  BY <1>5 DEF LaunchWorkers, SyncFails, RunReturns, MainReturns
<1>6. CASE StarterCallsStart
  <2>1. /\ pc' = [pc EXCEPT !["starter"] = "lock"]
        /\ call' = [call EXCEPT !["starter"] = "Start"]
        /\ UNCHANGED <<informers, startedInformers, at>>
        /\ starter = "spawned" /\ starter' = "called"
    BY <1>6 DEF StarterCallsStart, Factory!CallStart, Factory!Enter,
       Factory!factoryVars
  <2>2. /\ pc'["main"] = pc["main"] /\ pc'["starter"] = "lock"
        /\ call'["starter"] = "Start"
    BY <2>1
  <2> QED
    BY <2>1, <2>2
<1>7. CASE FirstSignal
  BY <1>7 DEF FirstSignal, Factory!Stop, Factory!factoryVars, Factory!callerVars
<1>8. CASE BuildFails \/ SignalArrives \/ SecondSignal \/ Exited \/ UNCHANGED vars
  BY <1>8 DEF BuildFails, SignalArrives, SecondSignal, Exited
<1>9. CASE FactoryRuns
  BY <1>9, StartOKFactory
<1> QED
  BY <1>2, <1>3, <1>4, <1>5, <1>6, <1>7, <1>8, <1>9 DEF Next, MainRuns

(* Start looks once for what to start, in a goroutine of its own: when it has *)
(* returned, the informer of the controller is among what it found, and runs. *)
THEOREM StartFindsInformer == Spec => []StartReachesInformer
<1>1. Init => StartOK
  BY DEF Init, Factory!Init, StartOK
<1>2. LifecycleInv /\ StartOK => StartReachesInformer
  BY DEF LifecycleInv, FactoryProofs!FactoryInv, FactoryProofs!StartedRun,
         StartOK, StartReachesInformer
<1> QED
  BY <1>1, <1>2, StartOKStep, LifecycleInvAlways, PTL DEF Spec
=============================================================================

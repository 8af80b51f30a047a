------------------------------- MODULE Lifecycle -------------------------------
(***************************************************************************)
(* One process of the controller, from exec to exit: main builds the        *)
(* clients and the controller, a goroutine of its own starts the informer   *)
(* factory, Run waits for the cache and launches the workers, and signals   *)
(* may arrive at any point.  The factory's methods are those of             *)
(* InformerFactory, called by the goroutines "main" and "starter".  What    *)
(* the workers do is in NetworkController.                                  *)
(***************************************************************************)
EXTENDS Integers

CONSTANT MaxSignals     \* bound: signals the process is sent

ASSUME MaxSignalsOK == MaxSignals \in Nat

VARIABLES
  at,                \* where main is
  starter,           \* the goroutine main starts for Start
  listening,         \* signal.Notify has been called
  sent,              \* counts towards MaxSignals
  pending,           \* signals in the handler's channel, which holds two
  handlers,          \* the controller's handlers are registered
  workers,           \* the workers have been launched
  exit,              \* the exit status; -1 while the process lives, 143 for a
                     \* signal it did not listen for
  lock, informers, startedInformers, made, runs, synced, stopped,
  pc, call, typ, todo, got

Network == "Network"
Factory == INSTANCE InformerFactory WITH
  Callers <- {"main", "starter"}, Types <- {Network}, None <- "nobody"

factoryVars == <<lock, informers, startedInformers, made, runs, synced, stopped,
                 pc, call, typ, todo, got>>
signalVars == <<listening, sent, pending>>
controllerVars == <<handlers, workers>>
processVars == <<at, starter, signalVars, controllerVars, exit>>
vars == <<processVars, factoryVars>>

Alive == exit = -1

Init ==
  /\ Factory!Init
  /\ at = "setup" /\ starter = "none"
  /\ listening = FALSE /\ sent = 0 /\ pending = 0
  /\ handlers = FALSE /\ workers = FALSE
  /\ exit = -1

\* main goes from one statement to the next; its last call has returned.
Main(from, to) ==
  /\ Alive /\ at = from /\ pc["main"] = "idle"
  /\ at' = to
  /\ UNCHANGED <<sent, pending>>

Exits(status) ==
  /\ Alive
  /\ exit' = status
  /\ UNCHANGED <<at, starter, signalVars, controllerVars, factoryVars>>

-----------------------------------------------------------------------------
(* main, up to Run.                                                        *)

SetupSignalHandler ==
  /\ Main("setup", "config")
  /\ listening' = TRUE
  /\ UNCHANGED <<starter, controllerVars, exit, factoryVars>>

\* The configuration and the two clientsets; each may end in Fatalf.
NextBuild == [config |-> "kubeClient", kubeClient |-> "networkClient",
              networkClient |-> "lister"]

Build ==
  /\ \E s \in DOMAIN NextBuild : Main(s, NextBuild[s])
  /\ UNCHANGED <<starter, listening, controllerVars, exit, factoryVars>>

BuildFails == at \in DOMAIN NextBuild /\ Exits(255)

CallsInformerFor(from, to) ==
  /\ Main(from, to)
  /\ Factory!CallInformerFor("main", Network)
  /\ UNCHANGED <<listening, controllerVars, exit>>

\* Mutant: main starts the factory before it makes the controller.
RequestListerAfterStart ==
  CallsInformerFor("lister", "hasSynced") /\ starter' = "spawned"

\* NewController asks for the informer three times: for its lister, for its
\* HasSynced and to add the handlers.
RequestLister ==
  CallsInformerFor("lister", "hasSynced") /\ UNCHANGED starter

RequestHasSynced ==
  CallsInformerFor("hasSynced", "informer") /\ UNCHANGED starter

RequestInformer ==
  CallsInformerFor("informer", "addHandler") /\ UNCHANGED starter

AddEventHandler ==
  /\ Main("addHandler", "spawn")
  /\ handlers' = TRUE
  /\ UNCHANGED <<starter, listening, workers, exit, factoryVars>>

\* go networkInformerFactory.Start(stopCh)
SpawnStart ==
  /\ Main("spawn", "waitSync")
  /\ starter' = IF starter = "none" THEN "spawned" ELSE starter
  /\ UNCHANGED <<listening, controllerVars, exit, factoryVars>>

StarterCallsStart ==
  /\ Alive /\ starter = "spawned"
  /\ starter' = "called"
  /\ Factory!CallStart("starter")
  /\ UNCHANGED <<at, signalVars, controllerVars, exit>>

-----------------------------------------------------------------------------
(* Run, and what main makes of its result.                                 *)

\* Mutant: the result of WaitForCacheSync is not looked at.
LaunchWorkersUnchecked ==
  /\ Network \in synced \/ stopped
  /\ Main("waitSync", "running")
  /\ workers' = TRUE
  /\ UNCHANGED <<starter, listening, handlers, exit, factoryVars>>

LaunchWorkers ==
  /\ Network \in synced
  /\ Main("waitSync", "running")
  /\ workers' = TRUE
  /\ UNCHANGED <<starter, listening, handlers, exit, factoryVars>>

\* Mutant: Run returns nil although the caches have not synced.
SyncFailsQuietly == at = "waitSync" /\ stopped /\ Network \notin synced /\ Exits(0)

\* Mutant: WaitForCacheSync is given a channel nobody closes.
SyncNeverFails == FALSE /\ UNCHANGED vars

\* stopCh is closed before the caches have synced: Run returns an error and
\* main calls Fatalf.
SyncFails == at = "waitSync" /\ stopped /\ Network \notin synced /\ Exits(255)

RunReturns ==
  /\ stopped
  /\ Main("running", "returned")
  /\ UNCHANGED <<starter, listening, controllerVars, exit, factoryVars>>

MainReturns == at = "returned" /\ Exits(0)

-----------------------------------------------------------------------------
(* Signals.                                                                *)

\* A signal nobody listens for ends the process; else it is put into the
\* channel if there is room.
SignalArrives ==
  /\ Alive /\ sent < MaxSignals
  /\ sent' = sent + 1
  /\ IF listening
       THEN pending' = (IF pending < 2 THEN pending + 1 ELSE 2) /\ UNCHANGED exit
       ELSE exit' = 143 /\ UNCHANGED pending
  /\ UNCHANGED <<at, starter, listening, controllerVars, factoryVars>>

FirstSignal ==
  /\ Alive /\ pending > 0
  /\ pending' = pending - 1
  /\ Factory!Stop
  /\ UNCHANGED <<at, starter, listening, sent, controllerVars, exit>>

SecondSignal == pending > 0 /\ stopped /\ Exits(1)

-----------------------------------------------------------------------------
\* A goroutine inside a method of the factory goes on; the informer syncs.
FactoryRuns ==
  /\ Alive
  /\ \/ \E c \in {"main", "starter"} : Factory!Lock(c) \/ Factory!Step(c)
     \/ Factory!InformerSyncs(Network)
  /\ UNCHANGED processVars

MainRuns ==
  \/ SetupSignalHandler \/ Build \/ RequestLister \/ RequestHasSynced
  \/ RequestInformer \/ AddEventHandler \/ SpawnStart
  \/ LaunchWorkers \/ SyncFails \/ RunReturns \/ MainReturns

Exited == ~Alive /\ UNCHANGED vars

Next ==
  \/ MainRuns \/ BuildFails
  \/ StarterCallsStart \/ FactoryRuns
  \/ SignalArrives \/ FirstSignal \/ SecondSignal
  \/ Exited

Spec == Init /\ [][Next]_vars

\* Every goroutine that can run does, and the first list of the informer
\* succeeds some day.  Nobody has to send a signal.
FairSpec ==
  /\ Spec
  /\ WF_vars(MainRuns) /\ WF_vars(StarterCallsStart) /\ WF_vars(FactoryRuns)
  /\ WF_vars(FirstSignal) /\ WF_vars(SecondSignal)

-----------------------------------------------------------------------------
\* Types; and the goroutine for Start and the workers exist exactly when main
\* is past the statement that starts them.
TypeOK ==
  /\ Factory!TypeOK
  /\ at \in {"setup", "hasSynced", "informer", "addHandler", "spawn", "waitSync",
             "running", "returned", "lister"} \cup DOMAIN NextBuild
  /\ starter \in {"none", "spawned", "called"}
  /\ starter # "none" <=> at \in {"waitSync", "running", "returned"}
  /\ listening \in BOOLEAN /\ handlers \in BOOLEAN /\ workers \in BOOLEAN
  /\ workers <=> at \in {"running", "returned"}
  /\ sent \in 0..MaxSignals /\ pending \in 0..2
  /\ exit \in {-1, 0, 1, 143, 255}

\* No event of the cluster comes before the handlers that must see it: the
\* informer runs only after AddEventHandler (main.go:46-49).
HandlersBeforeEvents == runs[Network] > 0 => handlers

\* Workers look into the lister only after it holds the first list, else
\* syncHandler would take every Network for deleted (controller.go:117).
WorkersAfterSync == workers => Network \in synced

\* The exit status tells a stop that was asked for from a controller that did
\* not work: 0 only after the workers were told to stop, 1 only for a second
\* signal, 255 only if no worker ever ran.
ExitStatusIsRight ==
  /\ exit = 0 => stopped /\ workers
  /\ exit = 1 => stopped /\ sent > 1
  /\ exit = 255 => ~workers
  /\ exit = 143 => at = "setup"

\* "we handle the first shutdown signal gracefully" (main.go:26): at whatever
\* point it arrives, the process ends.
SignalEndsProcess == sent > 0 ~> ~Alive

\* A process that nobody stops gets from Start to its workers: the informer
\* was requested before Start looked for what to start.
WorkersAreLaunched == at = "waitSync" ~> workers \/ stopped \/ ~Alive
=============================================================================

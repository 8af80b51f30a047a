--------------------------- MODULE NetworkInformer ---------------------------
(***************************************************************************)
(* From the options of a factory to what a lister shows.  A program builds  *)
(* a factory (or an informer of its own), which configures one informer;    *)
(* its reflector lists and watches through the typed client, a queue of     *)
(* pending keys brings what it got into the indexer, and listers read that. *)
(* The reflector, the queue and the API server are external.                *)
(***************************************************************************)
EXTENDS Naturals, Sequences, FiniteSets, SequencesExt

CONSTANTS
  Namespaces, Names,
  NamespaceAll,      \* the empty namespace
  Nil,               \* no tweak, no name, no object
  Labelled,          \* the tweak: sets a label selector
  MaxOptions,        \* bounds the options a program gives a factory
  MaxRev,            \* bounds the revisions of the API server
  MaxBreaks          \* bounds how often the watch breaks

ASSUME ConstantsOK ==
  /\ NamespaceAll \notin Namespaces /\ Nil # Labelled
  /\ Nil \notin [key : Namespaces \X Names, version : Nat, labels : BOOLEAN]
  /\ MaxOptions \in Nat /\ MaxRev \in Nat \ {0} /\ MaxBreaks \in Nat

VARIABLES
  log,               \* the API server: its changes; a revision is an index
  asked,             \* the filter and resync the program asked for
  informer,          \* the informer the program got
  reflector,         \* the reflector's next step: "list", "watch" or "receive"
  rv,                \* lastSyncResourceVersion
  stream,            \* the open watch at the server: its request, where it is
  queue,             \* DeltaFIFO: the keys with something pending
  pending,           \* pending[k]: the version it ends in, 0 for none
  populated, initialPopulation,   \* DeltaFIFO: what HasSynced looks at
  cache,             \* the indexer: cache[k] is a version, 0 for none
  breaks,            \* how often the watch broke
  first, before      \* history: the revision of the first list; the revision
                     \* cache[k] is of, for a key in the queue

configVars == <<asked, informer>>
fifoVars == <<queue, pending, populated, initialPopulation>>
vars == <<log, configVars, reflector, rv, stream, fifoVars, cache, breaks,
          first, before>>

C == INSTANCE TypedClientset WITH Merge <- Nil
L == INSTANCE NetworkLister WITH NotFound <- Nil

Keys == Namespaces \X Names
Changes == [key : Keys, live : BOOLEAN, labels : BOOLEAN]

-----------------------------------------------------------------------------
(* The factory and its options.                                            *)

WithNamespace(namespace, f) == [f EXCEPT !.namespace = namespace]

WithTweakListOptions(tweak, f) == [f EXCEPT !.tweakListOptions = tweak]

\* Mutant: the period an earlier option gave is kept.
WithCustomResyncConfigKeeping(config, f) ==
  [f EXCEPT !.customResync =
     [t \in DOMAIN config \cup DOMAIN @ |-> IF t \in DOMAIN @ THEN @[t] ELSE config[t]]]

\* Types not in the config keep what an earlier option gave them.
WithCustomResyncConfig(config, f) ==
  [f EXCEPT !.customResync =
     [t \in DOMAIN config \cup DOMAIN @ |-> IF t \in DOMAIN config THEN config[t] ELSE @[t]]]

WithOption(f, option) ==
  CASE option.with = "namespace" -> WithNamespace(option.value, f)
    [] option.with = "tweak" -> WithTweakListOptions(option.value, f)
    [] option.with = "resync" -> WithCustomResyncConfig(option.value, f)

EmptyFactory(defaultResync) ==
  [namespace |-> NamespaceAll, tweakListOptions |-> Nil,
   defaultResync |-> defaultResync, customResync |-> <<>>]

\* Mutant: the first option that sets a field is kept.
NewFactoryFromTheLast(defaultResync, options) ==
  FoldLeft(WithOption, EmptyFactory(defaultResync), Reverse(options))

NewSharedInformerFactoryWithOptions(defaultResync, options) ==
  FoldLeft(WithOption, EmptyFactory(defaultResync), options)

NewSharedInformerFactory(defaultResync) ==
  NewSharedInformerFactoryWithOptions(defaultResync, <<>>)

NewFilteredSharedInformerFactory(defaultResync, namespace, tweak) ==
  NewSharedInformerFactoryWithOptions(defaultResync,
    <<[with |-> "namespace", value |-> namespace], [with |-> "tweak", value |-> tweak]>>)

-----------------------------------------------------------------------------
(* From the factory to the informer.                                       *)

NewFilteredNetworkInformer(namespace, resync, tweak) ==
  [namespace |-> namespace, resync |-> resync, tweakListOptions |-> tweak]

NewNetworkInformer(namespace, resync) ==
  NewFilteredNetworkInformer(namespace, resync, Nil)

Samplecrd(f) ==
  [factory |-> f, namespace |-> f.namespace, tweakListOptions |-> f.tweakListOptions]

\* group.V1 and version.Networks hand on what the factory gave them.
V1(group) ==
  [factory |-> group.factory, namespace |-> group.namespace,
   tweakListOptions |-> group.tweakListOptions]
Networks(version) ==
  [factory |-> version.factory, namespace |-> version.namespace,
   tweakListOptions |-> version.tweakListOptions]

defaultInformer(n, resync) ==
  NewFilteredNetworkInformer(n.namespace, resync, n.tweakListOptions)

\* The first call for a type, with the method value n.defaultInformer; the
\* others get the same informer, see InformerFactory.
InformerFor(f, type, n) ==
  defaultInformer(n, IF type \in DOMAIN f.customResync THEN f.customResync[type]
                                                       ELSE f.defaultResync)

Informer(n) == InformerFor(n.factory, "Network", n)

\* The generic way to the same informer; other resources are an error.
ForResource(f, resource) ==
  IF resource = "networks" THEN Informer(Networks(V1(Samplecrd(f)))) ELSE Nil

\* With nobody's tweak the options of the reflector go out as they are.
Tweaked(tweak, options) ==
  IF tweak = Nil THEN options ELSE [options EXCEPT !.labels = TRUE]

\* Mutant: the tweak is not applied.
WatchFuncUntweaked(inf, options) == C!Watch(C!Networks(inf.namespace), options)

ListFunc(inf, options) ==
  C!List(C!Networks(inf.namespace), Tweaked(inf.tweakListOptions, options))

WatchFunc(inf, options) ==
  C!Watch(C!Networks(inf.namespace), Tweaked(inf.tweakListOptions, options))

-----------------------------------------------------------------------------
(* The API server.                                                         *)

At == [k \in Keys |-> IF \E i \in DOMAIN queue : queue[i] = k THEN before[k] ELSE rv]
R == INSTANCE Replica WITH at <- At, shown <- cache
StoredAt(k, r) == R!StoredAt(k, r)

\* What a request is answered about a key of version v.
Selects(request, k, v) ==
  /\ v # 0
  /\ request.ns \in {NamespaceAll, k[1]}
  /\ request.params.labels => log[v].labels

Selected(request, k, r) ==
  IF Selects(request, k, StoredAt(k, r)) THEN StoredAt(k, r) ELSE 0

\* Somebody creates, updates, relabels or deletes a Network.
Change ==
  /\ Len(log) < MaxRev
  /\ \E c \in Changes :
       /\ c.live \/ (StoredAt(c.key, Len(log)) # 0 /\ ~c.labels)
       /\ log' = Append(log, c)
  /\ UNCHANGED <<configVars, reflector, rv, stream, fifoVars, cache, breaks, first, before>>

-----------------------------------------------------------------------------
(* What programs do to get an informer.                                    *)

\* What the factory of main and the other constructors are asked for: of two
\* options of one kind the later counts.
OptionLists ==
  SeqOf({[with |-> "namespace", value |-> ns] : ns \in Namespaces \cup {NamespaceAll}}
          \cup {[with |-> "tweak", value |-> Labelled]}
          \cup {[with |-> "resync", value |-> [t \in {"Network"} |-> p]] : p \in 0..1},
        MaxOptions)

LastOf(options, kind, otherwise) ==
  LET of == {i \in DOMAIN options : options[i].with = kind}
  IN IF of = {} THEN otherwise ELSE options[Max(of)].value

Asked(namespace, labels, resync) ==
  [namespace |-> namespace, labels |-> labels, resync |-> resync]

\* f was made by a program that asked for a; one of the two ways leads from it
\* to the informer.
Uses(f, a) ==
  /\ asked = a
  /\ informer \in {Informer(Networks(V1(Samplecrd(f)))), ForResource(f, "networks")}

BuildsInformer ==
  \/ Uses(NewSharedInformerFactory(1), Asked(NamespaceAll, FALSE, 1))
  \/ \E ns \in Namespaces, tweak \in {Nil, Labelled} :
       Uses(NewFilteredSharedInformerFactory(1, ns, tweak), Asked(ns, tweak = Labelled, 1))
  \/ \E options \in OptionLists :
       Uses(NewSharedInformerFactoryWithOptions(0, options),
            Asked(LastOf(options, "namespace", NamespaceAll),
                  LastOf(options, "tweak", Nil) = Labelled,
                  LastOf(options, "resync", [t \in {"Network"} |-> 0])["Network"]))
  \/ \E ns \in Namespaces \cup {NamespaceAll} :
       /\ informer = NewNetworkInformer(ns, 0)
       /\ asked = Asked(ns, FALSE, 0)

Init ==
  /\ \E c \in Changes : c.live /\ log = <<c>>
  /\ BuildsInformer
  /\ reflector = "list" /\ rv = 0 /\ stream = Nil
  /\ queue = <<>> /\ pending = [k \in Keys |-> 0]
  /\ populated = FALSE /\ initialPopulation = 0
  /\ cache = [k \in Keys |-> 0]
  /\ breaks = 0 /\ first = 0 /\ before = [k \in Keys |-> 0]

-----------------------------------------------------------------------------
(* The reflector and its queue.                                            *)

Queued(k) == \E i \in DOMAIN queue : queue[i] = k

\* Each key of news has something new pending; they come in any order, that of
\* a list or of an iteration over the indexer's map.
Enqueue(news, version) ==
  /\ \E order \in SetToSeqs({k \in news : ~Queued(k)}) : queue' = queue \o order
  /\ pending' = [k \in Keys |-> IF k \in news THEN version[k] ELSE pending[k]]
  /\ before' = [k \in Keys |-> IF k \in news /\ ~Queued(k) THEN rv ELSE before[k]]

\* The list is of any revision the server has that is not older than what it
\* has told this client: it may answer from its watch cache.  What the list
\* does not have and the indexer has is deleted.  After an error the reflector
\* waits a second before it lists, in which the queue empties.
ListAndReplace ==
  /\ reflector = "list" /\ queue = <<>>
  /\ \E r \in rv..Len(log) :
       LET request == ListFunc(informer, [labels |-> FALSE, rv |-> 0, watch |-> FALSE])
           listed == [k \in Keys |-> Selected(request, k, r)]
           news == {k \in Keys : listed[k] # 0 \/ cache[k] # 0}
       IN /\ r > 0
          /\ Enqueue(news, listed)
          /\ rv' = r
          /\ first' = IF populated THEN first ELSE r
          /\ populated' = TRUE
          /\ initialPopulation' = IF populated THEN initialPopulation ELSE Cardinality(news)
  /\ reflector' = "watch"
  /\ UNCHANGED <<log, configVars, stream, cache, breaks>>

\* A watch without a revision starts with what there is.
OpenWatch ==
  /\ reflector = "watch"
  /\ LET request == WatchFunc(informer, [labels |-> FALSE, rv |-> rv, watch |-> FALSE])
         now == [k \in Keys |-> Selected(request, k, Len(log))]
     IN IF request.params.rv # 0
          THEN /\ stream' = [request |-> request, position |-> request.params.rv]
               /\ UNCHANGED <<queue, pending, before, rv>>
          ELSE /\ stream' = [request |-> request, position |-> Len(log)]
               /\ Enqueue({k \in Keys : now[k] # 0}, now)
               /\ rv' = Len(log)
  /\ reflector' = "receive"
  /\ UNCHANGED <<log, configVars, populated, initialPopulation, cache, breaks, first>>

\* The watch has an event for a change if the request selects the Network
\* after it (added or modified) or before it (deleted).
Event(i) ==
  LET k == log[i].key
  IN Selected(stream.request, k, i) # 0 \/ Selected(stream.request, k, i - 1) # 0

Receive ==
  /\ reflector = "receive"
  /\ \E i \in (stream.position + 1)..Len(log) :
       /\ Event(i) /\ \A j \in (stream.position + 1)..(i - 1) : ~Event(j)
       /\ LET k == log[i].key
              v == Selected(stream.request, k, i)
          IN IF v = 0 /\ cache[k] = 0 /\ ~Queued(k)
               THEN UNCHANGED <<queue, pending, before>>
               ELSE Enqueue({k}, [l \in {k} |-> v])
       /\ stream' = [stream EXCEPT !.position = i]
       /\ rv' = i
  /\ UNCHANGED <<log, configVars, reflector, populated, initialPopulation, cache, breaks, first>>

\* The watch ends: it is opened again where it was, or, if the server has
\* forgotten that revision or anything else is wrong, after a new list.
WatchBreaks ==
  /\ reflector = "receive" /\ breaks < MaxBreaks
  /\ breaks' = breaks + 1
  /\ reflector' \in {"list", "watch"}
  /\ stream' = Nil
  /\ UNCHANGED <<log, configVars, rv, fifoVars, cache, first, before>>

\* HandleDeltas, for the oldest key.
Pop ==
  /\ queue # <<>>
  /\ cache' = [cache EXCEPT ![Head(queue)] = pending[Head(queue)]]
  /\ pending' = [pending EXCEPT ![Head(queue)] = 0]
  /\ queue' = Tail(queue)
  /\ initialPopulation' = IF initialPopulation = 0 THEN 0 ELSE initialPopulation - 1
  /\ before' = [before EXCEPT ![Head(queue)] = 0]
  /\ UNCHANGED <<log, configVars, reflector, rv, stream, populated, breaks, first>>

\* Every cached object that has nothing pending comes once more.
Resync ==
  /\ informer.resync # 0 /\ reflector # "list"
  /\ LET again == {k \in Keys : cache[k] # 0 /\ ~Queued(k)}
     IN again # {} /\ Enqueue(again, cache)
  /\ UNCHANGED <<log, configVars, reflector, rv, stream, populated, initialPopulation,
                 cache, breaks, first>>

Next ==
  \/ Change \/ ListAndReplace \/ OpenWatch \/ Receive \/ WatchBreaks \/ Pop \/ Resync

Spec == Init /\ [][Next]_vars

\* The reflector goes on, the watch delivers, the queue is emptied.  Nobody has
\* to change anything, and resyncs and breaks owe nothing.
FairSpec ==
  Spec /\ WF_vars(ListAndReplace) /\ WF_vars(OpenWatch) /\ WF_vars(Receive) /\ WF_vars(Pop)

-----------------------------------------------------------------------------
(* What readers get.                                                       *)

HasSynced == populated /\ initialPopulation = 0

Indexer ==
  [k \in {l \in Keys : cache[l] # 0} |-> [key |-> k, version |-> cache[k], labels |-> log[cache[k]].labels]]

Lister == L!NewNetworkLister(Indexer)

-----------------------------------------------------------------------------
\* An open watch: what was asked for, and how far the server is with it.
Streams ==
  [request : [verb : {"GET"}, ns : Namespaces \cup {NamespaceAll}, name : {Nil},
              params : [labels : BOOLEAN, rv : Nat, watch : {TRUE}], body : {Nil}],
   position : Nat]

\* Types; and a key is pending once.
TypeOK ==
  /\ log \in Seq(Changes) /\ Len(log) \in 1..MaxRev
  /\ asked \in [namespace : Namespaces \cup {NamespaceAll}, labels : BOOLEAN, resync : 0..1]
  /\ informer.resync = asked.resync
  /\ reflector \in {"list", "watch", "receive"}
  /\ rv \in 0..Len(log) /\ first \in 0..rv
  /\ stream \in IF reflector = "receive" THEN Streams ELSE {Nil}
  /\ queue \in Seq(Keys) /\ \A i, j \in DOMAIN queue : queue[i] = queue[j] => i = j
  /\ cache \in [Keys -> 0..rv] /\ pending \in [Keys -> 0..rv] /\ before \in [Keys -> 0..rv]
  /\ populated \in BOOLEAN /\ initialPopulation \in 0..Len(queue)
  /\ breaks \in 0..MaxBreaks

\* The queue brings the indexer to the revision the reflector has: whatever
\* was listed again, watched, deleted or resynced in between, nothing older
\* and nothing the program did not ask for is on its way.
QueueLeadsToRv ==
  \A k \in Keys : (IF Queued(k) THEN pending[k] ELSE cache[k]) = R!Promised(k, rv)

\* WaitForCacheSync (controller.go:117) waits for HasSynced, and the lister is
\* complete from then on: Get finds each Network as it was at the first list
\* or later, and lists have, of their namespace or of all, what Get finds.
SyncedListerIsComplete ==
  HasSynced =>
    LET Got(ns, name) == L!Get(L!Networks(Lister, ns), name)
        In(ns) == {Got(n, name) : n \in IF ns = NamespaceAll THEN Namespaces ELSE {ns},
                                  name \in Names} \ {Nil}
    IN /\ \A ns \in Namespaces, name \in Names :
            \E r \in first..rv :
              R!Promised(<<ns, name>>, r) =
                IF Got(ns, name) = Nil THEN 0 ELSE Got(ns, name).version
       /\ \A ns \in Namespaces \cup {NamespaceAll} :
            /\ L!NamespaceList(L!Networks(Lister, ns), BOOLEAN) = In(ns)
            /\ L!NamespaceList(L!Networks(Lister, ns), {TRUE}) = {n \in In(ns) : n.labels}
       /\ L!List(Lister, {TRUE}) = {n \in In(NamespaceAll) : n.labels}

\* The filter the program gave the factory is the filter of all it reads
\* ("Listers obtained via this SharedInformerFactory will be subject to the
\* same filters as specified here", factory.go:84), and no reader sees a
\* Network go back, although the reflector lists again and reopens its watch.
ImplementsReplica == R!Spec

\* When the server changes no more and the watch breaks no more, readers get
\* its last state.
CatchesUp ==
  <>[](\A k \in Keys : cache[k] = R!Promised(k, Len(log)))
=============================================================================

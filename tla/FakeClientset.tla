----------------------------- MODULE FakeClientset -----------------------------
(***************************************************************************)
(* The fake clientset that tests are meant to use in place of the API       *)
(* server, and the informer and controller under test on it: the informer   *)
(* lists, then watches, applies what the watch brings to its cache and      *)
(* notifies the controller.  The object tracker and the watch channel are   *)
(* client-go's; each call of the fake is one step, under its lock.          *)
(***************************************************************************)
EXTENDS Naturals, Sequences

CONSTANTS
  Names,             \* names of Networks, in the one namespace of a test
  Contents,          \* what a Network can hold beside its resource version
  Labelled,          \* the contents whose labels the informer selects
  Versions,          \* the resource versions a test writes into Networks, the
                     \* empty one among them
  ChanSize,          \* what the watch channel holds
  Absent             \* no Network

\* A test may write any version into any content, also one it has used.
Networks == [content : Contents, version : Versions]

Selected == {network \in Networks : network.content \in Labelled}

ASSUME ContentsOK ==
  Labelled \subseteq Contents /\ Absent \notin Networks /\ ChanSize \in Nat

VARIABLES
  objects,           \* objects[n]: what the tracker stores
  started,           \* NewSimpleClientset has returned
  reflector,         \* the informer's next request: "list", "watch", or "apply"
  cache,             \* cache[n]: the informer's indexer
  events,            \* the watch channel
  due,               \* the names the controller's handlers have enqueued
  acted,             \* acted[n]: what the controller last acted on
  panicked,          \* the test has panicked
  missed,            \* changed after the list, before the watch began
  watched            \* changed since the watch began

trackerVars == <<objects, started, panicked>>
informerVars == <<reflector, cache>>
controllerVars == <<due, acted>>
historyVars == <<missed, watched>>
vars == <<trackerVars, informerVars, controllerVars, events, historyVars>>

Init ==
  /\ objects = [n \in Names |-> Absent] /\ started = FALSE /\ panicked = FALSE
  /\ reflector = "list" /\ cache = objects /\ events = <<>>
  /\ due = {} /\ acted = cache
  /\ missed = {} /\ watched = {}

-----------------------------------------------------------------------------
(* The tracker.                                                            *)

\* What is stored of n changes, and every watch gets an event; a full channel
\* panics.
Track(n, network) ==
  /\ IF reflector = "apply" /\ Len(events) = ChanSize
       THEN panicked' = TRUE /\ UNCHANGED <<objects, events>>
       ELSE /\ objects' = [objects EXCEPT ![n] = network]
            /\ events' = IF reflector = "apply"
                           THEN Append(events, [name |-> n, network |-> network])
                           ELSE events
            /\ UNCHANGED panicked
  /\ missed' = IF reflector = "watch" THEN missed \cup {n} ELSE missed \ {n}
  /\ watched' = IF reflector = "apply" THEN watched \cup {n} ELSE watched
  /\ UNCHANGED <<started, informerVars, controllerVars>>

\* The reaction is an error: nothing happened.
Refused == UNCHANGED vars

Running == started /\ ~panicked

\* The initial objects; an object given twice panics.
NewSimpleClientset ==
  /\ ~started /\ ~panicked
  /\ \/ \E given \in [Names -> Networks \cup {Absent}] : objects' = given
        /\ started' = TRUE /\ UNCHANGED panicked
     \/ panicked' = TRUE /\ UNCHANGED <<objects, started>>
  /\ UNCHANGED <<informerVars, controllerVars, events, historyVars>>

\* As it is: no resource version is given out.
Create(n, network) ==
  /\ Running
  /\ IF objects[n] = Absent THEN Track(n, network) ELSE Refused

\* As it is: no resource version is compared and none is given out.  A Network
\* that a test got, changed and updated keeps its own.
Update(n, network) ==
  /\ Running
  /\ IF objects[n] # Absent THEN Track(n, network) ELSE Refused

Delete(n) ==
  /\ Running
  /\ IF objects[n] # Absent THEN Track(n, Absent) ELSE Refused

\* Not every client-go has a reaction to it: the fake then returns its default,
\* an empty Network and no error.
Patch(n, network) ==
  /\ Running
  /\ \/ objects[n] # Absent /\ Track(n, network)
     \/ UNCHANGED vars

\* The tracker has no reaction to it: the fake returns its default, no error.
DeleteCollection == Running /\ UNCHANGED vars

-----------------------------------------------------------------------------
(* The informer's requests, and the handlers it notifies.                  *)

\* Mutant: the comparison the wrong way round.
UpdateFuncSwapped(old, new) == old.version = new.version

\* Whether an update is enqueued: not if it looks like a resync.
UpdateFunc(old, new) == old.version # new.version

\* Whether the controller enqueues a Network that goes from old to new in the
\* cache: AddFunc and DeleteFunc always do.
Enqueues(old, new) ==
  IF old # Absent /\ new # Absent THEN UpdateFunc(old, new) ELSE old # new

\* Mutant: the fake's List does not filter.
ListUnfiltered ==
  /\ Running /\ reflector = "list"
  /\ cache' = objects
  /\ reflector' = "watch"
  /\ due' = {n \in Names : Enqueues(cache[n], cache'[n])}
  /\ UNCHANGED <<trackerVars, acted, events, historyVars>>

\* The fake's List takes from the tracker what the labels select.
List ==
  /\ Running /\ reflector = "list"
  /\ cache' = [n \in Names |-> IF objects[n] \in Selected THEN objects[n] ELSE Absent]
  /\ reflector' = "watch"
  /\ due' = {n \in Names : Enqueues(cache[n], cache'[n])}
  /\ UNCHANGED <<trackerVars, acted, events, historyVars>>

\* A watch of everything, from now on: the reactor looks only at the resource
\* and the namespace, not at the labels or the resource version of the list.
Watch ==
  /\ Running /\ reflector = "watch"
  /\ reflector' = "apply"
  /\ UNCHANGED <<trackerVars, cache, controllerVars, events, historyVars>>

ApplyEvent ==
  /\ Running /\ reflector = "apply" /\ events # <<>>
  /\ LET n == Head(events).name
         network == Head(events).network
     IN /\ cache' = [cache EXCEPT ![n] = network]
        /\ due' = IF Enqueues(cache[n], network) THEN due \cup {n} ELSE due
  /\ events' = Tail(events)
  /\ UNCHANGED <<trackerVars, reflector, acted, historyVars>>

\* A worker of the controller: it acts on what the lister has now.
Sync(n) ==
  /\ ~panicked /\ n \in due
  /\ acted' = [acted EXCEPT ![n] = cache[n]]
  /\ due' = due \ {n}
  /\ UNCHANGED <<trackerVars, informerVars, events, historyVars>>

Panicked == panicked /\ UNCHANGED vars

Next ==
  \/ NewSimpleClientset
  \/ \E n \in Names :
       \/ \E w \in Networks : Create(n, w) \/ Update(n, w) \/ Patch(n, w)
       \/ Delete(n) \/ Sync(n)
  \/ DeleteCollection \/ List \/ Watch \/ ApplyEvent \/ Panicked

Spec == Init /\ [][Next]_vars

-----------------------------------------------------------------------------
\* Types; before the watch the cache holds only what was selected; and a test
\* that had its clientset panicked on a full channel.
TypeOK ==
  /\ objects \in [Names -> Networks \cup {Absent}]
  /\ cache \in [Names -> Networks \cup {Absent}]
  /\ reflector = "watch" => cache \in [Names -> Selected \cup {Absent}]
  /\ due \subseteq Names /\ acted \in [Names -> Networks \cup {Absent}]
  /\ started \in BOOLEAN /\ panicked \in BOOLEAN
  /\ reflector \in {"list", "watch", "apply"}
  /\ events \in Seq([name : Names, network : Networks \cup {Absent}])
  /\ Len(events) <= ChanSize
  /\ panicked /\ started => Len(events) = ChanSize
  /\ missed \subseteq Names /\ watched \subseteq Names

\* What the cache will hold of n when the watch has brought what it has.
Settled(n) ==
  LET about == {i \in 1..Len(events) : events[i].name = n}
  IN IF about = {} THEN cache[n]
     ELSE events[CHOOSE i \in about : \A j \in about : j <= i].network

\* How far an informer on the fake may be trusted: once it watches, it will
\* have every Network as the tracker has it, except those changed between its
\* list and its watch and not since, and those its labels exclude and nobody
\* has touched since; one it excludes comes in as soon as it is touched.
CacheFollowsTracker ==
  reflector = "apply" /\ ~panicked =>
    \A n \in Names \ missed :
      Settled(n) = IF n \in watched \/ objects[n] \in Selected
                     THEN objects[n] ELSE Absent

\* How far a controller on the fake may be trusted: with nothing enqueued it
\* has acted on what its informer has, but for what came since under the
\* resource version it acted on, however many updates that were; such an update
\* (a Network got, changed and updated) it does not see.  "Two different versions
\* of the same Network will always have different RVs" (controller.go:93) is not
\* so of a tracker that processes updates as they are.  What exists and what
\* does not it gets right, whatever came in between.
ControllerFollowsFake ==
  \A n \in Names \ due :
    acted[n] # cache[n] =>
      /\ acted[n] # Absent /\ cache[n] # Absent
      /\ acted[n].version = cache[n].version
=============================================================================

-------------------------- MODULE FakeClientsetProofs --------------------------
(***************************************************************************)
(* How far the fake clientset may be trusted, for any names and contents,   *)
(* any labels, any resource versions a test writes and any watch channel.   *)
(***************************************************************************)
EXTENDS FakeClientset, WellFoundedInduction, TLAPS

USE DEF trackerVars, informerVars, controllerVars, historyVars, vars

\* What the informer's labels let it list of n.
Listed(n) == IF objects[n] \in Selected THEN objects[n] ELSE Absent

\* Until the watch begins there are no events, the cache is what was listed,
\* and nothing before the list has reached the controller.
BeforeWatch ==
  /\ ~started => reflector = "list"
  /\ reflector # "apply" => events = <<>> /\ watched = {}
  /\ reflector = "watch" => \A n \in Names \ missed : cache[n] = Listed(n)
  /\ reflector = "list" =>
       /\ cache = [n \in Names |-> Absent] /\ acted = cache
       /\ due = {} /\ missed = {}

FakeInv == TypeOK /\ BeforeWatch /\ CacheFollowsTracker /\ ControllerFollowsFake

-----------------------------------------------------------------------------
(* What a watch channel brings.                                             *)

\* The events about n, and what a cache that holds this of n will hold when
\* it has applied them all.
About(es, n) == {i \in 1..Len(es) : es[i].name = n}

Brought(es, held, n) ==
  IF About(es, n) = {} THEN held
  ELSE es[CHOOSE i \in About(es, n) : \A j \in About(es, n) : j <= i].network

LEMMA SettledIsBrought == \A n : Settled(n) = Brought(events, cache[n], n)
BY DEF Settled, Brought, About

\* The order of the channel, as a relation.
Later == {p \in Nat \X Nat : p[1] < p[2]}

LEMMA GreatestElement ==
  ASSUME NEW m \in Nat, NEW S \in SUBSET (1..m), S # {}
  PROVE  \E i \in S : \A j \in S : j <= i
<1> DEFINE Above == {u \in Nat : \A i \in S : i <= u}
<1>1. IsWellFoundedOn(Later, Nat)
  BY NatLessThanWellFounded DEF Later, OpToRel
<1>2. m \in Above /\ Above \subseteq Nat
  OBVIOUS
<1>3. PICK u \in Above : \A v \in Above : ~ (<<v, u>> \in Later)
  BY <1>1, <1>2, WFMin
<1>4. \A v \in Above : ~ (v < u)
  BY <1>2, <1>3 DEF Later
<1>5. u \in S
  <2> SUFFICES ASSUME u \notin S PROVE FALSE
    OBVIOUS
  <2>1. PICK i \in S : TRUE
    OBVIOUS
  <2>2. u \in Nat /\ i \in 1..u
    BY <1>3, <2>1
  <2>3. u - 1 \in Above
    BY <1>3, <2>2
  <2> QED
    BY <1>4, <2>2, <2>3
<1> QED
  BY <1>3, <1>5

\* The last event about n decides.
LEMMA LastDecides ==
  ASSUME NEW S, NEW es \in Seq(S), NEW held, NEW n,
         NEW i \in About(es, n), \A j \in About(es, n) : j <= i
  PROVE  Brought(es, held, n) = es[i].network
<1>1. About(es, n) \subseteq Nat
  BY DEF About
<1>2. i = CHOOSE k \in About(es, n) : \A j \in About(es, n) : j <= k
  BY <1>1
<1> QED
  BY <1>2 DEF Brought

LEMMA SomeLast ==
  ASSUME NEW S, NEW es \in Seq(S), NEW n, About(es, n) # {}
  PROVE  \E i \in About(es, n) : \A j \in About(es, n) : j <= i
<1>1. Len(es) \in Nat /\ About(es, n) \in SUBSET (1..Len(es))
  BY DEF About
<1> QED
  BY <1>1, GreatestElement

LEMMA EmptyBrings == \A held, n : Brought(<<>>, held, n) = held
BY DEF Brought, About

\* An event sent last is what the channel brings of its object.
LEMMA AppendBrings ==
  ASSUME NEW S, NEW es \in Seq(S), NEW e \in S, NEW held, NEW n
  PROVE  Brought(Append(es, e), held, n) =
           IF e.name = n THEN e.network ELSE Brought(es, held, n)
<1> DEFINE fs == Append(es, e)
<1>1. /\ fs \in Seq(S) /\ Len(es) \in Nat /\ Len(fs) = Len(es) + 1
      /\ fs[Len(fs)] = e /\ \A i \in 1..Len(es) : fs[i] = es[i]
  OBVIOUS
<1> HIDE DEF fs
<1>2. CASE e.name = n
  <2>1. Len(fs) \in About(fs, n) /\ \A j \in About(fs, n) : j <= Len(fs)
    BY <1>1, <1>2 DEF About
  <2>2. Brought(fs, held, n) = fs[Len(fs)].network
    BY <1>1, <2>1, LastDecides
  <2> QED
    BY <1>1, <1>2, <2>2 DEF fs
<1>3. CASE e.name # n
  <2>1. About(fs, n) = About(es, n)
    BY <1>1, <1>3 DEF About
  <2>2. CASE About(es, n) = {}
    BY <1>3, <2>1, <2>2 DEF Brought, fs
  <2>3. CASE About(es, n) # {}
    <3>1. PICK i \in About(es, n) : \A j \in About(es, n) : j <= i
      BY <2>3, SomeLast
    <3>2. Brought(es, held, n) = es[i].network
      BY <3>1, LastDecides
    <3>3. Brought(fs, held, n) = fs[i].network
      BY <1>1, <2>1, <3>1, LastDecides
    <3>4. fs[i] = es[i]
      BY <1>1 DEF About
    <3> QED
      BY <1>3, <3>2, <3>3, <3>4 DEF fs
  <2> QED
    BY <2>2, <2>3
<1> QED
  BY <1>2, <1>3

\* Applying the first event changes nothing about what will be there.
LEMMA TailBrings ==
  ASSUME NEW S, NEW es \in Seq(S), es # <<>>, NEW held, NEW n
  PROVE  Brought(es, held, n) =
           Brought(Tail(es), IF Head(es).name = n THEN Head(es).network ELSE held, n)
<1> DEFINE ts == Tail(es)
           now == IF Head(es).name = n THEN Head(es).network ELSE held
<1>1. /\ ts \in Seq(S) /\ Len(es) \in Nat \ {0} /\ Len(ts) = Len(es) - 1
      /\ Head(es) = es[1] /\ \A i \in 1..Len(ts) : ts[i] = es[i + 1]
  OBVIOUS
<1> HIDE DEF ts
<1>2. \A i \in Nat : i \in About(ts, n) <=> i + 1 \in About(es, n) /\ i # 0
  BY <1>1 DEF About
<1>3. About(es, n) \subseteq Nat \ {0} /\ About(ts, n) \subseteq Nat \ {0}
  BY DEF About
<1>4. CASE About(ts, n) # {}
  <2>1. PICK i \in About(ts, n) : \A j \in About(ts, n) : j <= i
    BY <1>1, <1>4, SomeLast
  <2>2. i + 1 \in About(es, n)
    BY <1>2, <1>3, <2>1
  <2>3. ASSUME NEW j \in About(es, n)
        PROVE  j <= i + 1
    <3>1. CASE j = 1
      BY <1>3, <2>1, <3>1
    <3>2. CASE j # 1
      <4>1. j - 1 \in Nat /\ j - 1 # 0 /\ (j - 1) + 1 = j
        BY <1>3, <2>3, <3>2
      <4>2. j - 1 \in About(ts, n)
        BY <1>2, <2>3, <4>1
      <4>3. j - 1 <= i
        BY <2>1, <4>2
      <4> QED
        BY <1>3, <2>1, <2>3, <4>3
    <3> QED
      BY <3>1, <3>2
  <2>4. Brought(ts, now, n) = ts[i].network
    BY <1>1, <2>1, LastDecides
  <2>5. Brought(es, held, n) = es[i + 1].network
    BY <2>2, <2>3, LastDecides
  <2>6. ts[i] = es[i + 1]
    BY <1>1, <2>1 DEF About
  <2> QED
    BY <2>4, <2>5, <2>6 DEF ts
<1>5. CASE About(ts, n) = {}
  <2>1. Brought(ts, now, n) = now
    BY <1>5 DEF Brought
  <2>2. \A j \in About(es, n) : j = 1
    <3> SUFFICES ASSUME NEW j \in About(es, n), j # 1 PROVE FALSE
      OBVIOUS
    <3>1. j - 1 \in Nat /\ j - 1 # 0 /\ (j - 1) + 1 = j
      BY <1>3
    <3> QED
      BY <1>2, <1>5, <3>1
  <2>3. CASE Head(es).name = n
    <3>1. 1 \in About(es, n)
      BY <1>1, <2>3 DEF About
    <3>2. Brought(es, held, n) = es[1].network
      BY <2>2, <3>1, LastDecides
    <3> QED
      BY <1>1, <2>1, <2>3, <3>2 DEF ts
  <2>4. CASE Head(es).name # n
    <3>1. About(es, n) = {}
      BY <1>1, <2>2, <2>4 DEF About
    <3>2. Brought(es, held, n) = held
      BY <3>1 DEF Brought
    <3> QED
      BY <2>1, <2>4, <3>2 DEF ts
  <2> QED
    BY <2>3, <2>4
<1> QED
  BY <1>4, <1>5

-----------------------------------------------------------------------------
(* The steps.                                                               *)

Events == [name : Names, network : Networks \cup {Absent}]

LEMMA InitInv == Init => FakeInv
<1> SUFFICES ASSUME Init PROVE FakeInv
  OBVIOUS
<1>1. TypeOK
  <2>1. events \in Seq(Events) /\ Len(events) <= ChanSize
    BY ContentsOK DEF Init
  <2>2. objects \in [Names -> Networks \cup {Absent}] /\ cache = objects /\ acted = objects
    BY DEF Init
  <2> QED
    BY <2>1, <2>2 DEF Init, TypeOK, Events
<1>2. BeforeWatch
  BY DEF Init, BeforeWatch
<1>3. CacheFollowsTracker /\ ControllerFollowsFake
  BY DEF Init, CacheFollowsTracker, ControllerFollowsFake
<1> QED
  BY <1>1, <1>2, <1>3 DEF FakeInv

\* A change goes through the channel of the watch, or is in what the list
\* returns, or is missed.
LEMMA TrackStep ==
  ASSUME FakeInv, Running, NEW n \in Names, NEW network \in Networks \cup {Absent},
         Track(n, network)
  PROVE  FakeInv'
<1> USE DEF FakeInv
<1>1. TypeOK'
  <2>1. /\ objects' \in [Names -> Networks \cup {Absent}]
        /\ missed' \subseteq Names /\ watched' \subseteq Names /\ panicked' \in BOOLEAN
    BY DEF Track, TypeOK
  <2>2. events' \in Seq(Events) /\ Len(events') <= ChanSize
    <3>1. [name |-> n, network |-> network] \in Events
      BY DEF Events
    <3>2. /\ events \in Seq(Events) /\ Len(events) \in Nat /\ Len(events) <= ChanSize
          /\ ChanSize \in Nat
      BY ContentsOK DEF TypeOK, Events
    <3>3. CASE events' = events
      BY <3>2, <3>3
    <3>4. CASE /\ events' = Append(events, [name |-> n, network |-> network])
               /\ Len(events) # ChanSize
      <4> DEFINE e == [name |-> n, network |-> network]
      <4>1. e \in Events /\ events' = Append(events, e)
        BY <3>1, <3>4
      <4> HIDE DEF e
      <4> QED
        BY <3>2, <3>4, <4>1
    <3> QED
      BY <3>3, <3>4 DEF Track
  <2>3. UNCHANGED <<started, reflector, cache, due, acted>>
    BY DEF Track
  <2>4. panicked' => Len(events') = ChanSize
    BY DEF Track, Running
  <2> QED
    BY <2>1, <2>2, <2>3, <2>4 DEF TypeOK, Events
<1>2. BeforeWatch'
  BY DEF Track, BeforeWatch, Listed, Running, TypeOK
<1>3. CacheFollowsTracker'
  <2> SUFFICES ASSUME reflector' = "apply", ~panicked', NEW m \in Names \ missed'
               PROVE  Settled(m)' = IF m \in watched' \/ objects'[m] \in Selected
                                      THEN objects'[m] ELSE Absent
    BY DEF CacheFollowsTracker
  <2> DEFINE e == [name |-> n, network |-> network]
  <2>1. /\ reflector = "apply" /\ ~panicked /\ UNCHANGED cache
        /\ events' = Append(events, e) /\ objects' = [objects EXCEPT ![n] = network]
        /\ missed' = missed \ {n} /\ watched' = watched \cup {n}
    BY DEF Track, Running
  <2>2. e \in Events /\ e.name = n /\ e.network = network
    BY DEF Events
  <2>3. events \in Seq(Events) /\ objects \in [Names -> Networks \cup {Absent}]
    BY DEF TypeOK, Events
  <2> HIDE DEF e
  <2>4. Brought(events', cache[m], m) =
          IF n = m THEN network ELSE Brought(events, cache[m], m)
    BY <2>1, <2>2, <2>3, AppendBrings
  <2>5. Settled(m)' = Brought(events', cache[m], m) /\ Settled(m) = Brought(events, cache[m], m)
    <3>1. Settled(m)' = Brought(events', cache'[m], m)
      BY DEF Settled, Brought, About
    <3> QED
      BY <2>1, <3>1, SettledIsBrought
  <2>6. CASE m = n
    BY <2>1, <2>3, <2>4, <2>5, <2>6
  <2>7. CASE m # n
    <3>1. m \in Names \ missed
      BY <2>1, <2>7
    <3>2. Settled(m) = IF m \in watched \/ objects[m] \in Selected THEN objects[m] ELSE Absent
      BY <2>1, <3>1 DEF CacheFollowsTracker
    <3> QED
      BY <2>1, <2>3, <2>4, <2>5, <2>7, <3>2
  <2> QED
    BY <2>6, <2>7
<1>4. ControllerFollowsFake'
  BY DEF ControllerFollowsFake, Track
<1> QED
  BY <1>1, <1>2, <1>3, <1>4

LEMMA SameInv == FakeInv /\ UNCHANGED vars => FakeInv'
<1> SUFFICES ASSUME FakeInv, UNCHANGED vars PROVE FakeInv'
  OBVIOUS
<1>1. TypeOK' /\ BeforeWatch'
  BY DEF FakeInv, TypeOK, BeforeWatch, Listed
<1>2. CacheFollowsTracker' /\ ControllerFollowsFake'
  <2>1. \A n : Settled(n)' = Settled(n)
    BY DEF Settled
  <2> QED
    BY <2>1 DEF FakeInv, CacheFollowsTracker, ControllerFollowsFake
<1> QED
  BY <1>1, <1>2 DEF FakeInv

LEMMA NewStep == FakeInv /\ NewSimpleClientset => FakeInv'
<1> SUFFICES ASSUME FakeInv, NewSimpleClientset PROVE FakeInv'
  OBVIOUS
<1>1. reflector = "list" /\ UNCHANGED <<reflector, cache, due, acted, events, missed, watched>>
  BY DEF NewSimpleClientset, FakeInv, BeforeWatch
<1>2. TypeOK'
  <2>1. objects' \in [Names -> Networks \cup {Absent}]
    BY DEF FakeInv, TypeOK, NewSimpleClientset
  <2>2. \/ started' = TRUE /\ panicked' = FALSE
        \/ started' = FALSE /\ panicked' = TRUE
    <3>1. started = FALSE /\ panicked = FALSE
      BY DEF FakeInv, TypeOK, NewSimpleClientset
    <3> QED
      BY <3>1 DEF NewSimpleClientset
  <2> QED
    BY <1>1, <2>1, <2>2 DEF FakeInv, TypeOK
<1>3. BeforeWatch'
  BY <1>1 DEF FakeInv, BeforeWatch
<1>4. CacheFollowsTracker' /\ ControllerFollowsFake'
  BY <1>1 DEF FakeInv, CacheFollowsTracker, ControllerFollowsFake
<1> QED
  BY <1>2, <1>3, <1>4 DEF FakeInv

\* Both exist, under one resource version.
SameVersion(old, new) ==
  old # Absent /\ new # Absent /\ old.version = new.version

\* A change is not enqueued only if it keeps the resource version.
LEMMA UnenqueuedKeepsVersion ==
  ASSUME NEW old \in Networks \cup {Absent}, NEW new \in Networks \cup {Absent},
         ~Enqueues(old, new), old # new
  PROVE  SameVersion(old, new)
BY DEF Enqueues, UpdateFunc, SameVersion

LEMMA ListStep == FakeInv /\ List => FakeInv'
<1> SUFFICES ASSUME FakeInv, List PROVE FakeInv'
  OBVIOUS
<1> USE DEF FakeInv
<1>1. /\ cache' = [n \in Names |-> IF objects[n] \in Selected THEN objects[n] ELSE Absent]
      /\ reflector = "list" /\ reflector' = "watch"
      /\ due' = {n \in Names : Enqueues(cache[n], cache'[n])}
      /\ UNCHANGED <<objects, started, panicked, acted, events, missed, watched>>
  BY DEF List
<1>2. /\ cache = [n \in Names |-> Absent] /\ acted = cache /\ started
      /\ missed = {} /\ events = <<>> /\ watched = {}
  BY <1>1 DEF BeforeWatch, List, Running
<1>3. TypeOK'
  <2>1. cache' \in [Names -> Selected \cup {Absent}] /\ due' \subseteq Names
    BY <1>1
  <2>2. cache' \in [Names -> Networks \cup {Absent}]
    BY <2>1 DEF Selected
  <2> QED
    BY <1>1, <2>1, <2>2 DEF TypeOK
<1>4. BeforeWatch'
  BY <1>1, <1>2 DEF BeforeWatch, Listed
<1>5. CacheFollowsTracker'
  BY <1>1 DEF CacheFollowsTracker
<1>6. ControllerFollowsFake'
  <2> SUFFICES ASSUME NEW n \in Names \ due', acted'[n] # cache'[n]
               PROVE  SameVersion(acted'[n], cache'[n])
    BY DEF ControllerFollowsFake, SameVersion
  <2>1. acted'[n] = cache[n] /\ cache[n] \in Networks \cup {Absent}
    BY <1>1, <1>2
  <2>2. cache'[n] \in Networks \cup {Absent} /\ ~Enqueues(cache[n], cache'[n])
    BY <1>1, <1>3 DEF TypeOK
  <2> QED
    BY <2>1, <2>2, UnenqueuedKeepsVersion
<1> QED
  BY <1>3, <1>4, <1>5, <1>6

LEMMA WatchStep == FakeInv /\ Watch => FakeInv'
<1> SUFFICES ASSUME FakeInv, Watch PROVE FakeInv'
  OBVIOUS
<1> USE DEF FakeInv
<1>1. /\ reflector = "watch" /\ reflector' = "apply" /\ started
      /\ UNCHANGED <<objects, started, panicked, cache, acted, due, events, missed, watched>>
  BY DEF Watch, Running
<1>2. TypeOK' /\ BeforeWatch' /\ ControllerFollowsFake'
  BY <1>1 DEF TypeOK, BeforeWatch, ControllerFollowsFake
<1>3. CacheFollowsTracker'
  <2>1. events' = <<>> /\ watched' = {}
    BY <1>1 DEF BeforeWatch
  <2>2. \A n \in Names : Settled(n)' = cache'[n]
    BY <2>1 DEF Settled
  <2>3. \A n \in Names \ missed' :
          cache'[n] = IF objects'[n] \in Selected THEN objects'[n] ELSE Absent
    BY <1>1 DEF BeforeWatch, Listed
  <2> QED
    BY <2>1, <2>2, <2>3 DEF CacheFollowsTracker
<1> QED
  BY <1>2, <1>3

LEMMA ApplyStep == FakeInv /\ ApplyEvent => FakeInv'
<1> SUFFICES ASSUME FakeInv, ApplyEvent PROVE FakeInv'
  OBVIOUS
<1> USE DEF FakeInv
<1> DEFINE n == Head(events).name
           network == Head(events).network
<1>1. /\ reflector = "apply" /\ events # <<>> /\ events' = Tail(events)
      /\ cache' = [cache EXCEPT ![n] = network]
      /\ due' = IF Enqueues(cache[n], network) THEN due \cup {n} ELSE due
      /\ UNCHANGED <<objects, started, panicked, reflector, acted, missed, watched>>
  BY DEF ApplyEvent
<1>2. /\ events \in Seq(Events) /\ cache \in [Names -> Networks \cup {Absent}]
      /\ due \subseteq Names /\ Len(events) <= ChanSize /\ ChanSize \in Nat
  BY ContentsOK DEF TypeOK, Events
<1>3. /\ Head(events) \in Events /\ Tail(events) \in Seq(Events)
      /\ Len(events) \in Nat /\ Len(Tail(events)) = Len(events) - 1
  BY <1>1, <1>2
<1>4. n \in Names /\ network \in Networks \cup {Absent}
  BY <1>3 DEF Events
<1>5. \A m \in Names :
        Brought(events, cache[m], m) =
          Brought(Tail(events), IF n = m THEN network ELSE cache[m], m)
  BY <1>1, <1>2, TailBrings
<1> HIDE DEF n, network
<1>6. \A m \in Names : cache'[m] = IF n = m THEN network ELSE cache[m]
  BY <1>1, <1>2
<1>7. TypeOK'
  <2>1. cache' \in [Names -> Networks \cup {Absent}] /\ due' \subseteq Names
    BY <1>1, <1>2, <1>4
  <2>2. events' \in Seq(Events) /\ Len(events') <= ChanSize
    BY <1>1, <1>2, <1>3
  <2>3. ~panicked
    BY DEF ApplyEvent, Running
  <2> QED
    BY <1>1, <2>1, <2>2, <2>3 DEF TypeOK, Events
<1>8. BeforeWatch'
  BY <1>1 DEF BeforeWatch
<1>9. CacheFollowsTracker'
  <2>1. \A m \in Names : Settled(m)' = Brought(events', cache'[m], m)
    BY DEF Settled, Brought, About
  <2>2. \A m \in Names : Settled(m)' = Settled(m)
    BY <1>1, <1>5, <1>6, <2>1, SettledIsBrought
  <2> QED
    BY <1>1, <2>2 DEF CacheFollowsTracker
<1>10. ControllerFollowsFake'
  <2> SUFFICES ASSUME NEW m \in Names \ due', acted'[m] # cache'[m]
               PROVE  SameVersion(acted'[m], cache'[m])
    BY DEF ControllerFollowsFake, SameVersion
  <2>1. m \in Names \ due /\ acted'[m] = acted[m]
    BY <1>1
  <2>2. acted[m] # cache[m] => SameVersion(acted[m], cache[m])
    BY <2>1 DEF ControllerFollowsFake, SameVersion
  <2>3. cache'[m] # cache[m] => SameVersion(cache[m], cache'[m])
    <3> SUFFICES ASSUME cache'[m] # cache[m]
                 PROVE  SameVersion(cache[m], cache'[m])
      OBVIOUS
    <3>1. n = m /\ cache'[m] = network
      BY <1>6
    <3>2. ~Enqueues(cache[m], network) /\ cache[m] \in Networks \cup {Absent}
      BY <1>1, <1>2, <3>1
    <3> QED
      BY <1>4, <3>1, <3>2, UnenqueuedKeepsVersion
  <2> QED
    BY <2>1, <2>2, <2>3 DEF SameVersion
<1> QED
  BY <1>7, <1>8, <1>9, <1>10

LEMMA SyncStep ==
  ASSUME FakeInv, NEW n \in Names, Sync(n)
  PROVE  FakeInv'
<1> USE DEF FakeInv
<1>1. /\ n \in due /\ due' = due \ {n} /\ acted' = [acted EXCEPT ![n] = cache[n]]
      /\ UNCHANGED <<objects, started, panicked, reflector, cache, events, missed, watched>>
  BY DEF Sync
<1>2. TypeOK'
  BY <1>1 DEF TypeOK
<1>3. BeforeWatch'
  BY <1>1 DEF BeforeWatch, Listed
<1>4. CacheFollowsTracker'
  <2>1. \A m : Settled(m)' = Settled(m)
    BY <1>1 DEF Settled
  <2> QED
    BY <1>1, <2>1 DEF CacheFollowsTracker
<1>5. ControllerFollowsFake'
  BY <1>1 DEF ControllerFollowsFake, TypeOK
<1> QED
  BY <1>2, <1>3, <1>4, <1>5

LEMMA StepInv == FakeInv /\ [Next]_vars => FakeInv'
<1> SUFFICES ASSUME FakeInv, [Next]_vars PROVE FakeInv'
  OBVIOUS
<1>1. ASSUME NEW n \in Names, NEW c \in Networks, Create(n, c) \/ Update(n, c) \/ Patch(n, c)
      PROVE  FakeInv'
  <2>1. Running /\ (Track(n, c) \/ UNCHANGED vars)
    BY <1>1 DEF Create, Update, Patch, Refused
  <2> QED
    BY <2>1, TrackStep, SameInv
<1>2. ASSUME NEW n \in Names, Delete(n)
      PROVE  FakeInv'
  <2>1. Running /\ (Track(n, Absent) \/ UNCHANGED vars)
    BY <1>2 DEF Delete, Refused
  <2> QED
    BY <2>1, TrackStep, SameInv
<1>3. ASSUME DeleteCollection \/ Panicked \/ UNCHANGED vars
      PROVE  FakeInv'
  BY <1>3, SameInv DEF DeleteCollection, Panicked
<1> QED
  BY <1>1, <1>2, <1>3, NewStep, ListStep, WatchStep, ApplyStep, SyncStep DEF Next

LEMMA Invariance == Spec => []FakeInv
BY InitInv, StepInv, PTL DEF Spec

-----------------------------------------------------------------------------
(* The results.                                                             *)

\* Type correctness: no event names a Network that a test cannot have, and the
\* watch channel never holds more than it has room for.
THEOREM TypeCorrect == Spec => []TypeOK
BY Invariance, PTL DEF FakeInv

\* An informer on the fake has, or will have of the events in the channel, every
\* Network as the tracker has it, but those changed between list and watch and
\* those its labels exclude and nobody touched.
THEOREM InformerFollows == Spec => []CacheFollowsTracker
BY Invariance, PTL DEF FakeInv

\* A controller on the fake with nothing enqueued has acted on what its informer
\* has, but for updates that kept the resource version of what it acted on.
THEOREM ControllerFollows == Spec => []ControllerFollowsFake
BY Invariance, PTL DEF FakeInv
=============================================================================

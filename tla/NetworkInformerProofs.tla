------------------------ MODULE NetworkInformerProofs ------------------------
(***************************************************************************)
(* What NetworkInformer promises, for every set of Networks, every history  *)
(* of the API server and any number of broken watches: the filter a program *)
(* gives its factory is the filter of what it reads, the queue brings the   *)
(* indexer to the reflector's revision, and no reader sees a Network go     *)
(* back.                                                                    *)
(***************************************************************************)
EXTENDS NetworkInformer, FiniteSetTheorems, WellFoundedInduction, TLAPS

-----------------------------------------------------------------------------
(* Sets of revisions, and sequences.                                        *)

\* The order of revisions, as a relation.
Earlier == {p \in Nat \X Nat : p[1] < p[2]}

LEMMA EarlierIsWellFounded == IsWellFoundedOn(Earlier, Nat)
BY NatLessThanWellFounded DEF Earlier, OpToRel

LEMMA LeastElement ==
  ASSUME NEW S \in SUBSET Nat, S # {}
  PROVE  \E m \in S : \A x \in S : m <= x
<1>1. \E m \in S : \A x \in S : ~ (<<x, m>> \in Earlier)
  BY WFMin, EarlierIsWellFounded
<1>2. \A x, m \in Nat : <<x, m>> \in Earlier <=> x < m
  BY DEF Earlier
<1>3. \A x, m \in Nat : ~ (x < m) => m <= x
  OBVIOUS
<1> QED
  BY <1>1, <1>2, <1>3

LEMMA GreatestElement ==
  ASSUME NEW n \in Nat, NEW S \in SUBSET (1..n), S # {}
  PROVE  Max(S) \in S /\ \A x \in S : x <= Max(S)
<1> DEFINE Above == {u \in Nat : \A x \in S : x <= u}
<1>1. n \in Above
  OBVIOUS
<1>2. PICK m \in Above : \A u \in Above : m <= u
  BY <1>1, LeastElement
<1>3. m \in S
  <2>1. SUFFICES ASSUME m \notin S PROVE FALSE
    OBVIOUS
  <2>2. PICK x \in S : TRUE
    OBVIOUS
  <2>3. m \in Nat /\ x \in 1..m
    BY <1>2, <2>2
  <2>4. \A y \in S : y \in Nat /\ y <= m /\ y # m
    BY <1>2, <2>1
  <2>5. m - 1 \in Above
    BY <2>3, <2>4
  <2> QED
    BY <1>2, <2>3, <2>5
<1>4. \E x \in S : \A y \in S : x >= y
  BY <1>2, <1>3
<1> QED
  BY <1>4 DEF Max

LEMMA AppendFacts ==
  ASSUME NEW S, NEW s \in Seq(S), NEW x \in S
  PROVE  /\ Append(s, x) \in Seq(S) /\ Len(Append(s, x)) = Len(s) + 1
         /\ Len(s) \in Nat
         /\ \A i \in 1..Len(s) : Append(s, x)[i] = s[i] /\ s[i] \in S
         /\ Append(s, x)[Len(s) + 1] = x
OBVIOUS

LEMMA TailFacts ==
  ASSUME NEW S, NEW s \in Seq(S), s # <<>>
  PROVE  /\ Tail(s) \in Seq(S) /\ Len(Tail(s)) = Len(s) - 1
         /\ Len(s) \in Nat \ {0} /\ Head(s) = s[1] /\ s[1] \in S
         /\ \A i \in 1..Len(s) - 1 : Tail(s)[i] = s[i + 1]
OBVIOUS

LEMMA ConcatFacts ==
  ASSUME NEW S, NEW s \in Seq(S), NEW t \in Seq(S)
  PROVE  /\ s \o t \in Seq(S) /\ Len(s \o t) = Len(s) + Len(t)
         /\ Len(s) \in Nat /\ Len(t) \in Nat
         /\ \A i \in 1..Len(s) : (s \o t)[i] = s[i]
         /\ \A i \in 1..Len(t) : (s \o t)[Len(s) + i] = t[i]
OBVIOUS

\* An order of a finite set has each of its members once.
LEMMA OrderFacts ==
  ASSUME NEW S, IsFiniteSet(S), NEW order \in SetToSeqs(S)
  PROVE  /\ order \in Seq(S) /\ Len(order) = Cardinality(S)
         /\ Cardinality(S) \in Nat
         /\ \A i, j \in 1..Len(order) : order[i] = order[j] => i = j
         /\ \A x \in S : \E i \in 1..Len(order) : order[i] = x
<1> DEFINE n == Cardinality(S)
<1>1. n \in Nat
  BY FS_CardinalityType
<1>2. /\ order \in [1..n -> S]
      /\ \A i, j \in 1..n : i # j => order[i] # order[j]
  BY DEF SetToSeqs
<1>3. order \in Injection(1..n, S)
  BY <1>2 DEF Injection, IsInjective
<1>4. IsFiniteSet(1..n) /\ Cardinality(1..n) = n
  BY <1>1, FS_Interval
<1>5. order \in Surjection(1..n, S)
  BY <1>3, <1>4, FS_Injection
<1>6. order \in Seq(S) /\ Len(order) = n
  BY <1>1, <1>2
<1> QED
  BY <1>1, <1>2, <1>5, <1>6 DEF Surjection

-----------------------------------------------------------------------------
(* The factory: what a list of options makes of it.                         *)

\* What the options at the indices of S make of f, given what fewer do.
Made(f, options, S, made) ==
  IF S = {} THEN f ELSE WithOption(made[S \ {Max(S)}], options[Max(S)])

IsMade(f, options, D, made) ==
  made = [S \in SUBSET D |-> Made(f, options, S, made)]

Folded(f, options) == FoldLeft(WithOption, f, options)

LEMMA FoldIsMade ==
  ASSUME NEW f, NEW options, NEW made, IsMade(f, options, DOMAIN options, made)
  PROVE  \E m : /\ IsMade(f, options, DOMAIN options, m)
               /\ Folded(f, options) = m[DOMAIN options]
<1> DEFINE m == CHOOSE m : m = [S \in SUBSET DOMAIN options |-> Made(f, options, S, m)]
<1>1. Folded(f, options) = m[DOMAIN options]
  BY DEF Folded, FoldLeft, MapThenFoldSet, Made
<1>2. m = [S \in SUBSET DOMAIN options |-> Made(f, options, S, m)]
  BY DEF IsMade
<1> QED
  BY <1>1, <1>2 DEF IsMade

LEMMA MadeExists ==
  ASSUME NEW f, NEW options, NEW n \in Nat
  PROVE  \E made : IsMade(f, options, 1..n, made)
<1> DEFINE Bad == {i \in Nat : ~ \E made : IsMade(f, options, 1..i, made)}
<1> SUFFICES ASSUME Bad # {} PROVE FALSE
  OBVIOUS
<1>1. PICK j \in Bad : \A i \in Bad : j <= i
  BY LeastElement
<1>2. ~ \E made : IsMade(f, options, 1..j, made)
  BY <1>1
<1>3. CASE j = 0
  <2> DEFINE made == [S \in SUBSET {} |-> f]
  <2>1. 1..j = {}
    BY <1>3
  <2>2. IsMade(f, options, {}, made)
    BY DEF Made, IsMade
  <2> QED
    BY <1>2, <2>1, <2>2
<1>4. CASE j # 0
  <2>1. j \in Nat /\ j - 1 \in Nat /\ j - 1 \notin Bad
    BY <1>1, <1>4
  <2>2. PICK less : IsMade(f, options, 1..(j - 1), less)
    BY <2>1
  <2> DEFINE made == [S \in SUBSET (1..j) |->
                        IF j \in S THEN WithOption(less[S \ {j}], options[j]) ELSE less[S]]
  <2>3. \A S \in SUBSET (1..(j - 1)) : made[S] = less[S] /\ less[S] = Made(f, options, S, less)
    BY <2>1, <2>2 DEF IsMade
  <2>4. ASSUME NEW S \in SUBSET (1..j)
        PROVE  made[S] = Made(f, options, S, made)
    <3>1. CASE j \in S
      <4>1. Max(S) = j
        <5>1. Max(S) \in S /\ \A x \in S : x <= Max(S)
          BY <2>1, <3>1, GreatestElement
        <5>2. j \in Nat /\ Max(S) \in 1..j /\ j <= Max(S)
          BY <2>1, <3>1, <5>1
        <5> QED
          BY <5>2
      <4>2. S \ {j} \in SUBSET (1..(j - 1))
        BY <2>1
      <4>3. made[S] = WithOption(less[S \ {j}], options[j])
        BY <3>1
      <4> HIDE DEF made
      <4> QED
        BY <2>3, <3>1, <4>1, <4>2, <4>3 DEF Made
    <3>2. CASE j \notin S
      <4>1. \A i \in 1..j : i # j => i \in 1..(j - 1)
        BY <2>1
      <4>2. S \in SUBSET (1..(j - 1))
        BY <3>2, <4>1
      <4>3. S \ {Max(S)} \in SUBSET (1..(j - 1))
        BY <4>2
      <4>4. made[S] = less[S] /\ made[S \ {Max(S)}] = less[S \ {Max(S)}]
        BY <2>3, <4>2, <4>3
      <4> HIDE DEF made
      <4> QED
        BY <2>3, <4>2, <4>4 DEF Made
    <3> QED
      BY <3>1, <3>2
  <2>5. IsMade(f, options, 1..j, made)
    BY <2>4 DEF IsMade
  <2> QED
    BY <1>2, <2>5
<1> QED
  BY <1>3, <1>4

\* The options are applied one by one, in the order of the list.
LEMMA Applied ==
  ASSUME NEW f, NEW options, NEW n \in Nat, DOMAIN options = 1..n
  PROVE  \E after : /\ after[0] = f /\ after[n] = Folded(f, options)
                    /\ \A k \in 1..n : after[k] = WithOption(after[k - 1], options[k])
<1>1. PICK m : /\ IsMade(f, options, 1..n, m)
               /\ Folded(f, options) = m[1..n]
  BY MadeExists, FoldIsMade
<1> DEFINE after == [k \in 0..n |-> m[1..k]]
<1>2. \A S \in SUBSET (1..n) : m[S] = Made(f, options, S, m)
  BY <1>1 DEF IsMade
<1>3. after[0] = f
  <2>1. 1..0 = {} /\ {} \in SUBSET (1..n)
    OBVIOUS
  <2>2. m[{}] = f
    BY <1>2, <2>1 DEF Made
  <2> QED
    BY <2>1, <2>2
<1>4. ASSUME NEW k \in 1..n
      PROVE  after[k] = WithOption(after[k - 1], options[k])
  <2>1. /\ 1..k \in SUBSET (1..n) /\ 1..k # {} /\ k \in Nat
        /\ (1..k) \ {k} = 1..(k - 1) /\ k - 1 \in 0..n /\ k \in 0..n
    OBVIOUS
  <2>2. Max(1..k) \in 1..k /\ \A i \in 1..k : i <= Max(1..k)
    BY <2>1, GreatestElement
  <2>3. Max(1..k) = k
    BY <2>1, <2>2
  <2>4. m[1..k] = WithOption(m[1..(k - 1)], options[k])
    BY <1>2, <2>1, <2>3 DEF Made
  <2> QED
    BY <2>1, <2>4
<1>5. after[n] = Folded(f, options)
  BY <1>1
<1> HIDE DEF after
<1> QED
  BY <1>3, <1>4, <1>5

\* What the first k options say last about a kind.
LastWithin(options, k, kind, otherwise) ==
  LET of == {i \in 1..k : options[i].with = kind}
  IN IF of = {} THEN otherwise ELSE options[Max(of)].value

LEMMA LastIsWithin ==
  ASSUME NEW options, NEW n \in Nat, DOMAIN options = 1..n, NEW kind, NEW otherwise
  PROVE  LastOf(options, kind, otherwise) = LastWithin(options, n, kind, otherwise)
BY DEF LastOf, LastWithin

LEMMA OneMore ==
  ASSUME NEW options, NEW k \in Nat \ {0}, NEW kind, NEW otherwise
  PROVE  LastWithin(options, k, kind, otherwise) =
           IF options[k].with = kind THEN options[k].value
           ELSE LastWithin(options, k - 1, kind, otherwise)
<1> DEFINE of == {i \in 1..k : options[i].with = kind}
           less == {i \in 1..(k - 1) : options[i].with = kind}
<1>1. CASE options[k].with = kind
  <2>1. k \in of /\ of \in SUBSET (1..k)
    BY <1>1
  <2>2. Max(of) \in of /\ \A i \in of : i <= Max(of)
    BY <2>1, GreatestElement
  <2>3. Max(of) = k
    BY <2>1, <2>2
  <2> QED
    BY <1>1, <2>1, <2>3 DEF LastWithin
<1>2. CASE options[k].with # kind
  <2>1. of = less
    BY <1>2
  <2> QED
    BY <1>2, <2>1 DEF LastWithin
<1> QED
  BY <1>1, <1>2

LEMMA NoneYet ==
  ASSUME NEW options, NEW kind, NEW otherwise
  PROVE  LastWithin(options, 0, kind, otherwise) = otherwise
<1>1. 1..0 = {}
  OBVIOUS
<1> QED
  BY <1>1 DEF LastWithin

LEMMA LenOfTwo ==
  ASSUME NEW o, NEW p
  PROVE  /\ DOMAIN <<o, p>> = 1..2 /\ <<o, p>>[1] = o /\ <<o, p>>[2] = p
         /\ \A i \in 1..2 : i = 1 \/ i = 2
OBVIOUS

LEMMA LastOfTwo ==
  ASSUME NEW o, NEW p, NEW kind, NEW otherwise
  PROVE  LastOf(<<o, p>>, kind, otherwise) =
           IF p.with = kind THEN p.value
           ELSE IF o.with = kind THEN o.value ELSE otherwise
<1> DEFINE options == <<o, p>>
<1>1. options[1] = o /\ options[2] = p /\ DOMAIN options = 1..2
  BY LenOfTwo
<1> HIDE DEF options
<1>2. LastOf(options, kind, otherwise) = LastWithin(options, 2, kind, otherwise)
  BY <1>1, LastIsWithin
<1>3. /\ 2 \in Nat \ {0} /\ 1 \in Nat \ {0} /\ 2 - 1 = 1 /\ 1 - 1 = 0
  OBVIOUS
<1>4. LastWithin(options, 2, kind, otherwise) =
        IF p.with = kind THEN p.value ELSE LastWithin(options, 1, kind, otherwise)
  BY <1>1, <1>3, OneMore
<1>5. LastWithin(options, 1, kind, otherwise) =
        IF o.with = kind THEN o.value ELSE LastWithin(options, 0, kind, otherwise)
  BY <1>1, <1>3, OneMore
<1> QED
  BY <1>2, <1>4, <1>5, NoneYet DEF options

\* The options a program gives, and the period it asks for.
IsOption(o) ==
  \/ \E ns \in Namespaces \cup {NamespaceAll} : o = [with |-> "namespace", value |-> ns]
  \/ \E tweak \in {Nil, Labelled} : o = [with |-> "tweak", value |-> tweak]
  \/ \E period \in 0..1 :
       o = [with |-> "resync", value |-> [t \in {"Network"} |-> period]]

Period(f) ==
  IF "Network" \in DOMAIN f.customResync THEN f.customResync["Network"]
                                         ELSE f.defaultResync

IsFactory(f) ==
  f = [namespace |-> f.namespace, tweakListOptions |-> f.tweakListOptions,
       defaultResync |-> f.defaultResync, customResync |-> f.customResync]

LEMMA EmptyFactoryFacts ==
  ASSUME NEW d
  PROVE  /\ IsFactory(EmptyFactory(d)) /\ EmptyFactory(d).namespace = NamespaceAll
         /\ EmptyFactory(d).tweakListOptions = Nil /\ Period(EmptyFactory(d)) = d
BY DEF EmptyFactory, IsFactory, Period

\* One option sets its field and no other.
LEMMA OptionFacts ==
  ASSUME NEW f, IsFactory(f), NEW o, IsOption(o)
  PROVE  LET g == WithOption(f, o)
         IN /\ IsFactory(g)
            /\ g.namespace = IF o.with = "namespace" THEN o.value ELSE f.namespace
            /\ g.tweakListOptions = IF o.with = "tweak" THEN o.value
                                                        ELSE f.tweakListOptions
            /\ Period(g) = IF o.with = "resync" THEN o.value["Network"] ELSE Period(f)
<1>1. CASE \E ns \in Namespaces \cup {NamespaceAll} : o = [with |-> "namespace", value |-> ns]
  <2>1. WithOption(f, o) = [f EXCEPT !.namespace = o.value] /\ o.with = "namespace"
    BY <1>1 DEF WithOption, WithNamespace
  <2> QED
    BY <2>1 DEF IsFactory, Period
<1>2. CASE \E tweak \in {Nil, Labelled} : o = [with |-> "tweak", value |-> tweak]
  <2>1. WithOption(f, o) = [f EXCEPT !.tweakListOptions = o.value] /\ o.with = "tweak"
    BY <1>2 DEF WithOption, WithTweakListOptions
  <2> QED
    BY <2>1 DEF IsFactory, Period
<1>3. CASE \E period \in 0..1 :
             o = [with |-> "resync", value |-> [t \in {"Network"} |-> period]]
  <2> DEFINE custom == [t \in DOMAIN o.value \cup DOMAIN f.customResync |->
                          IF t \in DOMAIN o.value THEN o.value[t] ELSE f.customResync[t]]
  <2>1. /\ WithOption(f, o) = [f EXCEPT !.customResync = custom]
        /\ o.with = "resync" /\ DOMAIN o.value = {"Network"}
    BY <1>3 DEF WithOption, WithCustomResyncConfig
  <2>2. "Network" \in DOMAIN custom /\ custom["Network"] = o.value["Network"]
    BY <2>1
  <2> HIDE DEF custom
  <2> QED
    BY <2>1, <2>2 DEF IsFactory, Period
<1> QED
  BY <1>1, <1>2, <1>3 DEF IsOption

IsOptionList(options) ==
  \E n \in Nat : DOMAIN options = 1..n /\ \A i \in 1..n : IsOption(options[i])

\* Of several options of one kind the last counts, however many there are.
LEMMA FactoryFacts ==
  ASSUME NEW options, IsOptionList(options), NEW d
  PROVE  LET f == NewSharedInformerFactoryWithOptions(d, options)
             none == [t \in {"Network"} |-> d]
         IN /\ f.namespace = LastOf(options, "namespace", NamespaceAll)
            /\ f.tweakListOptions = LastOf(options, "tweak", Nil)
            /\ Period(f) = LastOf(options, "resync", none)["Network"]
<1> DEFINE f == NewSharedInformerFactoryWithOptions(d, options)
           none == [t \in {"Network"} |-> d]
           e == EmptyFactory(d)
<1>1. IsFactory(e) /\ e.namespace = NamespaceAll /\ e.tweakListOptions = Nil /\ Period(e) = d
  BY EmptyFactoryFacts
<1>2. none["Network"] = d
  OBVIOUS
<1>3. f = Folded(e, options)
  BY DEF NewSharedInformerFactoryWithOptions, Folded
<1>4. PICK n \in Nat : DOMAIN options = 1..n /\ \A i \in 1..n : IsOption(options[i])
  BY DEF IsOptionList
<1> HIDE DEF e, none, f
<1>5. PICK after : /\ after[0] = e /\ after[n] = f
                   /\ \A k \in 1..n : after[k] = WithOption(after[k - 1], options[k])
  BY <1>3, <1>4, Applied
<1> DEFINE Right(k) ==
      /\ IsFactory(after[k])
      /\ after[k].namespace = LastWithin(options, k, "namespace", NamespaceAll)
      /\ after[k].tweakListOptions = LastWithin(options, k, "tweak", Nil)
      /\ Period(after[k]) = LastWithin(options, k, "resync", none)["Network"]
    Wrong == {k \in 0..n : ~Right(k)}
<1>6. Right(0)
  BY <1>1, <1>2, <1>5, NoneYet
<1>7. ASSUME NEW k \in 1..n, Right(k - 1)
      PROVE  Right(k)
  <2> DEFINE a == after[k - 1]
             o == options[k]
  <2>1. after[k] = WithOption(a, o) /\ IsFactory(a) /\ IsOption(o) /\ k \in Nat \ {0}
    BY <1>4, <1>5, <1>7
  <2>2. \A kind, otherwise :
          LastWithin(options, k, kind, otherwise) =
            IF o.with = kind THEN o.value ELSE LastWithin(options, k - 1, kind, otherwise)
    BY <2>1, OneMore
  <2>3. /\ a.namespace = LastWithin(options, k - 1, "namespace", NamespaceAll)
        /\ a.tweakListOptions = LastWithin(options, k - 1, "tweak", Nil)
        /\ Period(a) = LastWithin(options, k - 1, "resync", none)["Network"]
    BY <1>7
  <2> HIDE DEF a, o
  <2>4. LET g == WithOption(a, o)
        IN /\ IsFactory(g)
           /\ g.namespace = IF o.with = "namespace" THEN o.value ELSE a.namespace
           /\ g.tweakListOptions = IF o.with = "tweak" THEN o.value ELSE a.tweakListOptions
           /\ Period(g) = IF o.with = "resync" THEN o.value["Network"] ELSE Period(a)
    BY <2>1, OptionFacts
  <2> QED
    BY <2>1, <2>2, <2>3, <2>4
<1>8. Wrong = {}
  <2> SUFFICES ASSUME Wrong # {} PROVE FALSE
    OBVIOUS
  <2>1. Wrong \in SUBSET Nat
    OBVIOUS
  <2>2. PICK k \in Wrong : \A i \in Wrong : k <= i
    BY <2>1, LeastElement
  <2>3. k \in 0..n /\ ~Right(k)
    BY <2>2
  <2> HIDE DEF Right
  <2>4. k \in 1..n /\ k - 1 \in 0..n
    BY <1>6, <2>3
  <2>5. Right(k - 1)
    BY <2>2, <2>4
  <2> QED
    BY <1>7, <2>3, <2>4, <2>5
<1>9. Right(n)
  BY <1>8
<1>10. /\ f.namespace = LastOf(options, "namespace", NamespaceAll)
       /\ f.tweakListOptions = LastOf(options, "tweak", Nil)
       /\ Period(f) = LastOf(options, "resync", none)["Network"]
  BY <1>4, <1>5, <1>9, LastIsWithin
<1> QED
  BY <1>10 DEF f, none

LEMMA LastOfTypes ==
  ASSUME NEW options, IsOptionList(options)
  PROVE  /\ LastOf(options, "namespace", NamespaceAll) \in Namespaces \cup {NamespaceAll}
         /\ LastOf(options, "tweak", Nil) \in {Nil, Labelled}
         /\ LastOf(options, "resync", [t \in {"Network"} |-> 0])["Network"] \in 0..1
<1>1. PICK n \in Nat : DOMAIN options = 1..n /\ \A i \in 1..n : IsOption(options[i])
  BY DEF IsOptionList
<1>2. \A i \in 1..n :
        /\ options[i].with = "namespace" => options[i].value \in Namespaces \cup {NamespaceAll}
        /\ options[i].with = "tweak" => options[i].value \in {Nil, Labelled}
        /\ options[i].with = "resync" => options[i].value["Network"] \in 0..1
  BY <1>1 DEF IsOption
<1>3. ASSUME NEW kind, NEW otherwise
      PROVE  \/ LastOf(options, kind, otherwise) = otherwise
             \/ \E i \in 1..n : /\ options[i].with = kind
                                /\ LastOf(options, kind, otherwise) = options[i].value
  <2> DEFINE of == {i \in 1..n : options[i].with = kind}
  <2>1. LastOf(options, kind, otherwise) =
          IF of = {} THEN otherwise ELSE options[Max(of)].value
    BY <1>1 DEF LastOf
  <2>2. of # {} => Max(of) \in of
    BY GreatestElement
  <2> QED
    BY <2>1, <2>2
<1>4. [t \in {"Network"} |-> 0]["Network"] = 0
  OBVIOUS
<1> QED
  BY <1>2, <1>3, <1>4


\* Whatever way leads to it, the informer is the one that was asked for.
InformerOK ==
  /\ asked \in [namespace : Namespaces \cup {NamespaceAll}, labels : BOOLEAN, resync : 0..1]
  /\ informer = [namespace |-> asked.namespace, resync |-> asked.resync,
                 tweakListOptions |-> IF asked.labels THEN Labelled ELSE Nil]

LEMMA UsesFacts ==
  ASSUME NEW f, NEW namespace \in Namespaces \cup {NamespaceAll},
         NEW tweak \in {Nil, Labelled}, NEW resync \in 0..1,
         f.namespace = namespace, f.tweakListOptions = tweak, Period(f) = resync,
         Uses(f, Asked(namespace, tweak = Labelled, resync))
  PROVE  InformerOK
<1>1. informer = [namespace |-> namespace, resync |-> resync, tweakListOptions |-> tweak]
  BY DEF Uses, Informer, Networks, V1, Samplecrd, ForResource, InformerFor,
         defaultInformer, NewFilteredNetworkInformer, Period
<1> QED
  BY <1>1, ConstantsOK DEF InformerOK, Asked, Uses

LEMMA InformerIsRight == BuildsInformer => InformerOK
<1>1. ASSUME Uses(NewSharedInformerFactory(1), Asked(NamespaceAll, FALSE, 1))
      PROVE  InformerOK
  <2> DEFINE f == NewSharedInformerFactory(1)
  <2>1. /\ f.namespace = NamespaceAll /\ f.tweakListOptions = Nil /\ Period(f) = 1
    <3> DEFINE e == EmptyFactory(1)
    <3>1. 0 \in Nat /\ DOMAIN <<>> = 1..0
      OBVIOUS
    <3>2. Folded(e, <<>>) = e
      BY <3>1, Applied
    <3>3. f = Folded(e, <<>>)
      BY DEF NewSharedInformerFactory, NewSharedInformerFactoryWithOptions, Folded
    <3>4. e.namespace = NamespaceAll /\ e.tweakListOptions = Nil /\ Period(e) = 1
      BY EmptyFactoryFacts
    <3> HIDE DEF e, f
    <3> QED
      BY <3>2, <3>3, <3>4
  <2>2. Asked(NamespaceAll, FALSE, 1) = Asked(NamespaceAll, Nil = Labelled, 1)
    BY ConstantsOK DEF Asked
  <2> HIDE DEF f
  <2> QED
    <3>1. Uses(f, Asked(NamespaceAll, Nil = Labelled, 1))
      BY <1>1, <2>2 DEF f
    <3> QED
      BY <2>1, <3>1, UsesFacts
<1>2. ASSUME NEW ns \in Namespaces, NEW tweak \in {Nil, Labelled},
             Uses(NewFilteredSharedInformerFactory(1, ns, tweak), Asked(ns, tweak = Labelled, 1))
      PROVE  InformerOK
  <2> DEFINE o == [with |-> "namespace", value |-> ns]
             p == [with |-> "tweak", value |-> tweak]
             f == NewSharedInformerFactoryWithOptions(1, <<o, p>>)
  <2>1. IsOption(o) /\ IsOption(p)
    BY DEF IsOption
  <2>2. o.with = "namespace" /\ o.value = ns /\ p.with = "tweak" /\ p.value = tweak
    OBVIOUS
  <2>3. Uses(f, Asked(ns, tweak = Labelled, 1))
    BY <1>2 DEF NewFilteredSharedInformerFactory
  <2> HIDE DEF o, p
  <2>5. IsOptionList(<<o, p>>)
    BY <2>1, LenOfTwo DEF IsOptionList
  <2>4. /\ f.namespace = ns /\ f.tweakListOptions = tweak
        /\ Period(f) = 1
    <3>1. /\ f.namespace = LastOf(<<o, p>>, "namespace", NamespaceAll)
          /\ f.tweakListOptions = LastOf(<<o, p>>, "tweak", Nil)
          /\ Period(f) = LastOf(<<o, p>>, "resync", [t \in {"Network"} |-> 1])["Network"]
      BY <2>5, FactoryFacts
    <3>2. [t \in {"Network"} |-> 1]["Network"] = 1
      OBVIOUS
    <3> QED
      BY <2>2, <3>1, <3>2, LastOfTwo
  <2> HIDE DEF f
  <2> QED
    BY <2>3, <2>4, UsesFacts
<1>3. ASSUME NEW options \in OptionLists,
             Uses(NewSharedInformerFactoryWithOptions(0, options),
               Asked(LastOf(options, "namespace", NamespaceAll),
                     LastOf(options, "tweak", Nil) = Labelled,
                     LastOf(options, "resync", [t \in {"Network"} |-> 0])["Network"]))
      PROVE  InformerOK
  <2>1. IsOptionList(options)
    BY <1>3, ConstantsOK DEF OptionLists, SeqOf, IsOptionList, IsOption
  <2> DEFINE f == NewSharedInformerFactoryWithOptions(0, options)
             namespace == LastOf(options, "namespace", NamespaceAll)
             tweak == LastOf(options, "tweak", Nil)
             resync == LastOf(options, "resync", [t \in {"Network"} |-> 0])["Network"]
  <2>2. f.namespace = namespace /\ f.tweakListOptions = tweak /\ Period(f) = resync
    BY <2>1, FactoryFacts
  <2>3. /\ namespace \in Namespaces \cup {NamespaceAll} /\ tweak \in {Nil, Labelled}
        /\ resync \in 0..1
    BY <2>1, LastOfTypes
  <2>4. Uses(f, Asked(namespace, tweak = Labelled, resync))
    BY <1>3
  <2> HIDE DEF f, namespace, tweak, resync
  <2> QED
    BY <2>2, <2>3, <2>4, UsesFacts
<1>4. ASSUME NEW ns \in Namespaces \cup {NamespaceAll},
             informer = NewNetworkInformer(ns, 0), asked = Asked(ns, FALSE, 0)
      PROVE  InformerOK
  BY <1>4 DEF NewNetworkInformer, NewFilteredNetworkInformer, Asked, InformerOK
<1> QED
  BY <1>1, <1>2, <1>3, <1>4 DEF BuildsInformer

-----------------------------------------------------------------------------
(* The server's history.                                                    *)

LEMMA StoredFacts ==
  ASSUME log \in Seq(Changes), NEW k \in Keys, NEW r \in 0..Len(log)
  PROVE  LET v == StoredAt(k, r)
         IN /\ v \in 0..r
            /\ v # 0 => v \in 1..r /\ log[v].key = k /\ log[v].live
            /\ v # 0 => \A i \in 1..r : log[i].key = k => i <= v
            /\ v = 0 => \A i \in 1..r : log[i].key = k =>
                          \E j \in i..r : log[j].key = k /\ ~log[j].live
<1> DEFINE about == {i \in 1..r : log[i].key = k}
<1>1. Len(log) \in Nat /\ r \in Nat
  OBVIOUS
<1>2. StoredAt(k, r) =
        IF about = {} \/ ~log[Max(about)].live THEN 0 ELSE Max(about)
  BY DEF StoredAt, R!StoredAt, R!Max, Max
<1>3. about # {} => Max(about) \in about /\ \A i \in about : i <= Max(about)
  BY <1>1, GreatestElement
<1>4. CASE about = {}
  BY <1>1, <1>2, <1>4
<1>5. CASE about # {}
  <2> DEFINE m == Max(about)
  <2>1. m \in 1..r /\ log[m].key = k /\ \A i \in 1..r : log[i].key = k => i <= m
    BY <1>3, <1>5
  <2>2. StoredAt(k, r) = IF ~log[m].live THEN 0 ELSE m
    BY <1>2, <1>5
  <2> HIDE DEF m, about
  <2> QED
    BY <1>1, <2>1, <2>2
<1> QED
  BY <1>4, <1>5

\* Between changes of k, k is what it was.
LEMMA StoredStays ==
  ASSUME log \in Seq(Changes), NEW k \in Keys,
         NEW r \in 0..Len(log), NEW s \in r..Len(log),
         \A i \in r + 1..s : log[i].key # k
  PROVE  StoredAt(k, s) = StoredAt(k, r)
<1>1. Len(log) \in Nat /\ r \in Nat /\ s \in Nat
  OBVIOUS
<1>2. {i \in 1..s : log[i].key = k} = {i \in 1..r : log[i].key = k}
  BY <1>1
<1> QED
  BY <1>2 DEF StoredAt, R!StoredAt

\* A change of k decides what k is.
LEMMA StoredChanges ==
  ASSUME log \in Seq(Changes), NEW i \in 1..Len(log)
  PROVE  StoredAt(log[i].key, i) = IF log[i].live THEN i ELSE 0
<1> DEFINE k == log[i].key
           about == {j \in 1..i : log[j].key = k}
<1>1. Len(log) \in Nat /\ i \in Nat /\ i \in about
  OBVIOUS
<1>2. Max(about) \in about /\ \A j \in about : j <= Max(about)
  BY <1>1, GreatestElement
<1>3. Max(about) = i
  BY <1>1, <1>2
<1> QED
  BY <1>1, <1>3 DEF StoredAt, R!StoredAt, R!Max, Max

\* What the program was promised of k after r changes.
LEMMA PromisedFacts ==
  ASSUME log \in Seq(Changes), NEW k \in Keys, NEW r \in 0..Len(log)
  PROVE  LET v == R!Promised(k, r)
         IN /\ v \in 0..r
            /\ v # 0 => /\ v \in 1..Len(log) /\ log[v].key = k
                        /\ asked.labels => log[v].labels
                        /\ asked.namespace \in {NamespaceAll, k[1]}
BY StoredFacts DEF R!Promised, StoredAt

\* Only finitely many Networks are promised at a time.
LEMMA FewArePromised ==
  ASSUME log \in Seq(Changes), NEW S \in SUBSET Keys,
         \A k \in S : \E r \in 0..Len(log) : R!Promised(k, r) # 0
  PROVE  IsFiniteSet(S)
<1> DEFINE known == {log[i].key : i \in 1..Len(log)}
           key == [i \in 1..Len(log) |-> log[i].key]
<1>1. Len(log) \in Nat
  OBVIOUS
<1>2. S \subseteq known
  <2> SUFFICES ASSUME NEW k \in S PROVE k \in known
    OBVIOUS
  <2>1. PICK r \in 0..Len(log) : R!Promised(k, r) # 0
    OBVIOUS
  <2>2. R!Promised(k, r) \in 1..Len(log) /\ log[R!Promised(k, r)].key = k
    BY <2>1, PromisedFacts
  <2> QED
    BY <2>2
<1>3. key \in Surjection(1..Len(log), known)
  BY DEF Surjection
<1>4. IsFiniteSet(1..Len(log))
  BY <1>1, FS_Interval
<1>5. IsFiniteSet(known)
  BY <1>3, <1>4, FS_Surjection
<1> QED
  BY <1>2, <1>5, FS_Subset

\* A change that a watch has no event for changes nothing promised.
LEMMA QuietChanges ==
  ASSUME log \in Seq(Changes), NEW k \in Keys,
         NEW r \in 0..Len(log), NEW s \in r..Len(log),
         \A i \in r + 1..s : log[i].key = k =>
           R!Promised(k, i) = 0 /\ R!Promised(k, i - 1) = 0
  PROVE  R!Promised(k, s) = R!Promised(k, r)
<1> DEFINE since == {i \in r + 1..s : log[i].key = k}
<1>1. Len(log) \in Nat /\ r \in Nat /\ s \in Nat /\ r <= s /\ s <= Len(log)
  OBVIOUS
<1>2. CASE since = {}
  BY <1>2, StoredStays DEF R!Promised, StoredAt
<1>3. CASE since # {}
  <2>1. since \in SUBSET Nat /\ since \in SUBSET (1..s)
    BY <1>1
  <2>2. PICK l \in since : \A i \in since : l <= i
    BY <1>3, <2>1, LeastElement
  <2>3. PICK m \in since : \A i \in since : i <= m
    BY <1>1, <1>3, <2>1, GreatestElement
  <2>4. /\ l \in r + 1..s /\ l \in Nat /\ R!Promised(k, l - 1) = 0
        /\ m \in r + 1..s /\ m \in Nat /\ R!Promised(k, m) = 0
    BY <1>1, <2>2, <2>3
  <2>5. R!Promised(k, l - 1) = R!Promised(k, r)
    <3>1. l - 1 \in r..Len(log)
      BY <1>1, <2>4
    <3>2. \A i \in r + 1..l - 1 : log[i].key # k
      BY <1>1, <2>2, <2>4
    <3> QED
      BY <3>1, <3>2, StoredStays DEF R!Promised, StoredAt
  <2>6. R!Promised(k, s) = R!Promised(k, m)
    <3>1. m \in 0..Len(log) /\ s \in m..Len(log)
      BY <1>1, <2>4
    <3>2. \A i \in m + 1..s : log[i].key # k
      BY <1>1, <2>3, <2>4
    <3> QED
      BY <3>1, <3>2, StoredStays DEF R!Promised, StoredAt
  <2> QED
    BY <2>4, <2>5, <2>6
<1> QED
  BY <1>2, <1>3

\* What was promised stays what it was when somebody writes.
LEMMA HistoryStays ==
  ASSUME log \in Seq(Changes), NEW c \in Changes, log' = Append(log, c),
         asked' = asked, NEW k \in Keys, NEW r \in 0..Len(log)
  PROVE  R!Promised(k, r)' = R!Promised(k, r)
<1>1. /\ Len(log) \in Nat /\ r \in Nat
      /\ \A i \in 1..Len(log) : log'[i] = log[i]
  BY AppendFacts
<1>2. {i \in 1..r : log'[i].key = k} = {i \in 1..r : log[i].key = k}
  BY <1>1
<1>3. /\ R!StoredAt(k, r) \in 0..r
  BY StoredFacts DEF StoredAt
<1>4. R!StoredAt(k, r)' = R!StoredAt(k, r)
  <2> DEFINE about == {i \in 1..r : log[i].key = k}
  <2>1. about # {} => Max(about) \in 1..r
    BY <1>1, GreatestElement
  <2>2. about # {} => log'[Max(about)] = log[Max(about)]
    BY <1>1, <2>1
  <2>3. R!StoredAt(k, r) =
          IF about = {} \/ ~log[Max(about)].live THEN 0 ELSE Max(about)
    BY DEF R!StoredAt, R!Max, Max
  <2>4. R!StoredAt(k, r)' =
          IF about = {} \/ ~log'[Max(about)].live THEN 0 ELSE Max(about)
    <3> DEFINE now == {i \in 1..r : log'[i].key = k}
    <3>1. R!StoredAt(k, r)' =
            IF now = {} \/ ~log'[Max(now)].live THEN 0 ELSE Max(now)
      BY DEF R!StoredAt, R!Max, Max
    <3>2. now = about
      BY <1>2
    <3> QED
      BY <3>1, <3>2
  <2> HIDE DEF about
  <2> QED
    BY <2>2, <2>3, <2>4
<1> QED
  BY <1>1, <1>3, <1>4 DEF R!Promised

-----------------------------------------------------------------------------
(* The invariant.                                                           *)

\* A request for what the program asked for.
RequestOK(request) ==
  request.ns = asked.namespace /\ request.params.labels = asked.labels

ReflectorOK ==
  /\ reflector # "list" => rv > 0
  /\ reflector = "receive" => stream.position = rv /\ RequestOK(stream.request)
  /\ ~populated => reflector = "list" /\ rv = 0 /\ queue = <<>> /\ initialPopulation = 0

\* What readers see of k is what was promised at the revision At[k].
ShownOK == \A k \in Keys : cache[k] = R!Promised(k, At[k])

\* Behind the initial population are only keys queued after the first list.
PopulationOK ==
  \A i \in 1..Len(queue) : i > initialPopulation => before[queue[i]] >= first

InformerInv ==
  /\ TypeOK /\ InformerOK /\ ReflectorOK
  /\ QueueLeadsToRv /\ ShownOK /\ PopulationOK

LEMMA SameHistory ==
  ASSUME UNCHANGED <<log, asked>>, NEW k, NEW r
  PROVE  R!Promised(k, r)' = R!Promised(k, r)
BY DEF R!Promised, R!StoredAt

LEMMA SelectedIsPromised ==
  ASSUME NEW request, RequestOK(request), NEW k, NEW r
  PROVE  Selected(request, k, r) = R!Promised(k, r)
BY DEF RequestOK, Selected, Selects, StoredAt, R!Promised

ListOptions == [labels : BOOLEAN, rv : Nat, watch : BOOLEAN]

LEMMA TweakedFacts ==
  ASSUME InformerOK, NEW options \in ListOptions, ~options.labels
  PROVE  LET params == Tweaked(informer.tweakListOptions, options)
         IN /\ params \in ListOptions /\ params.rv = options.rv
            /\ params.labels <=> asked.labels
<1>1. /\ informer.tweakListOptions = IF asked.labels THEN Labelled ELSE Nil
      /\ asked.labels \in BOOLEAN
  BY DEF InformerOK
<1>2. CASE asked.labels
  <2>1. Tweaked(informer.tweakListOptions, options) = [options EXCEPT !.labels = TRUE]
    BY <1>1, <1>2, ConstantsOK DEF Tweaked
  <2>2. /\ [options EXCEPT !.labels = TRUE] \in ListOptions
        /\ [options EXCEPT !.labels = TRUE].rv = options.rv
        /\ [options EXCEPT !.labels = TRUE].labels
    BY DEF ListOptions
  <2> QED
    BY <1>2, <2>1, <2>2
<1>3. CASE ~asked.labels
  BY <1>1, <1>3 DEF Tweaked
<1> QED
  BY <1>2, <1>3

\* The tweak and the namespace of the informer are in its requests.
LEMMA RequestsAreRight ==
  ASSUME InformerOK, NEW options \in ListOptions, ~options.labels
  PROVE  /\ RequestOK(ListFunc(informer, options))
         /\ LET request == WatchFunc(informer, options)
            IN /\ RequestOK(request) /\ request.params.rv = options.rv
               /\ [request |-> request, position |-> options.rv] \in Streams
<1> DEFINE params == Tweaked(informer.tweakListOptions, options)
<1>1. /\ params \in ListOptions /\ params.rv = options.rv
      /\ params.labels <=> asked.labels
  BY TweakedFacts
<1>2. /\ informer.namespace = asked.namespace /\ asked.labels \in BOOLEAN
      /\ asked.namespace \in Namespaces \cup {NamespaceAll}
  BY DEF InformerOK
<1>3. ListFunc(informer, options) =
        [verb |-> "GET", ns |-> asked.namespace, name |-> Nil,
         params |-> params, body |-> Nil]
  BY <1>2 DEF ListFunc, C!List, C!Networks, C!newNetworks, C!Request
<1>4. WatchFunc(informer, options) =
        [verb |-> "GET", ns |-> asked.namespace, name |-> Nil,
         params |-> [params EXCEPT !.watch = TRUE], body |-> Nil]
  BY <1>2 DEF WatchFunc, C!Watch, C!Networks, C!newNetworks, C!Request
<1> HIDE DEF params
<1>5. /\ [params EXCEPT !.watch = TRUE] \in [labels : BOOLEAN, rv : Nat, watch : {TRUE}]
      /\ [params EXCEPT !.watch = TRUE].labels = params.labels
      /\ [params EXCEPT !.watch = TRUE].rv = params.rv
  BY <1>1 DEF ListOptions
<1>6. params.labels = asked.labels
  BY <1>1, <1>2 DEF ListOptions
<1>7. options.rv \in Nat
  BY DEF ListOptions
<1>8. RequestOK(ListFunc(informer, options))
  BY <1>3, <1>6 DEF RequestOK
<1> DEFINE watched == [params EXCEPT !.watch = TRUE]
<1> HIDE DEF watched
<1>9. /\ watched \in [labels : BOOLEAN, rv : Nat, watch : {TRUE}]
      /\ watched.labels = asked.labels /\ watched.rv = options.rv
  BY <1>1, <1>5, <1>6 DEF watched
<1>10. WatchFunc(informer, options) =
         [verb |-> "GET", ns |-> asked.namespace, name |-> Nil,
          params |-> watched, body |-> Nil]
  BY <1>4 DEF watched
<1> DEFINE request == WatchFunc(informer, options)
<1>11. RequestOK(request) /\ request.params.rv = options.rv
  BY <1>9, <1>10 DEF RequestOK
<1>12. request \in
         [verb : {"GET"}, ns : Namespaces \cup {NamespaceAll}, name : {Nil},
          params : [labels : BOOLEAN, rv : Nat, watch : {TRUE}], body : {Nil}]
  <2>1. \A ns \in Namespaces \cup {NamespaceAll},
           q \in [labels : BOOLEAN, rv : Nat, watch : {TRUE}] :
          [verb |-> "GET", ns |-> ns, name |-> Nil, params |-> q, body |-> Nil] \in
            [verb : {"GET"}, ns : Namespaces \cup {NamespaceAll}, name : {Nil},
             params : [labels : BOOLEAN, rv : Nat, watch : {TRUE}], body : {Nil}]
    OBVIOUS
  <2>2. [verb |-> "GET", ns |-> asked.namespace, name |-> Nil, params |-> watched,
         body |-> Nil] \in
            [verb : {"GET"}, ns : Namespaces \cup {NamespaceAll}, name : {Nil},
             params : [labels : BOOLEAN, rv : Nat, watch : {TRUE}], body : {Nil}]
    BY <1>2, <1>9, <2>1, Zenon
  <2> QED
    BY <1>10, <2>2
<1> HIDE DEF request
<1>13. [request |-> request, position |-> options.rv] \in Streams
  BY <1>7, <1>12 DEF Streams
<1> QED
  BY <1>8, <1>11, <1>13 DEF request

-----------------------------------------------------------------------------
(* The queue.                                                               *)

QueueTypes ==
  /\ queue \in Seq(Keys) /\ \A i, j \in DOMAIN queue : queue[i] = queue[j] => i = j
  /\ cache \in [Keys -> 0..rv] /\ pending \in [Keys -> 0..rv] /\ before \in [Keys -> 0..rv]

\* The keys of news are now pending in the version promised at rv'.
Brought(news) ==
  /\ queue' \in Seq(Keys) /\ \A i, j \in DOMAIN queue' : queue'[i] = queue'[j] => i = j
  /\ Len(queue) \in Nat /\ Len(queue') \in Nat /\ Len(queue) <= Len(queue')
  /\ \A i \in 1..Len(queue) : queue'[i] = queue[i]
  /\ \A i \in Len(queue) + 1..Len(queue') : queue'[i] \in news /\ ~Queued(queue'[i])
  /\ \A k \in Keys : (\E i \in DOMAIN queue' : queue'[i] = k) <=> Queued(k) \/ k \in news
  /\ pending' = [k \in Keys |-> IF k \in news THEN R!Promised(k, rv') ELSE pending[k]]
  /\ before' = [k \in Keys |-> IF k \in news /\ ~Queued(k) THEN rv ELSE before[k]]

LEMMA EnqueueBrings ==
  ASSUME QueueTypes, NEW news \in SUBSET Keys, IsFiniteSet(news), NEW version,
         Enqueue(news, version), \A k \in news : version[k] = R!Promised(k, rv')
  PROVE  /\ Brought(news)
         /\ queue = <<>> => Len(queue') = Cardinality(news)
<1> DEFINE fresh == {k \in news : ~Queued(k)}
<1>1. PICK order \in SetToSeqs(fresh) : queue' = queue \o order
  BY DEF Enqueue
<1>2. IsFiniteSet(fresh)
  BY FS_Subset
<1>3. /\ order \in Seq(fresh) /\ Len(order) = Cardinality(fresh)
      /\ \A i, j \in 1..Len(order) : order[i] = order[j] => i = j
      /\ \A k \in fresh : \E i \in 1..Len(order) : order[i] = k
  BY <1>1, <1>2, OrderFacts
<1>4. /\ order \in Seq(Keys) /\ \A i \in 1..Len(order) : order[i] \in fresh
  <2>1. fresh \subseteq Keys
    OBVIOUS
  <2> HIDE DEF fresh
  <2> QED
    BY <1>3, <2>1
<1>5. queue \in Seq(Keys) /\ \A i, j \in 1..Len(queue) : queue[i] = queue[j] => i = j
  BY DEF QueueTypes
<1>6. /\ queue' \in Seq(Keys) /\ Len(queue') = Len(queue) + Len(order)
      /\ Len(queue) \in Nat /\ Len(order) \in Nat
      /\ \A i \in 1..Len(queue) : queue'[i] = queue[i]
      /\ \A i \in 1..Len(order) : queue'[Len(queue) + i] = order[i]
  BY <1>1, <1>4, <1>5, ConcatFacts
<1>7. \A i \in Len(queue) + 1..Len(queue') :
        /\ i - Len(queue) \in 1..Len(order) /\ queue'[i] = order[i - Len(queue)]
        /\ queue'[i] \in fresh
  <2> SUFFICES ASSUME NEW i \in Len(queue) + 1..Len(queue')
               PROVE  /\ i - Len(queue) \in 1..Len(order)
                      /\ queue'[i] = order[i - Len(queue)]
                      /\ queue'[i] \in fresh
    OBVIOUS
  <2>1. i - Len(queue) \in 1..Len(order) /\ i = Len(queue) + (i - Len(queue))
    BY <1>6
  <2> QED
    BY <1>4, <1>6, <2>1
<1>8. DOMAIN queue' = 1..Len(queue') /\ DOMAIN queue = 1..Len(queue)
  BY <1>5, <1>6
<1>9. \A k \in Keys : (\E i \in DOMAIN queue' : queue'[i] = k) <=> Queued(k) \/ k \in news
  <2> SUFFICES ASSUME NEW k \in Keys
               PROVE  (\E i \in DOMAIN queue' : queue'[i] = k) <=> Queued(k) \/ k \in news
    OBVIOUS
  <2>1. ASSUME NEW i \in DOMAIN queue', queue'[i] = k
        PROVE  Queued(k) \/ k \in news
    <3>1. CASE i \in 1..Len(queue)
      BY <1>6, <1>8, <2>1, <3>1 DEF Queued
    <3>2. CASE i \in Len(queue) + 1..Len(queue')
      BY <1>7, <2>1, <3>2
    <3> QED
      BY <1>6, <1>8, <3>1, <3>2
  <2>2. ASSUME Queued(k)
        PROVE  \E i \in DOMAIN queue' : queue'[i] = k
    BY <1>6, <1>8, <2>2 DEF Queued
  <2>3. ASSUME k \in fresh
        PROVE  \E i \in DOMAIN queue' : queue'[i] = k
    <3>1. PICK i \in 1..Len(order) : order[i] = k
      BY <1>3, <2>3
    <3>2. Len(queue) + i \in 1..Len(queue') /\ queue'[Len(queue) + i] = k
      BY <1>6, <3>1
    <3> QED
      BY <1>8, <3>2
  <2> QED
    BY <2>1, <2>2, <2>3
<1>10. \A i, j \in DOMAIN queue' : queue'[i] = queue'[j] => i = j
  <2> SUFFICES ASSUME NEW i \in 1..Len(queue'), NEW j \in 1..Len(queue'),
                      queue'[i] = queue'[j]
               PROVE  i = j
    BY <1>8
  <2>1. CASE i \in 1..Len(queue) /\ j \in 1..Len(queue)
    BY <1>5, <1>6, <2>1
  <2>2. CASE i \in Len(queue) + 1..Len(queue') /\ j \in Len(queue) + 1..Len(queue')
    <3>1. i - Len(queue) = j - Len(queue)
      BY <1>3, <1>7, <2>2
    <3> QED
      BY <1>6, <2>2, <3>1
  <2>3. \A a \in 1..Len(queue), b \in Len(queue) + 1..Len(queue') : queue'[a] # queue'[b]
    BY <1>6, <1>7, <1>8 DEF Queued
  <2> QED
    BY <1>6, <2>1, <2>2, <2>3
<1>11. ASSUME queue = <<>> PROVE Len(queue') = Cardinality(news)
  <2>1. fresh = news
    BY <1>11 DEF Queued
  <2>2. Len(queue) = 0
    BY <1>11
  <2>3. Len(order) = Cardinality(news)
    BY <1>3, <2>1
  <2> QED
    BY <1>6, <2>2, <2>3
<1> QED
  BY <1>6, <1>7, <1>9, <1>10, <1>11 DEF Enqueue, Brought

\* Whatever is brought, the queue leads to the revision it was brought for.
LEMMA BroughtStep ==
  ASSUME log \in Seq(Changes), rv \in 0..Len(log), rv' \in rv..Len(log),
         QueueTypes, QueueLeadsToRv, ShownOK,
         NEW news \in SUBSET Keys, Brought(news), UNCHANGED <<log, asked, cache>>,
         \A k \in Keys \ news : Queued(k) \/ cache[k] # 0 \/ R!Promised(k, rv') # 0 =>
                                  R!Promised(k, rv') = R!Promised(k, rv)
  PROVE  /\ QueueTypes' /\ QueueLeadsToRv' /\ ShownOK'
         /\ \A k \in Keys : At[k] <= At'[k]
         /\ \A i \in 1..Len(queue) : before'[queue'[i]] = before[queue[i]]
         /\ \A i \in Len(queue) + 1..Len(queue') : before'[queue'[i]] = rv
<1>1. Len(log) \in Nat /\ rv \in Nat /\ rv' \in Nat /\ rv <= rv' /\ rv' \in 0..Len(log)
  OBVIOUS
<1>2. \A k \in Keys : R!Promised(k, rv') \in 0..rv'
  BY <1>1, PromisedFacts
<1>3. \A k \in Keys \ news : R!Promised(k, rv') = R!Promised(k, rv)
  <2> SUFFICES ASSUME NEW k \in Keys \ news, ~Queued(k), cache[k] = 0, R!Promised(k, rv') = 0
               PROVE  R!Promised(k, rv') = R!Promised(k, rv)
    OBVIOUS
  <2> QED
    BY DEF QueueLeadsToRv
<1>4. QueueTypes'
  <2>1. \A n \in 0..rv : n \in 0..rv'
    BY <1>1
  <2>2. cache' \in [Keys -> 0..rv']
    BY <2>1 DEF QueueTypes
  <2>3. pending' \in [Keys -> 0..rv']
    BY <1>2, <2>1 DEF QueueTypes, Brought
  <2>4. before' \in [Keys -> 0..rv']
    BY <1>1, <2>1 DEF QueueTypes, Brought
  <2> QED
    BY <2>2, <2>3, <2>4 DEF QueueTypes, Brought
<1>5. \A k \in Keys : Queued(k)' <=> Queued(k) \/ k \in news
  BY DEF Brought, Queued
<1>6. \A k \in Keys : \A r : R!Promised(k, r)' = R!Promised(k, r)
  BY SameHistory
<1>7. QueueLeadsToRv'
  <2> SUFFICES ASSUME NEW k \in Keys
               PROVE  (IF Queued(k)' THEN pending'[k] ELSE cache'[k]) = R!Promised(k, rv')
    BY <1>6 DEF QueueLeadsToRv
  <2>1. CASE k \in news
    BY <1>5, <2>1 DEF Brought
  <2>2. CASE k \notin news
    BY <1>3, <1>5, <2>2 DEF Brought, QueueLeadsToRv
  <2> QED
    BY <2>1, <2>2
<1>8. \A k \in Keys : At'[k] = IF Queued(k) THEN before[k] ELSE IF k \in news THEN rv ELSE rv'
  BY <1>5 DEF At, Queued, Brought
<1>9. ShownOK'
  <2> SUFFICES ASSUME NEW k \in Keys
               PROVE  cache[k] = R!Promised(k, At'[k])
    BY <1>6 DEF ShownOK
  <2>1. CASE Queued(k)
    BY <1>8, <2>1 DEF ShownOK, At, Queued
  <2>2. CASE ~Queued(k)
    BY <1>3, <1>8, <2>2 DEF QueueLeadsToRv
  <2> QED
    BY <2>1, <2>2
<1>10. \A i \in 1..Len(queue) : before'[queue'[i]] = before[queue[i]]
  <2> SUFFICES ASSUME NEW i \in 1..Len(queue)
               PROVE  before'[queue'[i]] = before[queue[i]]
    OBVIOUS
  <2>1. queue \in Seq(Keys) /\ queue'[i] = queue[i]
    BY DEF Brought, QueueTypes
  <2>2. queue[i] \in Keys /\ Queued(queue[i])
    BY <2>1 DEF Queued
  <2> QED
    BY <2>1, <2>2 DEF Brought
<1>11. \A i \in Len(queue) + 1..Len(queue') : before'[queue'[i]] = rv
  BY DEF Brought
<1>12. \A k \in Keys : At[k] <= At'[k]
  <2> SUFFICES ASSUME NEW k \in Keys PROVE At[k] <= At'[k]
    OBVIOUS
  <2>1. before[k] \in Nat /\ At[k] = IF Queued(k) THEN before[k] ELSE rv
    BY <1>1 DEF QueueTypes, At, Queued
  <2> QED
    BY <1>1, <1>8, <2>1
<1> QED
  BY <1>4, <1>7, <1>9, <1>10, <1>11, <1>12

LEMMA PopulationStays ==
  ASSUME PopulationOK, UNCHANGED <<initialPopulation, first>>,
         Len(queue) \in Nat, Len(queue') \in Nat, rv \in Nat, first \in 0..rv,
         initialPopulation \in Nat,
         \A i \in 1..Len(queue) : before'[queue'[i]] = before[queue[i]],
         \A i \in Len(queue) + 1..Len(queue') : before'[queue'[i]] = rv
  PROVE  PopulationOK'
<1> SUFFICES ASSUME NEW i \in 1..Len(queue'), i > initialPopulation
             PROVE  before'[queue'[i]] >= first
  BY DEF PopulationOK
<1>1. CASE i \in 1..Len(queue)
  BY <1>1 DEF PopulationOK
<1>2. CASE i \in Len(queue) + 1..Len(queue')
  BY <1>2
<1> QED
  BY <1>1, <1>2

-----------------------------------------------------------------------------
(* The steps.                                                               *)

OtherTypes ==
  /\ log \in Seq(Changes) /\ Len(log) \in 1..MaxRev
  /\ reflector \in {"list", "watch", "receive"}
  /\ rv \in 0..Len(log) /\ first \in 0..rv
  /\ stream \in IF reflector = "receive" THEN Streams ELSE {Nil}
  /\ populated \in BOOLEAN /\ initialPopulation \in 0..Len(queue)
  /\ breaks \in 0..MaxBreaks

Parts ==
  /\ QueueTypes /\ OtherTypes /\ InformerOK /\ ReflectorOK
  /\ QueueLeadsToRv /\ ShownOK /\ PopulationOK

LEMMA InformerParts == InformerInv <=> Parts
BY DEF InformerInv, Parts, TypeOK, QueueTypes, OtherTypes, InformerOK

\* How much of the log readers see does not shrink.
Forward == \A k \in Keys : At[k] <= At'[k]

LEMMA InitInv == Init => InformerInv
<1> SUFFICES ASSUME Init PROVE Parts
  BY InformerParts
<1>1. PICK c \in Changes : c.live /\ log = <<c>>
  BY DEF Init
<1>2. log \in Seq(Changes) /\ Len(log) = 1
  BY <1>1
<1>3. InformerOK
  BY InformerIsRight DEF Init
<1>4. queue = <<>> /\ queue \in Seq(Keys) /\ Len(queue) = 0 /\ DOMAIN queue = {}
  BY DEF Init
<1>5. QueueTypes
  BY <1>4 DEF Init, QueueTypes
<1>6. 1 \in 1..MaxRev /\ 0 \in 0..MaxBreaks
  BY ConstantsOK
<1>7. OtherTypes
  <2>1. /\ reflector = "list" /\ rv = 0 /\ first = 0 /\ stream = Nil
        /\ populated = FALSE /\ initialPopulation = 0 /\ breaks = 0
    BY DEF Init
  <2>2. stream \in IF reflector = "receive" THEN Streams ELSE {Nil}
    BY <2>1
  <2>3. log \in Seq(Changes) /\ Len(log) \in 1..MaxRev /\ breaks \in 0..MaxBreaks
    BY <1>2, <1>6, <2>1
  <2>4. rv \in 0..Len(log) /\ first \in 0..rv /\ initialPopulation \in 0..Len(queue)
    BY <1>2, <1>4, <2>1
  <2> QED
    BY <2>1, <2>2, <2>3, <2>4 DEF OtherTypes
<1>8. ReflectorOK
  BY DEF Init, ReflectorOK
<1>9. \A k \in Keys : R!Promised(k, 0) = 0
  BY <1>2, PromisedFacts
<1>10. QueueLeadsToRv
  BY <1>4, <1>9 DEF Init, QueueLeadsToRv, Queued
<1>11. ShownOK
  BY <1>4, <1>9 DEF Init, ShownOK, At
<1>12. PopulationOK
  BY <1>4 DEF PopulationOK
<1> QED
  BY <1>3, <1>5, <1>7, <1>8, <1>10, <1>11, <1>12 DEF Parts

LEMMA ChangeStep == Parts /\ Change => Parts' /\ UNCHANGED At
<1> SUFFICES ASSUME Parts, Change PROVE Parts' /\ UNCHANGED At
  OBVIOUS
<1>1. PICK c \in Changes : log' = Append(log, c)
  BY DEF Change
<1>2. /\ Len(log) < MaxRev /\ log \in Seq(Changes) /\ Len(log) \in Nat
      /\ UNCHANGED <<configVars, reflector, rv, stream, fifoVars, cache, breaks, first, before>>
      /\ rv \in 0..Len(log)
  BY DEF Change, Parts, OtherTypes
<1>3. log' \in Seq(Changes) /\ Len(log') = Len(log) + 1
  BY <1>1, <1>2, AppendFacts
<1>4. QueueTypes' /\ InformerOK' /\ ReflectorOK' /\ PopulationOK'
  BY <1>2 DEF configVars, fifoVars, Parts, QueueTypes, InformerOK, ReflectorOK,
              RequestOK, PopulationOK
<1>5. OtherTypes'
  BY <1>2, <1>3, ConstantsOK DEF configVars, fifoVars, Parts, OtherTypes
<1>6. UNCHANGED At
  BY <1>2 DEF At, fifoVars
<1>7. \A k \in Keys, r \in 0..Len(log) : R!Promised(k, r)' = R!Promised(k, r)
  BY <1>1, <1>2, HistoryStays DEF configVars
<1>8. QueueLeadsToRv'
  BY <1>2, <1>7 DEF fifoVars, Parts, QueueLeadsToRv, Queued
<1>9. ShownOK'
  <2>1. \A k \in Keys : At[k] \in 0..Len(log)
    BY <1>2 DEF Parts, At, QueueTypes
  <2> QED
    BY <1>2, <1>6, <1>7, <2>1 DEF Parts, ShownOK
<1> QED
  BY <1>4, <1>5, <1>6, <1>8, <1>9 DEF Parts

LEMMA ListStep == Parts /\ ListAndReplace => Parts' /\ Forward
<1> SUFFICES ASSUME Parts, ListAndReplace PROVE Parts' /\ Forward
  OBVIOUS
<1> DEFINE request == ListFunc(informer, [labels |-> FALSE, rv |-> 0, watch |-> FALSE])
           news(r) == {k \in Keys : Selected(request, k, r) # 0 \/ cache[k] # 0}
           listed(r) == [k \in Keys |-> Selected(request, k, r)]
<1>1. PICK r \in rv..Len(log) :
        /\ r > 0
        /\ Enqueue(news(r), listed(r))
        /\ rv' = r
        /\ first' = IF populated THEN first ELSE r
        /\ initialPopulation' = IF populated THEN initialPopulation ELSE Cardinality(news(r))
  <2>1. \A s : {k \in Keys : listed(s)[k] # 0 \/ cache[k] # 0} = news(s)
    OBVIOUS
  <2> HIDE DEF news
  <2> QED
    BY <2>1 DEF ListAndReplace
<1>2. /\ reflector = "list" /\ queue = <<>> /\ reflector' = "watch" /\ populated' = TRUE
      /\ UNCHANGED <<log, asked, informer, stream, cache, breaks>>
  BY DEF ListAndReplace, configVars
<1>3. RequestOK(request)
  <2>1. [labels |-> FALSE, rv |-> 0, watch |-> FALSE] \in ListOptions
    BY DEF ListOptions
  <2>2. ~[labels |-> FALSE, rv |-> 0, watch |-> FALSE].labels
    OBVIOUS
  <2> QED
    BY <2>1, <2>2, RequestsAreRight DEF Parts
<1> HIDE DEF request
<1>4. \A k \in Keys : Selected(request, k, r) = R!Promised(k, r)
  BY <1>3, SelectedIsPromised
<1>5. /\ log \in Seq(Changes) /\ Len(log) \in Nat /\ rv \in Nat /\ rv <= r /\ r <= Len(log)
      /\ r \in Nat /\ rv \in 0..Len(log) /\ first \in 0..rv
  BY DEF Parts, OtherTypes
<1>6. \A k \in Keys : ~Queued(k) /\ cache[k] = R!Promised(k, rv)
  BY <1>2 DEF Parts, QueueLeadsToRv, Queued
<1>7. news(r) = {k \in Keys : R!Promised(k, r) # 0 \/ cache[k] # 0}
  BY <1>4
<1> HIDE DEF news
<1>8. IsFiniteSet(news(r))
  BY <1>5, <1>6, <1>7, FewArePromised
<1>9. news(r) \in SUBSET Keys /\ \A k \in news(r) : listed(r)[k] = R!Promised(k, rv')
  BY <1>1, <1>4, <1>7
<1> HIDE DEF listed
<1>10. /\ Brought(news(r)) /\ Len(queue') = Cardinality(news(r))
  BY <1>1, <1>2, <1>8, <1>9, EnqueueBrings DEF Parts
<1>11. /\ QueueTypes' /\ QueueLeadsToRv' /\ ShownOK' /\ Forward
       /\ \A i \in 1..Len(queue) : before'[queue'[i]] = before[queue[i]]
       /\ \A i \in Len(queue) + 1..Len(queue') : before'[queue'[i]] = rv
  <2>1. \A k \in Keys \ news(r) : R!Promised(k, r) = 0 /\ cache[k] = 0
    BY <1>7
  <2> QED
    BY <1>1, <1>2, <1>5, <1>6, <1>9, <1>10, <2>1, BroughtStep DEF Parts, Forward
<1>12. Len(queue) = 0 /\ initialPopulation = 0 /\ Len(queue') \in Nat
  BY <1>2, <1>10 DEF Parts, OtherTypes, Brought
<1>13. PopulationOK'
  <2>1. CASE populated
    BY <1>1, <1>5, <1>11, <1>12, <2>1, PopulationStays DEF Parts
  <2>2. CASE ~populated
    BY <1>1, <1>10, <1>12, <2>2 DEF PopulationOK
  <2> QED
    BY <2>1, <2>2
<1>14. OtherTypes'
  <2>1. first' \in 0..rv' /\ rv' \in 0..Len(log') /\ initialPopulation' \in 0..Len(queue')
    BY <1>1, <1>2, <1>5, <1>10, <1>12
  <2>2. stream' \in {Nil}
    BY <1>2 DEF Parts, OtherTypes
  <2> QED
    BY <1>2, <2>1, <2>2 DEF Parts, OtherTypes
<1>15. ReflectorOK'
  BY <1>1, <1>2 DEF ReflectorOK
<1>16. InformerOK'
  BY <1>2 DEF Parts, InformerOK
<1> QED
  BY <1>11, <1>13, <1>14, <1>15, <1>16 DEF Parts

LEMMA OpenStep == Parts /\ OpenWatch => Parts' /\ Forward
<1> SUFFICES ASSUME Parts, OpenWatch PROVE Parts' /\ Forward
  OBVIOUS
<1> DEFINE options == [labels |-> FALSE, rv |-> rv, watch |-> FALSE]
           request == WatchFunc(informer, options)
<1>1. /\ rv \in Nat /\ rv > 0 /\ reflector = "watch" /\ reflector' = "receive"
      /\ UNCHANGED <<log, asked, informer, populated, initialPopulation, cache, breaks, first>>
  BY DEF OpenWatch, configVars, Parts, OtherTypes, ReflectorOK
<1>2. options \in ListOptions /\ ~options.labels /\ options.rv = rv
  BY <1>1 DEF ListOptions
<1>3. /\ RequestOK(request) /\ request.params.rv = rv
      /\ [request |-> request, position |-> rv] \in Streams
  <2> HIDE DEF options
  <2> QED
    BY <1>2, RequestsAreRight DEF Parts
<1>4. /\ stream' = [request |-> request, position |-> request.params.rv]
      /\ UNCHANGED <<queue, pending, before, rv>>
  BY <1>1, <1>3 DEF OpenWatch
<1> HIDE DEF request
<1>5. stream' = [request |-> request, position |-> rv]
  BY <1>3, <1>4
<1>6. OtherTypes'
  BY <1>1, <1>3, <1>4, <1>5 DEF Parts, OtherTypes
<1>7. ReflectorOK'
  BY <1>1, <1>3, <1>4, <1>5 DEF Parts, ReflectorOK, RequestOK
<1>8. QueueTypes' /\ InformerOK' /\ PopulationOK'
  BY <1>1, <1>4 DEF Parts, QueueTypes, InformerOK, PopulationOK
<1>9. \A k, r : R!Promised(k, r)' = R!Promised(k, r)
  BY <1>1, SameHistory
<1>10. QueueLeadsToRv'
  BY <1>1, <1>4, <1>9 DEF Parts, QueueLeadsToRv, Queued
<1>11. At' = At
  BY <1>4 DEF At
<1>12. ShownOK'
  BY <1>1, <1>9, <1>11 DEF Parts, ShownOK
<1>13. Forward
  BY <1>1, <1>11 DEF Forward, At, Parts, QueueTypes
<1> QED
  BY <1>6, <1>7, <1>8, <1>10, <1>12, <1>13 DEF Parts

LEMMA ReceiveStep == Parts /\ Receive => Parts' /\ Forward
<1> SUFFICES ASSUME Parts, Receive PROVE Parts' /\ Forward
  OBVIOUS
<1>1. /\ reflector = "receive" /\ rv > 0
      /\ UNCHANGED <<log, asked, informer, reflector, populated, initialPopulation, cache,
                     breaks, first>>
  BY DEF Receive, configVars, Parts, ReflectorOK
<1>2. /\ stream \in Streams /\ stream.position = rv /\ RequestOK(stream.request)
  BY <1>1 DEF Parts, OtherTypes, ReflectorOK
<1>3. PICK i \in rv + 1..Len(log) :
        /\ \A j \in rv + 1..i - 1 : ~Event(j)
        /\ LET k == log[i].key
               v == Selected(stream.request, k, i)
           IN IF v = 0 /\ cache[k] = 0 /\ ~Queued(k)
                THEN UNCHANGED <<queue, pending, before>>
                ELSE Enqueue({k}, [l \in {k} |-> v])
        /\ stream' = [stream EXCEPT !.position = i]
        /\ rv' = i
  BY <1>2 DEF Receive
<1> DEFINE k == log[i].key
<1>4. /\ log \in Seq(Changes) /\ Len(log) \in Nat /\ rv \in Nat /\ rv \in 0..Len(log)
      /\ i \in Nat /\ rv <= i - 1 /\ i <= Len(log) /\ first \in 0..rv
      /\ i - 1 \in rv..Len(log)
  BY <1>3 DEF Parts, OtherTypes
<1>5. k \in Keys
  <2>1. log[i] \in Changes
    BY <1>4
  <2> QED
    BY <2>1 DEF Changes
<1>6. \A l, r : Selected(stream.request, l, r) = R!Promised(l, r)
  BY <1>2, SelectedIsPromised
<1>7. \A l \in Keys : R!Promised(l, i - 1) = R!Promised(l, rv)
  <2> SUFFICES ASSUME NEW l \in Keys PROVE R!Promised(l, i - 1) = R!Promised(l, rv)
    OBVIOUS
  <2>1. \A j \in rv + 1..i - 1 : log[j].key = l =>
          R!Promised(l, j) = 0 /\ R!Promised(l, j - 1) = 0
    BY <1>3, <1>6 DEF Event
  <2> QED
    BY <1>4, <2>1, QuietChanges
<1>8. \A l \in Keys \ {k} : R!Promised(l, i) = R!Promised(l, rv)
  <2> SUFFICES ASSUME NEW l \in Keys \ {k} PROVE R!Promised(l, i) = R!Promised(l, i - 1)
    BY <1>7
  <2>1. \A j \in i - 1 + 1..i : log[j].key # l
    BY <1>4
  <2>2. i - 1 \in 0..Len(log) /\ i \in i - 1..Len(log)
    BY <1>4
  <2> QED
    BY <1>4, <2>1, <2>2, StoredStays DEF R!Promised, StoredAt
<1> HIDE DEF k
<1>9. /\ IF R!Promised(k, i) = 0 /\ cache[k] = 0 /\ ~Queued(k)
           THEN UNCHANGED <<queue, pending, before>>
           ELSE Enqueue({k}, [l \in {k} |-> R!Promised(k, i)])
  BY <1>3, <1>6 DEF k
<1>10. rv' \in rv..Len(log) /\ rv' = i
  BY <1>3, <1>4
<1>11. \E news \in SUBSET Keys :
         /\ Brought(news)
         /\ \A l \in Keys \ news : Queued(l) \/ cache[l] # 0 \/ R!Promised(l, rv') # 0 =>
                                    R!Promised(l, rv') = R!Promised(l, rv)
  <2>1. CASE R!Promised(k, i) = 0 /\ cache[k] = 0 /\ ~Queued(k)
    <3>1. UNCHANGED <<queue, pending, before>>
      BY <1>9, <2>1
    <3>2. queue \in Seq(Keys) /\ \A a, b \in DOMAIN queue : queue[a] = queue[b] => a = b
      BY DEF Parts, QueueTypes
    <3>3. pending \in [Keys -> 0..rv] /\ before \in [Keys -> 0..rv]
      BY DEF Parts, QueueTypes
    <3>4. Brought({})
      BY <3>1, <3>2, <3>3 DEF Brought, Queued
    <3>5. \A l \in Keys : Queued(l) \/ cache[l] # 0 \/ R!Promised(l, rv') # 0 =>
                            R!Promised(l, rv') = R!Promised(l, rv)
      BY <1>8, <1>10, <2>1
    <3> QED
      BY <3>4, <3>5
  <2>2. CASE ~(R!Promised(k, i) = 0 /\ cache[k] = 0 /\ ~Queued(k))
    <3> DEFINE version == [l \in {k} |-> R!Promised(k, i)]
    <3>1. Enqueue({k}, version)
      BY <1>9, <2>2
    <3>2. \A l \in {k} : version[l] = R!Promised(l, rv')
      BY <1>10
    <3> HIDE DEF version
    <3>3. Brought({k})
      BY <1>5, <3>1, <3>2, FS_Singleton, EnqueueBrings DEF Parts
    <3>4. \A l \in Keys \ {k} : R!Promised(l, rv') = R!Promised(l, rv)
      BY <1>8, <1>10
    <3> QED
      BY <1>5, <3>3, <3>4
  <2> QED
    BY <2>1, <2>2
<1>12. /\ QueueTypes' /\ QueueLeadsToRv' /\ ShownOK' /\ Forward
       /\ \A j \in 1..Len(queue) : before'[queue'[j]] = before[queue[j]]
       /\ \A j \in Len(queue) + 1..Len(queue') : before'[queue'[j]] = rv
  BY <1>1, <1>4, <1>10, <1>11, BroughtStep DEF Parts, Forward
<1>13. /\ Len(queue) \in Nat /\ Len(queue') \in Nat /\ Len(queue) <= Len(queue')
       /\ initialPopulation \in 0..Len(queue)
  BY <1>11 DEF Brought, Parts, OtherTypes
<1>14. PopulationOK'
  BY <1>1, <1>4, <1>12, <1>13, PopulationStays DEF Parts
<1>15. /\ stream' \in Streams /\ stream'.position = i /\ stream'.request = stream.request
  BY <1>2, <1>3, <1>4 DEF Streams
<1>16. OtherTypes'
  <2>1. first' \in 0..rv' /\ rv' \in 0..Len(log') /\ initialPopulation' \in 0..Len(queue')
    BY <1>1, <1>4, <1>10, <1>13
  <2> QED
    BY <1>1, <1>15, <2>1 DEF Parts, OtherTypes
<1>17. ReflectorOK'
  <2>1. populated
    BY <1>1 DEF Parts, ReflectorOK
  <2>2. RequestOK(stream.request)'
    BY <1>1, <1>2, <1>15 DEF RequestOK
  <2> QED
    BY <1>1, <1>4, <1>10, <1>15, <2>1, <2>2 DEF ReflectorOK, Parts, OtherTypes
<1>18. InformerOK'
  BY <1>1 DEF Parts, InformerOK
<1> QED
  BY <1>12, <1>14, <1>16, <1>17, <1>18 DEF Parts

\* What nothing but the watch, the queue and the history variables is about.
LEMMA QuietStep ==
  Parts /\ UNCHANGED <<log, asked, informer, rv, fifoVars, cache, first, before>> =>
    /\ QueueTypes' /\ InformerOK' /\ QueueLeadsToRv' /\ ShownOK' /\ PopulationOK'
    /\ Forward
<1> SUFFICES ASSUME Parts,
                    UNCHANGED <<log, asked, informer, rv, fifoVars, cache, first, before>>
             PROVE  /\ QueueTypes' /\ InformerOK' /\ QueueLeadsToRv' /\ ShownOK'
                    /\ PopulationOK' /\ Forward
  OBVIOUS
<1>1. QueueTypes' /\ InformerOK' /\ PopulationOK'
  BY DEF fifoVars, Parts, QueueTypes, InformerOK, PopulationOK
<1>2. \A k, r : R!Promised(k, r)' = R!Promised(k, r)
  BY SameHistory
<1>3. QueueLeadsToRv'
  BY <1>2 DEF fifoVars, Parts, QueueLeadsToRv, Queued
<1>4. At' = At
  BY DEF At, fifoVars
<1>5. ShownOK'
  BY <1>2, <1>4 DEF Parts, ShownOK
<1>6. Forward
  BY <1>4 DEF Forward, At, Parts, QueueTypes, OtherTypes
<1> QED
  BY <1>1, <1>3, <1>5, <1>6

LEMMA BreakStep == Parts /\ WatchBreaks => Parts' /\ Forward
<1> SUFFICES ASSUME Parts, WatchBreaks PROVE Parts' /\ Forward
  OBVIOUS
<1>1. /\ reflector = "receive" /\ breaks < MaxBreaks /\ breaks' = breaks + 1
      /\ reflector' \in {"list", "watch"} /\ stream' = Nil
      /\ UNCHANGED <<log, asked, informer, rv, fifoVars, cache, first, before>>
  BY DEF WatchBreaks, configVars
<1>2. OtherTypes'
  BY <1>1, ConstantsOK DEF Parts, OtherTypes, fifoVars
<1>3. ReflectorOK'
  BY <1>1 DEF Parts, ReflectorOK, fifoVars
<1> QED
  BY <1>1, <1>2, <1>3, QuietStep DEF Parts

LEMMA ResyncStep == Parts /\ Resync => Parts' /\ Forward
<1> SUFFICES ASSUME Parts, Resync PROVE Parts' /\ Forward
  OBVIOUS
<1> DEFINE again == {k \in Keys : cache[k] # 0 /\ ~Queued(k)}
<1>1. /\ Enqueue(again, cache) /\ reflector # "list"
      /\ UNCHANGED <<log, asked, informer, reflector, rv, stream, populated,
                     initialPopulation, cache, breaks, first>>
  BY DEF Resync, configVars
<1>2. /\ log \in Seq(Changes) /\ Len(log) \in Nat /\ rv \in Nat /\ rv \in 0..Len(log)
      /\ first \in 0..rv /\ rv' \in rv..Len(log)
  BY <1>1 DEF Parts, OtherTypes
<1>3. \A k \in again : cache[k] = R!Promised(k, rv) /\ cache[k] # 0
  BY DEF Parts, QueueLeadsToRv
<1>4. again \in SUBSET Keys
  OBVIOUS
<1> HIDE DEF again
<1>5. IsFiniteSet(again)
  BY <1>2, <1>3, <1>4, FewArePromised
<1>6. Brought(again)
  BY <1>1, <1>3, <1>4, <1>5, EnqueueBrings DEF Parts
<1>7. /\ QueueTypes' /\ QueueLeadsToRv' /\ ShownOK' /\ Forward
      /\ \A j \in 1..Len(queue) : before'[queue'[j]] = before[queue[j]]
      /\ \A j \in Len(queue) + 1..Len(queue') : before'[queue'[j]] = rv
  BY <1>1, <1>2, <1>4, <1>6, BroughtStep DEF Parts, Forward
<1>8. /\ Len(queue) \in Nat /\ Len(queue') \in Nat /\ Len(queue) <= Len(queue')
      /\ initialPopulation \in 0..Len(queue)
  BY <1>6 DEF Brought, Parts, OtherTypes
<1>9. PopulationOK'
  BY <1>1, <1>2, <1>7, <1>8, PopulationStays DEF Parts
<1>10. OtherTypes'
  <2>1. first' \in 0..rv' /\ rv' \in 0..Len(log') /\ initialPopulation' \in 0..Len(queue')
    BY <1>1, <1>2, <1>8
  <2> QED
    BY <1>1, <2>1 DEF Parts, OtherTypes
<1>11. ReflectorOK' /\ InformerOK'
  BY <1>1 DEF Parts, ReflectorOK, RequestOK, InformerOK
<1> QED
  BY <1>7, <1>9, <1>10, <1>11 DEF Parts

LEMMA PopStep == Parts /\ Pop => Parts' /\ Forward
<1> SUFFICES ASSUME Parts, Pop PROVE Parts' /\ Forward
  OBVIOUS
<1>0. PICK h : h = queue[1]
  OBVIOUS
<1>1. /\ queue \in Seq(Keys) /\ queue # <<>>
      /\ \A i, j \in DOMAIN queue : queue[i] = queue[j] => i = j
      /\ cache \in [Keys -> 0..rv] /\ pending \in [Keys -> 0..rv] /\ before \in [Keys -> 0..rv]
  BY DEF Pop, Parts, QueueTypes
<1>2. /\ Tail(queue) \in Seq(Keys) /\ Len(Tail(queue)) = Len(queue) - 1
      /\ Len(queue) \in Nat \ {0} /\ Head(queue) = h /\ h \in Keys
      /\ \A i \in 1..Len(queue) - 1 : Tail(queue)[i] = queue[i + 1]
  BY <1>0, <1>1, TailFacts
<1>3. /\ queue' = Tail(queue)
      /\ cache' = [cache EXCEPT ![h] = pending[h]]
      /\ pending' = [pending EXCEPT ![h] = 0]
      /\ before' = [before EXCEPT ![h] = 0]
      /\ initialPopulation' = IF initialPopulation = 0 THEN 0 ELSE initialPopulation - 1
      /\ UNCHANGED <<log, asked, informer, reflector, rv, stream, populated, breaks, first>>
  BY <1>2 DEF Pop, configVars
<1>4. /\ rv \in Nat /\ 0 \in 0..rv /\ first \in 0..rv /\ initialPopulation \in 0..Len(queue)
  BY DEF Parts, OtherTypes
<1>5. /\ Len(queue') = Len(queue) - 1 /\ DOMAIN queue' = 1..Len(queue')
      /\ \A i \in 1..Len(queue') : queue'[i] = queue[i + 1] /\ i + 1 \in 1..Len(queue)
      /\ DOMAIN queue = 1..Len(queue) /\ \A i \in 1..Len(queue) : queue[i] \in Keys
  BY <1>1, <1>2, <1>3
<1>6. Queued(h) /\ \A i \in 1..Len(queue') : queue'[i] # h
  <2>1. Queued(h)
    BY <1>0, <1>2, <1>5 DEF Queued
  <2>2. ASSUME NEW i \in 1..Len(queue'), queue'[i] = h PROVE FALSE
    <3>1. i + 1 \in DOMAIN queue /\ 1 \in DOMAIN queue /\ queue[i + 1] = queue[1]
      BY <1>0, <1>2, <1>5, <2>2
    <3>2. i + 1 = 1
      BY <1>1, <3>1
    <3> QED
      BY <2>2, <3>2
  <2> QED
    BY <2>1, <2>2
<1>7. \A k \in Keys \ {h} : Queued(k)' <=> Queued(k)
  <2> SUFFICES ASSUME NEW k \in Keys \ {h} PROVE Queued(k)' <=> Queued(k)
    OBVIOUS
  <2>1. ASSUME NEW i \in 1..Len(queue), queue[i] = k
        PROVE  \E j \in 1..Len(queue') : queue'[j] = k
    <3>1. i # 1
      BY <1>0, <2>1
    <3>2. i - 1 \in 1..Len(queue') /\ i - 1 + 1 = i
      BY <1>2, <1>5, <3>1
    <3>3. queue'[i - 1] = queue[i]
      BY <1>5, <3>2
    <3> QED
      BY <2>1, <3>2, <3>3
  <2> QED
    BY <1>5, <2>1 DEF Queued
<1>8. ~Queued(h)'
  BY <1>5, <1>6 DEF Queued
<1>9. QueueTypes'
  <2>1. cache' \in [Keys -> 0..rv] /\ pending' \in [Keys -> 0..rv] /\ before' \in [Keys -> 0..rv]
    BY <1>1, <1>2, <1>3, <1>4
  <2>2. \A i, j \in DOMAIN queue' : queue'[i] = queue'[j] => i = j
    <3> SUFFICES ASSUME NEW i \in 1..Len(queue'), NEW j \in 1..Len(queue'),
                        queue'[i] = queue'[j]
                 PROVE  i = j
      BY <1>5
    <3>1. i + 1 = j + 1
      BY <1>1, <1>5
    <3> QED
      BY <3>1
  <2> QED
    BY <1>2, <1>3, <2>1, <2>2 DEF QueueTypes
<1>10. \A k, r : R!Promised(k, r)' = R!Promised(k, r)
  BY <1>3, SameHistory
<1>11. QueueLeadsToRv'
  <2> SUFFICES ASSUME NEW k \in Keys
               PROVE  (IF Queued(k)' THEN pending'[k] ELSE cache'[k]) = R!Promised(k, rv)
    BY <1>3, <1>10 DEF QueueLeadsToRv
  <2>1. CASE k = h
    BY <1>1, <1>3, <1>6, <1>8, <2>1 DEF Parts, QueueLeadsToRv
  <2>2. CASE k # h
    BY <1>1, <1>3, <1>7, <2>2 DEF Parts, QueueLeadsToRv
  <2> QED
    BY <2>1, <2>2
<1>12. \A k \in Keys : At'[k] = IF k = h THEN rv ELSE At[k]
  BY <1>1, <1>3, <1>7, <1>8 DEF At, Queued
<1>13. ShownOK'
  <2> SUFFICES ASSUME NEW k \in Keys
               PROVE  cache'[k] = R!Promised(k, At'[k])
    BY <1>10 DEF ShownOK
  <2>1. CASE k = h
    BY <1>1, <1>3, <1>6, <1>12, <2>1 DEF Parts, QueueLeadsToRv
  <2>2. CASE k # h
    BY <1>1, <1>3, <1>12, <2>2 DEF Parts, ShownOK
  <2> QED
    BY <2>1, <2>2
<1>14. Forward
  <2> SUFFICES ASSUME NEW k \in Keys PROVE At[k] <= At'[k]
    BY DEF Forward
  <2>1. At[k] \in 0..rv
    BY <1>1, <1>4 DEF At
  <2> QED
    BY <1>4, <1>12, <2>1
<1>15. PopulationOK'
  <2> SUFFICES ASSUME NEW i \in 1..Len(queue'), i > initialPopulation'
               PROVE  before'[queue'[i]] >= first
    BY <1>3 DEF PopulationOK
  <2>1. i + 1 > initialPopulation /\ i + 1 \in 1..Len(queue)
    BY <1>3, <1>4, <1>5
  <2>2. before[queue[i + 1]] >= first
    BY <2>1 DEF Parts, PopulationOK
  <2>3. before'[queue'[i]] = before[queue[i + 1]]
    BY <1>1, <1>3, <1>5, <1>6
  <2> QED
    BY <2>2, <2>3
<1>16. OtherTypes'
  <2>1. initialPopulation' \in 0..Len(queue')
    BY <1>2, <1>3, <1>4, <1>5
  <2> QED
    BY <1>3, <2>1 DEF Parts, OtherTypes
<1>17. ReflectorOK'
  <2>1. populated
    BY <1>1 DEF Parts, ReflectorOK
  <2> QED
    BY <1>3, <2>1 DEF Parts, ReflectorOK, RequestOK
<1>18. InformerOK'
  BY <1>3 DEF Parts, InformerOK
<1> QED
  BY <1>9, <1>11, <1>13, <1>14, <1>15, <1>16, <1>17, <1>18 DEF Parts

LEMMA StepInv == InformerInv /\ [Next]_vars => InformerInv'
<1> SUFFICES ASSUME Parts, [Next]_vars PROVE Parts'
  BY InformerParts DEF InformerInv, Parts, TypeOK, QueueTypes, OtherTypes, InformerOK
<1>1. CASE Change
  BY <1>1, ChangeStep
<1>2. CASE ListAndReplace
  BY <1>2, ListStep
<1>3. CASE OpenWatch
  BY <1>3, OpenStep
<1>4. CASE Receive
  BY <1>4, ReceiveStep
<1>5. CASE WatchBreaks
  BY <1>5, BreakStep
<1>6. CASE Pop
  BY <1>6, PopStep
<1>7. CASE Resync
  BY <1>7, ResyncStep
<1>8. CASE UNCHANGED vars
  <2>1. UNCHANGED <<log, asked, informer, rv, fifoVars, cache, first, before, reflector,
                    stream, breaks>>
    BY <1>8 DEF vars, configVars
  <2>2. OtherTypes' /\ ReflectorOK'
    BY <2>1 DEF Parts, OtherTypes, ReflectorOK, RequestOK, fifoVars
  <2> QED
    BY <2>1, <2>2, QuietStep DEF Parts
<1> QED
  BY <1>1, <1>2, <1>3, <1>4, <1>5, <1>6, <1>7, <1>8 DEF Next

LEMMA Invariance == Spec => []InformerInv
BY InitInv, StepInv, PTL DEF Spec

(* The types: for all factories, histories and breaks of the watch.         *)
THEOREM TypeCorrect == Spec => []TypeOK
BY Invariance, PTL DEF InformerInv

(* What the queue will bring is what was asked for at the reflector's       *)
(* revision.                                                                *)
THEOREM QueueIsRight == Spec => []QueueLeadsToRv
BY Invariance, PTL DEF InformerInv

-----------------------------------------------------------------------------
(* What readers get.                                                        *)

\* What the indexer holds for k.
Object(k) == [key |-> k, version |-> cache[k], labels |-> log[cache[k]].labels]

\* What a lister of the namespace ns has.
Cached(ns) == {k \in Keys : cache[k] # 0 /\ ns \in {NamespaceAll, k[1]}}

LEMMA IndexerFacts ==
  ASSUME Parts
  PROVE  /\ DOMAIN Indexer = {l \in Keys : cache[l] # 0}
         /\ \A k \in DOMAIN Indexer : /\ Indexer[k] = Object(k) /\ Object(k) # Nil
                                      /\ Object(k).labels \in BOOLEAN
<1>1. DOMAIN Indexer = {l \in Keys : cache[l] # 0}
  BY DEF Indexer
<1>2. ASSUME NEW k \in Keys, cache[k] # 0
      PROVE  /\ Indexer[k] = Object(k) /\ Object(k) # Nil
             /\ Object(k).labels \in BOOLEAN
  <2>1. Indexer[k] = Object(k)
    BY <1>2 DEF Indexer, Object
  <2>2. cache[k] \in 1..Len(log) /\ Len(log) \in Nat /\ log \in Seq(Changes)
    BY <1>2 DEF Parts, QueueTypes, OtherTypes
  <2>3. log[cache[k]] \in Changes
    BY <2>2
  <2>4. log[cache[k]].labels \in BOOLEAN /\ cache[k] \in Nat
    BY <2>2, <2>3 DEF Changes
  <2>5. Object(k) \in [key : Namespaces \X Names, version : Nat, labels : BOOLEAN]
    BY <2>4 DEF Object, Keys
  <2> QED
    BY <2>1, <2>4, <2>5, ConstantsOK DEF Object
<1> QED
  BY <1>1, <1>2

LEMMA GetFacts ==
  ASSUME Parts, NEW ns \in Namespaces, NEW name \in Names
  PROVE  LET k == <<ns, name>>
         IN L!Get(L!Networks(Lister, ns), name) = IF cache[k] # 0 THEN Object(k) ELSE Nil
<1>1. <<ns, name>> \in Keys
  BY DEF Keys
<1>2. L!Get(L!Networks(Lister, ns), name) =
        IF <<ns, name>> \in DOMAIN Indexer THEN Indexer[<<ns, name>>] ELSE Nil
  BY DEF L!Get, L!Networks, L!NewNetworkLister, Lister
<1> QED
  BY <1>1, <1>2, IndexerFacts

LEMMA ListFacts ==
  ASSUME Parts, NEW ns \in Namespaces \cup {NamespaceAll}
  PROVE  LET Got(n, name) == L!Get(L!Networks(Lister, n), name)
             In == {Got(n, name) : n \in IF ns = NamespaceAll THEN Namespaces ELSE {ns},
                                   name \in Names} \ {Nil}
         IN /\ In = {Object(k) : k \in Cached(ns)}
            /\ L!NamespaceList(L!Networks(Lister, ns), BOOLEAN) = In
            /\ L!NamespaceList(L!Networks(Lister, ns), {TRUE}) = {n \in In : n.labels}
            /\ ns = NamespaceAll => L!List(Lister, {TRUE}) = {n \in In : n.labels}
<1> DEFINE Got(n, name) == L!Get(L!Networks(Lister, n), name)
           Of == IF ns = NamespaceAll THEN Namespaces ELSE {ns}
           In == {Got(n, name) : n \in Of, name \in Names} \ {Nil}
<1>1. /\ DOMAIN Indexer = {l \in Keys : cache[l] # 0}
      /\ \A k \in DOMAIN Indexer : /\ Indexer[k] = Object(k) /\ Object(k) # Nil
                                   /\ Object(k).labels \in BOOLEAN
  BY IndexerFacts
<1>2. \A n \in Namespaces, name \in Names :
        Got(n, name) = IF cache[<<n, name>>] # 0 THEN Object(<<n, name>>) ELSE Nil
  BY GetFacts
<1>3. Of \subseteq Namespaces /\ \A n \in Of : ns \in {NamespaceAll, n}
  OBVIOUS
<1>4. \A k \in Keys : /\ k[1] \in Namespaces /\ k[2] \in Names /\ k = <<k[1], k[2]>>
                      /\ ns \in {NamespaceAll, k[1]} => k[1] \in Of
  BY DEF Keys
<1> HIDE DEF Got, Of
<1>5. In \subseteq {Object(k) : k \in Cached(ns)}
  <2> SUFFICES ASSUME NEW n \in Of, NEW name \in Names, Got(n, name) # Nil
               PROVE  Got(n, name) \in {Object(k) : k \in Cached(ns)}
    OBVIOUS
  <2>1. <<n, name>> \in Keys /\ <<n, name>>[1] = n
    BY <1>3 DEF Keys
  <2>2. cache[<<n, name>>] # 0 /\ Got(n, name) = Object(<<n, name>>)
    BY <1>2, <1>3
  <2>3. <<n, name>> \in Cached(ns)
    BY <1>3, <2>1, <2>2 DEF Cached
  <2> QED
    BY <2>2, <2>3
<1>6. {Object(k) : k \in Cached(ns)} \subseteq In
  <2> SUFFICES ASSUME NEW k \in Cached(ns) PROVE Object(k) \in In
    OBVIOUS
  <2>1. k \in Keys /\ cache[k] # 0 /\ ns \in {NamespaceAll, k[1]}
    BY DEF Cached
  <2>2. k[1] \in Of /\ k[1] \in Namespaces /\ k[2] \in Names /\ k = <<k[1], k[2]>>
    BY <1>4, <2>1
  <2>3. Got(k[1], k[2]) = Object(k) /\ Object(k) # Nil
    BY <1>1, <1>2, <2>1, <2>2
  <2> QED
    BY <2>2, <2>3
<1>7. In = {Object(k) : k \in Cached(ns)}
  BY <1>5, <1>6
<1> HIDE DEF In
<1>8. \A k \in Cached(ns) : Object(k).labels \in BOOLEAN
  BY <1>1 DEF Cached
<1>9. \A selector : L!NamespaceList(L!Networks(Lister, ns), selector) =
        {Indexer[k] : k \in {l \in DOMAIN Indexer :
           ns \in {NamespaceAll, l[1]} /\ Indexer[l].labels \in selector}}
  BY DEF L!NamespaceList, L!Networks, L!NewNetworkLister, Lister
<1>10. \A selector : L!List(Lister, selector) =
         {Indexer[k] : k \in {l \in DOMAIN Indexer : Indexer[l].labels \in selector}}
  BY DEF L!List, L!NewNetworkLister, Lister
<1>11. \A selector :
         {Indexer[k] : k \in {l \in DOMAIN Indexer :
            ns \in {NamespaceAll, l[1]} /\ Indexer[l].labels \in selector}} =
         {Object(k) : k \in {l \in Cached(ns) : Object(l).labels \in selector}}
  BY <1>1 DEF Cached
<1>12. {Object(k) : k \in {l \in Cached(ns) : Object(l).labels \in BOOLEAN}} = In
  BY <1>7, <1>8
<1>13. {Object(k) : k \in {l \in Cached(ns) : Object(l).labels \in {TRUE}}} =
         {n \in In : n.labels}
  BY <1>7, <1>8
<1>14. ns = NamespaceAll =>
         \A selector :
           {Indexer[k] : k \in {l \in DOMAIN Indexer : Indexer[l].labels \in selector}} =
           {Object(k) : k \in {l \in Cached(ns) : Object(l).labels \in selector}}
  BY <1>1 DEF Cached
<1>15. L!NamespaceList(L!Networks(Lister, ns), BOOLEAN) = In
  BY <1>9, <1>11, <1>12
<1>16. L!NamespaceList(L!Networks(Lister, ns), {TRUE}) = {n \in In : n.labels}
  BY <1>9, <1>11, <1>13
<1>17. ns = NamespaceAll => L!List(Lister, {TRUE}) = {n \in In : n.labels}
  BY <1>10, <1>13, <1>14
<1> QED
  BY <1>7, <1>15, <1>16, <1>17 DEF In, Of, Got

(* From HasSynced on the lister of the controller is complete, and lists    *)
(* agree with Get.                                                          *)
THEOREM ListerIsComplete == Spec => []SyncedListerIsComplete
<1>1. ASSUME Parts PROVE SyncedListerIsComplete
  <2> SUFFICES ASSUME HasSynced PROVE SyncedListerIsComplete
    BY DEF SyncedListerIsComplete
  <2> DEFINE Got(ns, name) == L!Get(L!Networks(Lister, ns), name)
  <2>1. ASSUME NEW ns \in Namespaces, NEW name \in Names
        PROVE  \E r \in first..rv :
                 R!Promised(<<ns, name>>, r) =
                   IF Got(ns, name) = Nil THEN 0 ELSE Got(ns, name).version
    <3> DEFINE k == <<ns, name>>
    <3>1. k \in Keys
      BY DEF Keys
    <3>2. Got(ns, name) = IF cache[k] # 0 THEN Object(k) ELSE Nil
      BY <1>1, GetFacts
    <3>3. cache[k] # 0 => Object(k) # Nil /\ Object(k).version = cache[k]
      BY <1>1, <3>1, IndexerFacts DEF Object
    <3> HIDE DEF k
    <3>4. (IF Got(ns, name) = Nil THEN 0 ELSE Got(ns, name).version) = cache[k]
      BY <3>2, <3>3
    <3>5. R!Promised(k, At[k]) = cache[k]
      BY <1>1, <3>1 DEF Parts, ShownOK
    <3>6. /\ rv \in Nat /\ first \in 0..rv /\ before[k] \in 0..rv
          /\ queue \in Seq(Keys) /\ initialPopulation = 0
      BY <1>1, <3>1 DEF Parts, OtherTypes, QueueTypes, HasSynced
    <3>7. Queued(k) => before[k] >= first
      <4>1. ASSUME NEW i \in 1..Len(queue), queue[i] = k PROVE before[k] >= first
        BY <1>1, <3>6, <4>1 DEF Parts, PopulationOK
      <4> QED
        BY <3>6, <4>1 DEF Queued
    <3>8. At[k] \in first..rv
      BY <3>1, <3>6, <3>7 DEF At, Queued
    <3> QED
      BY <3>4, <3>5, <3>8 DEF k
  <2>2. \A ns \in Namespaces \cup {NamespaceAll} :
          LET In == {Got(n, name) : n \in IF ns = NamespaceAll THEN Namespaces ELSE {ns},
                                    name \in Names} \ {Nil}
          IN /\ L!NamespaceList(L!Networks(Lister, ns), BOOLEAN) = In
             /\ L!NamespaceList(L!Networks(Lister, ns), {TRUE}) = {n \in In : n.labels}
             /\ ns = NamespaceAll => L!List(Lister, {TRUE}) = {n \in In : n.labels}
    BY <1>1, ListFacts
  <2> QED
    BY <2>1, <2>2 DEF SyncedListerIsComplete
<1> QED
  BY <1>1, Invariance, InformerParts, PTL

-----------------------------------------------------------------------------
(* The refinement.                                                          *)

LEMMA ReplicaInit == Init => R!Init
<1> SUFFICES ASSUME Init PROVE R!Init
  OBVIOUS
<1>1. log \in Seq(Changes)
  BY InitInv DEF InformerInv, TypeOK
<1>2. At = [k \in Keys |-> 0]
  BY DEF Init, At
<1> QED
  BY <1>1, <1>2 DEF Init, R!Init

LEMMA ReplicaStep ==
  ASSUME Parts, Parts', [Next]_vars
  PROVE  [R!Next]_(R!vars)
<1>1. CASE Change
  <2>1. UNCHANGED <<asked, cache, At>>
    BY <1>1, ChangeStep DEF Change, configVars
  <2> QED
    BY <1>1, <2>1 DEF Change, R!Next, R!Write
<1>2. ASSUME Forward, UNCHANGED <<log, asked>>
      PROVE  R!Next
  <2>1. At' \in [Keys -> 0..Len(log)]
    <3>1. /\ rv' \in 0..Len(log) /\ Len(log) \in Nat /\ before' \in [Keys -> 0..rv']
      BY <1>2 DEF Parts, OtherTypes, QueueTypes
    <3>2. \A n \in 0..rv' : n \in 0..Len(log)
      BY <3>1
    <3> QED
      BY <3>1, <3>2 DEF At
  <2>2. \A k \in Keys : At'[k] >= At[k]
    <3>1. \A k \in Keys : At[k] \in Nat
      BY DEF At, Parts, OtherTypes, QueueTypes
    <3> QED
      BY <1>2, <2>1, <3>1 DEF Forward
  <2>3. \A k, r : R!Promised(k, r)' = R!Promised(k, r)
    BY <1>2, SameHistory
  <2>4. \A k \in Keys : cache'[k] = R!Promised(k, At'[k])
    BY <2>3 DEF Parts, ShownOK
  <2>5. cache' = [k \in Keys |-> R!Promised(k, At'[k])]
    BY <2>4 DEF Parts, QueueTypes
  <2> QED
    BY <1>2, <2>1, <2>2, <2>5 DEF R!Next, R!Advance
<1>3. ASSUME Next, ~Change PROVE Forward /\ UNCHANGED <<log, asked>>
  <2>1. Forward
    BY <1>3, ListStep, OpenStep, ReceiveStep, BreakStep, PopStep, ResyncStep DEF Next
  <2>2. UNCHANGED <<log, asked>>
    BY <1>3 DEF Next, configVars, ListAndReplace, OpenWatch, Receive, WatchBreaks, Pop, Resync
  <2> QED
    BY <2>1, <2>2
<1>4. CASE UNCHANGED vars
  <2>1. UNCHANGED <<log, asked, cache, At>>
    BY <1>4 DEF vars, configVars, fifoVars, At
  <2> QED
    BY <2>1 DEF R!vars
<1> QED
  BY <1>1, <1>2, <1>3, <1>4

(* Readers see each Network as the server had it, in as far as the program  *)
(* asked for it, and never go back.                                         *)
THEOREM Implementation == Spec => ImplementsReplica
<1>1. InformerInv /\ InformerInv' /\ [Next]_vars => [R!Next]_(R!vars)
  BY ReplicaStep, InformerParts DEF InformerInv, Parts, TypeOK, QueueTypes, OtherTypes, InformerOK
<1> QED
  BY <1>1, ReplicaInit, Invariance, PTL DEF Spec, ImplementsReplica, R!Spec
=============================================================================

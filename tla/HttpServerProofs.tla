--------------------------- MODULE HttpServerProofs ---------------------------
(***************************************************************************)
(* What HttpServer promises, for any header names and any number of values: *)
(* handler puts the decorators in the order of its arguments, however many  *)
(* they are, and what that order makes of the response of /health.          *)
(***************************************************************************)
EXTENDS HttpServer, NaturalsInduction, WellFoundedInduction, TLAPS

-----------------------------------------------------------------------------
(* Sets of numbers, and short lists.                                        *)

\* The order of numbers, as a relation.
Earlier == {p \in Nat \X Nat : p[1] < p[2]}

LEMMA EarlierIsWellFounded == IsWellFoundedOn(Earlier, Nat)
BY NatLessThanWellFounded DEF Earlier, OpToRel

LEMMA LeastElement ==
  ASSUME NEW S \in SUBSET Nat, S # {}
  PROVE  \E m \in S : \A x \in S : m <= x
<1>1. \E m \in S : \A x \in S : ~ (<<x, m>> \in Earlier)
  BY WFMin, EarlierIsWellFounded
<1>2. \A x, m \in Nat : <<x, m>> \in Earlier <=> x < m
  BY DEF Earlier
<1>3. \A x, m \in Nat : ~ (x < m) => m <= x
  OBVIOUS
<1> QED
  BY <1>1, <1>2, <1>3

LEMMA GreatestElement ==
  ASSUME NEW n \in Nat, NEW S \in SUBSET (1..n), S # {}
  PROVE  Max(S) \in S /\ \A x \in S : x <= Max(S)
<1> DEFINE Above == {u \in Nat : \A x \in S : x <= u}
<1>1. n \in Above
  OBVIOUS
<1>2. PICK m \in Above : \A u \in Above : m <= u
  BY <1>1, LeastElement
<1>3. m \in S
  <2>1. SUFFICES ASSUME m \notin S PROVE FALSE
    OBVIOUS
  <2>2. PICK x \in S : TRUE
    OBVIOUS
  <2>3. m \in Nat /\ x \in 1..m
    BY <1>2, <2>2
  <2>4. \A y \in S : y \in Nat /\ y <= m /\ y # m
    BY <1>2, <2>1
  <2>5. m - 1 \in Above
    BY <2>3, <2>4
  <2> QED
    BY <1>2, <2>3, <2>5
<1>4. \E x \in S : \A y \in S : x >= y
  BY <1>2, <1>3
<1> QED
  BY <1>4 DEF Max

LEMMA SeqOfOne ==
  ASSUME NEW S, NEW s \in Seq(S), Len(s) = 1
  PROVE  s = <<s[1]>>
OBVIOUS

LEMMA SeqOfTwo ==
  ASSUME NEW S, NEW s \in Seq(S), Len(s) = 2
  PROVE  s = <<s[1], s[2]>>
OBVIOUS

LEMMA SeqOfThree ==
  ASSUME NEW S, NEW s \in Seq(S), Len(s) = 3
  PROVE  s = <<s[1], s[2], s[3]>>
OBVIOUS

LEMMA EndFacts ==
  ASSUME NEW S, NEW s \in Seq(S), NEW n \in 1..Len(s)
  PROVE  /\ SubSeq(s, n, Len(s)) \in Seq(S)
         /\ Len(SubSeq(s, n, Len(s))) = Len(s) - n + 1
         /\ \A i \in 1..(Len(s) - n + 1) : SubSeq(s, n, Len(s))[i] = s[n + i - 1]
OBVIOUS

LEMMA EndsOfOne ==
  ASSUME NEW S, NEW s \in Seq(S), Len(s) = 1
  PROVE  {s, <<>>} \subseteq Suffixes(s)
<1>1. 1 \in 1..Len(s)
  OBVIOUS
<1>2. /\ SubSeq(s, 1, Len(s)) \in Seq(S) /\ Len(SubSeq(s, 1, Len(s))) = 1
      /\ SubSeq(s, 1, Len(s))[1] = s[1]
  OBVIOUS
<1>3. SubSeq(s, 1, Len(s)) = <<s[1]>> /\ s = <<s[1]>>
  BY <1>2, SeqOfOne
<1> QED
  BY <1>1, <1>3 DEF Suffixes

LEMMA EndsOfThree ==
  ASSUME NEW S, NEW s \in Seq(S), Len(s) = 3
  PROVE  {s, <<s[2], s[3]>>, <<s[3]>>, <<>>} \subseteq Suffixes(s)
<1>1. ASSUME NEW n \in 1..3
      PROVE  /\ SubSeq(s, n, Len(s)) \in Seq(S)
             /\ Len(SubSeq(s, n, Len(s))) = 4 - n
             /\ \A i \in 1..(4 - n) : SubSeq(s, n, Len(s))[i] = s[n + i - 1]
  <2>1. n \in 1..Len(s)
    OBVIOUS
  <2>2. /\ SubSeq(s, n, Len(s)) \in Seq(S)
        /\ Len(SubSeq(s, n, Len(s))) = Len(s) - n + 1
        /\ \A i \in 1..(Len(s) - n + 1) :
             SubSeq(s, n, Len(s))[i] = s[n + i - 1]
    BY <2>1, EndFacts
  <2> QED
    BY <2>2
<1>2. SubSeq(s, 1, Len(s)) = s
  <2>1. s = <<s[1], s[2], s[3]>>
    BY SeqOfThree
  <2>2. /\ SubSeq(s, 1, Len(s)) \in Seq(S) /\ Len(SubSeq(s, 1, Len(s))) = 3
        /\ SubSeq(s, 1, Len(s))[1] = s[1] /\ SubSeq(s, 1, Len(s))[2] = s[2]
        /\ SubSeq(s, 1, Len(s))[3] = s[3]
    BY <1>1
  <2>3. SubSeq(s, 1, Len(s)) = <<s[1], s[2], s[3]>>
    BY <2>2, SeqOfThree
  <2> QED
    BY <2>1, <2>3
<1>3. SubSeq(s, 2, Len(s)) = <<s[2], s[3]>>
  <2>1. /\ SubSeq(s, 2, Len(s)) \in Seq(S) /\ Len(SubSeq(s, 2, Len(s))) = 2
        /\ SubSeq(s, 2, Len(s))[1] = s[2] /\ SubSeq(s, 2, Len(s))[2] = s[3]
    BY <1>1
  <2> QED
    BY <2>1, SeqOfTwo
<1>4. SubSeq(s, 3, Len(s)) = <<s[3]>>
  <2>1. /\ SubSeq(s, 3, Len(s)) \in Seq(S) /\ Len(SubSeq(s, 3, Len(s))) = 1
        /\ SubSeq(s, 3, Len(s))[1] = s[3]
    BY <1>1
  <2> QED
    BY <2>1, SeqOfOne
<1>5. 1 \in 1..Len(s) /\ 2 \in 1..Len(s) /\ 3 \in 1..Len(s)
  OBVIOUS
<1> QED
  BY <1>2, <1>3, <1>4, <1>5 DEF Suffixes

-----------------------------------------------------------------------------
(* The loop of handler.                                                     *)

\* What handler starts from, and what decorator d makes of what it is given.
Alone(h) == <<h>>
Wrapped(inner, d) == <<d>> \o inner

\* What the decorators at the indices of S make of h, given what fewer do.
Made(h, ds, S, made) ==
  IF S = {} THEN <<h>> ELSE Wrapped(made[S \ {Max(S)}], ds[Max(S)])

IsMade(h, ds, D, made) ==
  made = [S \in SUBSET D |-> Made(h, ds, S, made)]

Folded(h, ds) == FoldLeft(LAMBDA inner, d : <<d>> \o inner, <<h>>, ds)

LEMMA FoldIsMade ==
  ASSUME NEW h, NEW ds, NEW made, IsMade(h, ds, DOMAIN ds, made)
  PROVE  \E m : /\ IsMade(h, ds, DOMAIN ds, m)
               /\ Folded(h, ds) = m[DOMAIN ds]
<1> DEFINE m == CHOOSE m : m = [S \in SUBSET DOMAIN ds |-> Made(h, ds, S, m)]
<1>1. Folded(h, ds) = m[DOMAIN ds]
  BY DEF Folded, FoldLeft, MapThenFoldSet, Made, Wrapped
<1>2. m = [S \in SUBSET DOMAIN ds |-> Made(h, ds, S, m)]
  BY DEF IsMade
<1> QED
  BY <1>1, <1>2 DEF IsMade

LEMMA MadeExists ==
  ASSUME NEW h, NEW ds, NEW n \in Nat
  PROVE  \E made : IsMade(h, ds, 1..n, made)
<1> DEFINE Bad == {i \in Nat : ~ \E made : IsMade(h, ds, 1..i, made)}
<1> SUFFICES ASSUME Bad # {} PROVE FALSE
  OBVIOUS
<1>1. PICK j \in Bad : \A i \in Bad : j <= i
  BY LeastElement
<1>2. ~ \E made : IsMade(h, ds, 1..j, made)
  BY <1>1
<1>3. CASE j = 0
  <2> DEFINE made == [S \in SUBSET {} |-> <<h>>]
  <2>1. 1..j = {}
    BY <1>3
  <2>2. IsMade(h, ds, {}, made)
    BY DEF Made, IsMade
  <2> QED
    BY <1>2, <2>1, <2>2
<1>4. CASE j # 0
  <2>1. j \in Nat /\ j - 1 \in Nat /\ j - 1 \notin Bad
    BY <1>1, <1>4
  <2>2. PICK less : IsMade(h, ds, 1..(j - 1), less)
    BY <2>1
  <2> DEFINE made == [S \in SUBSET (1..j) |->
                        IF j \in S THEN Wrapped(less[S \ {j}], ds[j]) ELSE less[S]]
  <2>3. \A S \in SUBSET (1..(j - 1)) : made[S] = less[S] /\ less[S] = Made(h, ds, S, less)
    BY <2>1, <2>2 DEF IsMade
  <2>4. ASSUME NEW S \in SUBSET (1..j)
        PROVE  made[S] = Made(h, ds, S, made)
    <3>1. CASE j \in S
      <4>1. Max(S) = j
        <5>1. Max(S) \in S /\ \A x \in S : x <= Max(S)
          BY <2>1, <3>1, GreatestElement
        <5>2. j \in Nat /\ Max(S) \in 1..j /\ j <= Max(S)
          BY <2>1, <3>1, <5>1
        <5> QED
          BY <5>2
      <4>2. S \ {j} \in SUBSET (1..(j - 1))
        BY <2>1
      <4>3. made[S] = Wrapped(less[S \ {j}], ds[j])
        BY <3>1
      <4> HIDE DEF made
      <4> QED
        BY <2>3, <3>1, <4>1, <4>2, <4>3 DEF Made
    <3>2. CASE j \notin S
      <4>1. \A i \in 1..j : i # j => i \in 1..(j - 1)
        BY <2>1
      <4>2. S \in SUBSET (1..(j - 1))
        BY <3>2, <4>1
      <4>3. S \ {Max(S)} \in SUBSET (1..(j - 1))
        BY <4>2
      <4>4. made[S] = less[S] /\ made[S \ {Max(S)}] = less[S \ {Max(S)}]
        BY <2>3, <4>2, <4>3
      <4> HIDE DEF made
      <4> QED
        BY <2>3, <4>2, <4>4 DEF Made
    <3> QED
      BY <3>1, <3>2
  <2>5. IsMade(h, ds, 1..j, made)
    BY <2>4 DEF IsMade
  <2> QED
    BY <1>2, <2>5
<1> QED
  BY <1>3, <1>4

\* The decorators are called one by one, in the order of ds.
LEMMA Applied ==
  ASSUME NEW h, NEW ds, NEW n \in Nat, DOMAIN ds = 1..n
  PROVE  \E after : /\ after[0] = Alone(h) /\ after[n] = Folded(h, ds)
                    /\ \A k \in 1..n : after[k] = Wrapped(after[k - 1], ds[k])
<1>1. PICK m : /\ IsMade(h, ds, 1..n, m)
               /\ Folded(h, ds) = m[1..n]
  BY MadeExists, FoldIsMade
<1> DEFINE after == [k \in 0..n |-> m[1..k]]
<1>2. \A S \in SUBSET (1..n) : m[S] = Made(h, ds, S, m)
  BY <1>1 DEF IsMade
<1>3. after[0] = Alone(h)
  <2>1. 1..0 = {} /\ {} \in SUBSET (1..n)
    OBVIOUS
  <2>2. m[{}] = Alone(h)
    BY <1>2, <2>1 DEF Made, Alone
  <2> QED
    BY <2>1, <2>2
<1>4. ASSUME NEW k \in 1..n
      PROVE  after[k] = Wrapped(after[k - 1], ds[k])
  <2>1. /\ 1..k \in SUBSET (1..n) /\ 1..k # {} /\ k \in Nat
        /\ (1..k) \ {k} = 1..(k - 1) /\ k - 1 \in 0..n /\ k \in 0..n
    OBVIOUS
  <2>2. Max(1..k) \in 1..k /\ \A i \in 1..k : i <= Max(1..k)
    BY <2>1, GreatestElement
  <2>3. Max(1..k) = k
    BY <2>1, <2>2
  <2>4. m[1..k] = Wrapped(m[1..(k - 1)], ds[k])
    BY <1>2, <2>1, <2>3 DEF Made, Alone
  <2> QED
    BY <2>1, <2>4
<1>5. after[n] = Folded(h, ds)
  BY <1>1
<1> HIDE DEF after
<1> QED
  BY <1>3, <1>4, <1>5

LEMMA WrappedFacts ==
  ASSUME NEW S, NEW inner \in Seq(S), NEW d \in S
  PROVE  /\ Wrapped(inner, d) \in Seq(S)
         /\ Len(Wrapped(inner, d)) = Len(inner) + 1 /\ Len(inner) \in Nat
         /\ Wrapped(inner, d)[1] = d
         /\ \A i \in 1..Len(inner) : Wrapped(inner, d)[i + 1] = inner[i]
BY DEF Wrapped

LEMMA SameList ==
  ASSUME NEW S, NEW s \in Seq(S), NEW t \in Seq(S), Len(s) = Len(t),
         \A i \in 1..Len(s) : s[i] = t[i]
  PROVE  s = t
OBVIOUS

\* whole is the last k of the n members of ds, then h.
IsEnd(whole, S, h, ds, n, k) ==
  /\ whole \in Seq(S) /\ Len(whole) = k + 1 /\ whole[k + 1] = h
  /\ \A i \in 1..k : whole[i] = ds[n - k + i]

(* The first decorator of the list is the outermost, the handler is the     *)
(* innermost: handler leaves the order of its arguments.                    *)
THEOREM HandlerKeepsOrder ==
  ASSUME NEW S, NEW h \in S, NEW ds \in Seq(S)
  PROVE  handler(h, ds) = Append(ds, h)
<1>1. PICK n \in Nat : n = Len(ds)
  OBVIOUS
<1>2. PICK back : back = Reverse(ds)
  OBVIOUS
<1>3. /\ DOMAIN back = 1..n
      /\ \A k \in 1..n : back[k] = ds[n - k + 1] /\ ds[n - k + 1] \in S
  BY <1>1, <1>2 DEF Reverse
<1>4. handler(h, ds) = Folded(h, back)
  BY <1>2 DEF handler, Folded
<1>5. PICK after : /\ after[0] = Alone(h) /\ after[n] = Folded(h, back)
                   /\ \A k \in 1..n : after[k] = Wrapped(after[k - 1], back[k])
  <2>1. DOMAIN back = 1..n
    BY <1>3
  <2> QED
    BY <2>1, Applied
<1> DEFINE Bad == {k \in 0..n : ~IsEnd(after[k], S, h, ds, n, k)}
<1>6. Bad = {}
  <2> SUFFICES ASSUME Bad # {} PROVE FALSE
    OBVIOUS
  <2>1. Bad \in SUBSET Nat
    OBVIOUS
  <2>2. PICK k \in Bad : \A i \in Bad : k <= i
    BY <2>1, LeastElement
  <2>3. CASE k = 0
    <3>1. after[0] = <<h>> /\ <<h>> \in Seq(S) /\ Len(<<h>>) = 1 /\ <<h>>[1] = h
      BY <1>5 DEF Alone
    <3>2. IsEnd(after[0], S, h, ds, n, 0)
      BY <3>1 DEF IsEnd
    <3> QED
      BY <2>2, <2>3, <3>2
  <2>4. CASE k # 0
    <3>1. k \in 1..n /\ k - 1 \in 0..n /\ ~(k <= k - 1)
      BY <2>2, <2>4
    <3>2. IsEnd(after[k - 1], S, h, ds, n, k - 1)
      BY <2>2, <3>1
    <3>3. PICK inner \in Seq(S) : inner = after[k - 1]
      BY <3>2 DEF IsEnd
    <3>4. /\ Len(inner) = k /\ inner[k] = h
          /\ \A i \in 1..(k - 1) : inner[i] = ds[n - k + (i + 1)]
      BY <3>1, <3>2, <3>3 DEF IsEnd
    <3>5. after[k] = Wrapped(inner, ds[n - k + 1]) /\ ds[n - k + 1] \in S
      BY <1>3, <1>5, <3>1, <3>3
    <3>6. /\ after[k] \in Seq(S) /\ Len(after[k]) = k + 1
          /\ after[k][1] = ds[n - k + 1]
          /\ \A i \in 1..k : after[k][i + 1] = inner[i]
      <4>1. PICK d \in S : d = ds[n - k + 1]
        BY <3>5
      <4>2. /\ Wrapped(inner, d) \in Seq(S)
            /\ Len(Wrapped(inner, d)) = Len(inner) + 1
            /\ Wrapped(inner, d)[1] = d
            /\ \A i \in 1..Len(inner) : Wrapped(inner, d)[i + 1] = inner[i]
        BY WrappedFacts
      <4> QED
        BY <3>4, <3>5, <4>1, <4>2
    <3>7. after[k][k + 1] = h
      BY <3>1, <3>4, <3>6
    <3>8. ASSUME NEW i \in 1..k
          PROVE  after[k][i] = ds[n - k + i]
      <4>1. CASE i = 1
        BY <3>6, <4>1
      <4>2. CASE i # 1
        <5>1. i - 1 \in 1..(k - 1) /\ i - 1 \in 1..k /\ (i - 1) + 1 = i
          BY <3>1, <4>2
        <5> QED
          BY <3>4, <3>6, <5>1
      <4> QED
        BY <4>1, <4>2
    <3> QED
      BY <2>2, <3>6, <3>7, <3>8 DEF IsEnd
  <2> QED
    BY <2>3, <2>4
<1>7. IsEnd(Folded(h, back), S, h, ds, n, n)
  BY <1>1, <1>5, <1>6
<1>8. /\ Append(ds, h) \in Seq(S) /\ Len(Append(ds, h)) = n + 1
      /\ Append(ds, h)[n + 1] = h
      /\ \A i \in 1..n : Append(ds, h)[i] = ds[i]
  BY <1>1
<1>9. /\ Folded(h, back) \in Seq(S) /\ Len(Folded(h, back)) = n + 1
      /\ \A i \in 1..(n + 1) : Folded(h, back)[i] = Append(ds, h)[i]
  <2>1. /\ Folded(h, back) \in Seq(S) /\ Len(Folded(h, back)) = n + 1
        /\ Folded(h, back)[n + 1] = h
        /\ \A i \in 1..n : Folded(h, back)[i] = ds[n - n + i] /\ n - n + i = i
    BY <1>7 DEF IsEnd
  <2>2. \A i \in 1..(n + 1) : i \in 1..n \/ i = n + 1
    OBVIOUS
  <2> QED
    BY <1>8, <2>1, <2>2
<1> QED
  BY <1>4, <1>8, <1>9, SameList

-----------------------------------------------------------------------------
(* The response.                                                            *)

\* What of /health and of /post is left to call, after each step.
Whole == <<"WithServerHeader", "WithAuthCookie", "echo">>
Rest == {<<"WithAuthCookie", "echo">>, <<"echo">>, <<>>}

\* The header WithServerHeader sends.
Sent == [n \in Names |->
           IF n = "Version" THEN <<"ours">>
           ELSE IF n = "Server" THEN <<"ours">> \o Theirs(n)
           ELSE Theirs(n)]

\* What is on the wire follows from what is left to call.
ByChain ==
  IF route = "/health"
  THEN \/ chain = Whole /\ status = 0 /\ body = "none"
       \/ /\ chain \in Rest /\ status = 200 /\ wire = Sent
          /\ chain = <<"WithAuthCookie", "echo">> => header = Sent
          /\ chain # <<"WithAuthCookie", "echo">> =>
               "ours" \in ToSet(header["Set-Cookie"])
  ELSE chain \in {<<"postHandler">>, <<>>}

Values ==
  /\ route \in {"/health", "/post"}
  /\ request \in [Names -> 0..MaxValues]
  /\ header \in [Names -> Seq({"ours", "theirs"})]
  /\ wire \in [Names -> Seq({"ours", "theirs"})]
  /\ status \in {0, 200}
  /\ status = 0 => header = NoHeader /\ wire = NoHeader /\ body = "none"
  /\ body \in {"none", "hello", "empty", "Success"}
  /\ broken \in BOOLEAN /\ (body = "Success" => ~broken)

\* ResponseHeaders speaks of the cookie in the last state only: that the header
\* was sent before WithAuthCookie ran has to be known of every state on the way.
Inv == Values /\ ByChain

LEMMA AppendFacts ==
  ASSUME NEW S, NEW s \in Seq(S), NEW x \in S
  PROVE  /\ Append(s, x) \in Seq(S) /\ Len(Append(s, x)) = Len(s) + 1
         /\ \A i \in 1..Len(s) : Append(s, x)[i] = s[i]
         /\ Append(s, x)[Len(s) + 1] = x
OBVIOUS

LEMMA WholeIs == Append(Decorators, "echo") = Whole
<1> DEFINE S == {"WithServerHeader", "WithAuthCookie", "echo"}
<1>0. /\ Decorators \in Seq(S) /\ Len(Decorators) = 2
      /\ Decorators[1] = "WithServerHeader" /\ Decorators[2] = "WithAuthCookie"
  BY DEF Decorators
<1>1. PICK ds \in Seq(S) : /\ ds = Decorators /\ Len(ds) = 2
                           /\ ds[1] = "WithServerHeader" /\ ds[2] = "WithAuthCookie"
  BY <1>0
<1>2. /\ Append(ds, "echo") \in Seq(S) /\ Len(Append(ds, "echo")) = 3
      /\ Append(ds, "echo")[1] = "WithServerHeader"
      /\ Append(ds, "echo")[2] = "WithAuthCookie"
      /\ Append(ds, "echo")[3] = "echo"
  <2>1. "echo" \in S
    OBVIOUS
  <2> HIDE DEF S
  <2> QED
    BY <1>1, <2>1, AppendFacts
<1>3. PICK all \in Seq(S) : all = Append(ds, "echo")
  BY <1>2
<1>4. all = <<all[1], all[2], all[3]>>
  BY <1>2, <1>3, SeqOfThree
<1> QED
  BY <1>1, <1>2, <1>3, <1>4 DEF Whole

LEMMA HealthChain == handler("echo", Decorators) = Whole
<1> DEFINE S == {"WithServerHeader", "WithAuthCookie", "echo"}
<1>1. Decorators \in Seq(S) /\ "echo" \in S
  BY DEF Decorators
<1> QED
  BY <1>1, HandlerKeepsOrder, WholeIs

\* Who is called, and what is left then.
LEMMA CallFacts ==
  /\ Head(Whole) = "WithServerHeader"
  /\ Tail(Whole) = <<"WithAuthCookie", "echo">>
  /\ Head(<<"WithAuthCookie", "echo">>) = "WithAuthCookie"
  /\ Tail(<<"WithAuthCookie", "echo">>) = <<"echo">>
  /\ Head(<<"echo">>) = "echo" /\ Tail(<<"echo">>) = <<>>
  /\ Head(<<"postHandler">>) = "postHandler" /\ Tail(<<"postHandler">>) = <<>>
  /\ <<"WithAuthCookie", "echo">> # <<"echo">>
  /\ <<"WithAuthCookie", "echo">> # <<>> /\ <<"echo">> # <<>> /\ Whole # <<>>
BY DEF Whole

LEMMA TheirsType ==
  ASSUME Values, NEW n \in Names
  PROVE  Theirs(n) \in Seq({"ours", "theirs"}) /\ Theirs(n) \in Seq({"theirs"})
<1>1. request[n] \in Nat
  BY ConstantsOK DEF Values
<1> QED
  BY <1>1 DEF Theirs

LEMMA InitInv == Init => Inv
<1> SUFFICES ASSUME Init PROVE Inv
  OBVIOUS
<1>1. NoHeader \in [Names -> Seq({"ours", "theirs"})]
  BY DEF NoHeader
<1>2. Values
  BY <1>1 DEF Init, Values
<1>3. ByChain
  BY HealthChain DEF Init, ByChain
<1> QED
  BY <1>2, <1>3 DEF Inv

LEMMA ServerHeaderInv ==
  ASSUME Inv, WithServerHeader
  PROVE  Inv'
<1>1. /\ chain = Whole /\ route = "/health" /\ status = 0 /\ body = "none"
      /\ chain' = <<"WithAuthCookie", "echo">>
  BY CallFacts DEF Inv, ByChain, WithServerHeader, Calls, Rest
<1>2. UNCHANGED <<route, request, body, broken>>
  BY DEF WithServerHeader
<1>3. header = NoHeader
  BY <1>1 DEF Inv, Values
<1>4. header' = Sent
  <2>1. \A n \in Names : <<>> \o Theirs(n) = Theirs(n)
    BY TheirsType DEF Inv
  <2>2. "Version" \in Names /\ "Server" \in Names
    BY DEF Names
  <2> DEFINE added == [n \in Names |->
               (IF n = "Server" THEN <<"ours">> ELSE header[n]) \o Theirs(n)]
  <2>3. header' = [added EXCEPT !["Version"] = <<"ours">>]
    BY DEF WithServerHeader
  <2>4. \A n \in Names : added[n] = IF n = "Server" THEN <<"ours">> \o Theirs(n)
                                                   ELSE Theirs(n)
    BY <1>3, <2>1 DEF NoHeader
  <2> HIDE DEF added
  <2>5. added = [n \in Names |-> added[n]]
    BY DEF added
  <2> QED
    BY <2>2, <2>3, <2>4, <2>5 DEF Sent
<1>5. Sent' = Sent
  BY <1>2 DEF Sent, Theirs
<1>6. status' = 200 /\ wire' = Sent
  BY <1>1, <1>4 DEF WithServerHeader, SendHeader
<1>7. Sent \in [Names -> Seq({"ours", "theirs"})]
  <2>1. \A n \in Names : <<"ours">> \o Theirs(n) \in Seq({"ours", "theirs"})
    BY TheirsType DEF Inv
  <2>2. <<"ours">> \in Seq({"ours", "theirs"})
    OBVIOUS
  <2>3. \A n \in Names : Theirs(n) \in Seq({"ours", "theirs"})
    BY TheirsType DEF Inv
  <2> QED
    BY <2>1, <2>2, <2>3 DEF Sent
<1>8. Values'
  BY <1>2, <1>4, <1>6, <1>7 DEF Inv, Values
<1>9. ByChain'
  BY <1>1, <1>2, <1>4, <1>5, <1>6 DEF ByChain, Rest
<1> QED
  BY <1>8, <1>9 DEF Inv

LEMMA AuthCookieInv ==
  ASSUME Inv, WithAuthCookie
  PROVE  Inv'
<1>1. /\ route = "/health" /\ status = 200 /\ wire = Sent
      /\ chain' = <<"echo">>
  BY CallFacts DEF Inv, ByChain, WithAuthCookie, Calls, Rest
<1>2. UNCHANGED <<route, request, wire, status, body, broken>>
  BY DEF WithAuthCookie
<1>3. "Set-Cookie" \in Names
  BY DEF Names
<1>4. PICK before \in Seq({"ours", "theirs"}) : before = header["Set-Cookie"]
  BY <1>3 DEF Inv, Values
<1>5. header' = [header EXCEPT !["Set-Cookie"] = Append(before, "ours")]
  BY <1>4 DEF WithAuthCookie
<1>6. /\ Append(before, "ours") \in Seq({"ours", "theirs"})
      /\ Len(before) + 1 \in DOMAIN Append(before, "ours")
      /\ Append(before, "ours")[Len(before) + 1] = "ours"
  BY <1>4
<1>7. "ours" \in ToSet(header'["Set-Cookie"])
  <2>1. header'["Set-Cookie"] = Append(before, "ours")
    BY <1>3, <1>5 DEF Inv, Values
  <2> QED
    BY <1>6, <2>1 DEF ToSet
<1>8. header' \in [Names -> Seq({"ours", "theirs"})]
  BY <1>5, <1>6 DEF Inv, Values
<1>9. Values'
  BY <1>1, <1>2, <1>8 DEF Inv, Values
<1>10. Sent' = Sent
  BY <1>2 DEF Sent, Theirs
<1>11. ByChain'
  BY <1>1, <1>2, <1>7, <1>10 DEF ByChain, Rest
<1> QED
  BY <1>9, <1>11 DEF Inv

LEMMA EchoInv ==
  ASSUME Inv, echo
  PROVE  Inv'
<1>1. /\ route = "/health" /\ status = 200 /\ wire = Sent
      /\ "ours" \in ToSet(header["Set-Cookie"])
      /\ chain' = <<>>
  BY CallFacts DEF Inv, ByChain, echo, Calls, Rest
<1>2. UNCHANGED <<route, request, header, broken>> /\ body' = "hello"
  BY DEF echo
<1>3. status' = 200 /\ wire' = wire
  BY <1>1 DEF echo, SendHeader
<1>4. Values'
  BY <1>2, <1>3 DEF Inv, Values
<1>5. Sent' = Sent
  BY <1>2 DEF Sent, Theirs
<1>6. ByChain'
  BY <1>1, <1>2, <1>3, <1>5 DEF ByChain, Rest
<1> QED
  BY <1>4, <1>6 DEF Inv

LEMMA PostInv ==
  ASSUME Inv, postHandler
  PROVE  Inv'
<1>1. route # "/health" /\ chain' = <<>>
  BY CallFacts DEF Inv, ByChain, postHandler, Calls, Rest
<1>2. UNCHANGED <<route, request, header>>
  BY DEF postHandler
<1>3. status' = 200 /\ wire' \in {header, wire}
  BY <1>2 DEF postHandler, SendHeader, Inv, Values
<1>4. broken' \in BOOLEAN /\ body' = IF broken' THEN "empty" ELSE "Success"
  BY DEF postHandler
<1>5. Values'
  BY <1>2, <1>3, <1>4 DEF Inv, Values
<1>6. ByChain'
  BY <1>1, <1>2 DEF ByChain
<1> QED
  BY <1>5, <1>6 DEF Inv

LEMMA InvAlways == Spec => []Inv
<1>1. ASSUME Inv, UNCHANGED vars PROVE Inv'
  <2>1. Sent' = Sent
    BY <1>1 DEF vars, Sent, Theirs
  <2>2. Values'
    BY <1>1 DEF Inv, Values, vars
  <2>3. ByChain'
    BY <1>1, <2>1 DEF Inv, ByChain, vars
  <2> QED
    BY <2>2, <2>3 DEF Inv
<1>2. Inv /\ [Next]_vars => Inv'
  BY <1>1, ServerHeaderInv, AuthCookieInv, EchoInv, PostInv DEF Next, Answered
<1> QED
  BY <1>2, InitInv, PTL DEF Spec

(* Whatever the request says, what is left to call is the end of main's     *)
(* list, and /post says Success only of a body it has read.                *)
THEOREM Types == Spec => []TypeOK
<1>1. Inv => TypeOK
  <2> SUFFICES ASSUME Inv PROVE TypeOK
    OBVIOUS
  <2>1. CASE route = "/health"
    <3>1. /\ Whole \in Seq({"WithServerHeader", "WithAuthCookie", "echo"})
          /\ Len(Whole) = 3
          /\ Whole[2] = "WithAuthCookie" /\ Whole[3] = "echo"
      BY DEF Whole
    <3>2. {Whole, <<Whole[2], Whole[3]>>, <<Whole[3]>>, <<>>} \subseteq Suffixes(Whole)
      BY <3>1, EndsOfThree
    <3>3. chain \in Suffixes(Whole)
      BY <2>1, <3>1, <3>2 DEF Inv, ByChain, Rest
    <3>4. chain \in Suffixes(Append(Decorators, "echo"))
      BY <3>3, WholeIs
    <3> QED
      BY <2>1, <3>4 DEF Inv, Values, TypeOK
  <2>2. CASE route # "/health"
    <3>1. <<"postHandler">> \in Seq({"postHandler"}) /\ Len(<<"postHandler">>) = 1
      OBVIOUS
    <3>2. chain \in Suffixes(<<"postHandler">>)
      BY <2>2, <3>1, EndsOfOne DEF Inv, ByChain
    <3> QED
      BY <2>2, <3>2 DEF Inv, Values, TypeOK
  <2> QED
    BY <2>1, <2>2
<1> QED
  BY <1>1, InvAlways, PTL

(* Whatever header names and values a request has, Version is the server's, *)
(* Server begins with the server's, the others come back whole, and the     *)
(* cookie that WithAuthCookie adds is not among them.                      *)
THEOREM HeadersOfHealth == Spec => []ResponseHeaders
<1>1. Inv => ResponseHeaders
  <2> SUFFICES ASSUME Inv, route = "/health"
               PROVE  /\ chain = <<>> => "ours" \in ToSet(header["Set-Cookie"])
                      /\ status # 0 =>
                           \A n \in Names :
                             wire[n] = CASE n = "Version" -> <<"ours">>
                                         [] n = "Server"  -> <<"ours">> \o Theirs(n)
                                         [] OTHER         -> Theirs(n)
    BY DEF ResponseHeaders
  <2>1. chain = <<>> => "ours" \in ToSet(header["Set-Cookie"])
    BY DEF Inv, ByChain, Whole, Rest
  <2>2. status # 0 => wire = Sent
    BY DEF Inv, ByChain
  <2> QED
    BY <2>1, <2>2 DEF Sent
<1> QED
  BY <1>1, InvAlways, PTL
=============================================================================

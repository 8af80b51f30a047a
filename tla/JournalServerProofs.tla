------------------------- MODULE JournalServerProofs -------------------------
(***************************************************************************)
(* Proofs about JournalServer, for any number of requests of any kinds, any *)
(* number of deaths of the process and a Redis that may fail.               *)
(***************************************************************************)
EXTENDS JournalServer, SequenceTheorems, WellFoundedInduction, TLAPS

USE DEF vars, redisVars, processVars, historyVars

-----------------------------------------------------------------------------
(* The inductive invariant.                                                 *)

\* The connection owes every reply to a request that still waits for it, and
\* one reply only; a process that died left no reply behind.
RepliesOK ==
  /\ ~up => replies = <<>>
  /\ \A i \in 1..Len(replies) : pc[replies[i].req] = "get"
  /\ \A i, j \in 1..Len(replies) : replies[i].req = replies[j].req => i = j

GetsWait ==
  up => \A i \in 1..Len(commands) :
          commands[i].op = "get" => pc[commands[i].req] = "get"

GetsOnce ==
  up => \A i, j \in 1..Len(commands) :
          commands[i].op = "get" /\ commands[j].op = "get"
            /\ commands[i].req = commands[j].req => i = j

GetsApart ==
  up => \A i \in 1..Len(commands) : \A j \in 1..Len(replies) :
          commands[i].op = "get" => commands[i].req # replies[j].req

GetsOK == GetsWait /\ GetsOnce /\ GetsApart

ConnectionOK == RepliesOK /\ GetsOK

Acked == {p \in Requests : IsPost(p) /\ status[p] = 200}

\* What a request found acknowledged is acknowledged.
BeforeOK == \A q \in Requests : before[q] \subseteq Acked

\* The list of a journal holds acknowledged messages, each once and none
\* before one its request found acknowledged.
JournalOf(l, acked, found) ==
  /\ \A i \in 1..Len(l) : l[i] \in acked
  /\ \A i, j \in 1..Len(l) : i < j => l[i] # l[j] /\ l[j] \notin found[l[i]]

\* Every copy of the journal is one, wherever it is on its way.
JournalsOK ==
  /\ JournalOf(stored, Acked, before)
  /\ \A q \in Requests : JournalOf(journals[q], Acked, before)
  /\ \A i \in 1..Len(commands) : JournalOf(commands[i].list, Acked, before)
  /\ \A i \in 1..Len(replies) : JournalOf(replies[i].list, Acked, before)

\* AckedIsSeen promises nothing of r.
Excused(r) ==
  \/ r \in lost
  \/ \E p \in Requests : kind[p] = "POST" /\ Concurrent(p, r)

\* The journal with r is stored, or the command that stores it is the n-th;
\* what is written later has r too, and nobody who should see r reads earlier.
KeptFrom(r, n) ==
  /\ IF n = 0 THEN r \in ToSet(stored)
              ELSE commands[n].op = "set" /\ commands[n].req = r
  /\ \A i \in 1..Len(commands) :
       i >= n /\ commands[i].op = "set" => r \in ToSet(commands[i].list)
  /\ up => \A i \in 1..Len(commands) :
       i <= n /\ commands[i].op = "get" => r \notin before[commands[i].req]

Kept(r) == \E n \in 0..Len(commands) : KeptFrom(r, n)

\* Who arrived after the acknowledgement of r has r in what was read, stored
\* and returned.
SeenBy(r, q) ==
  /\ \A i \in 1..Len(replies) :
       replies[i].req = q /\ replies[i].op = "get" => r \in ToSet(replies[i].list)
  /\ pc[q] = "body" => r \in ToSet(journals[q])
  /\ status[q] = 200 => r \in ToSet(returned[q])

Seen(r) ==
  Kept(r) /\ \A q \in Requests : r \in before[q] => SeenBy(r, q)

SeenOK ==
  \A r \in Acked : Excused(r) \/ Seen(r)

JournalInv == TypeOK /\ ConnectionOK /\ BeforeOK /\ JournalsOK /\ SeenOK

-----------------------------------------------------------------------------
(* Lists: what the connection and the journal do with them.                 *)

(* Append adds one element at the end.                                      *)
LEMMA AppendFacts ==
  ASSUME NEW S, NEW s \in Seq(S), NEW e \in S
  PROVE  /\ Append(s, e) \in Seq(S)
         /\ Len(Append(s, e)) = Len(s) + 1
         /\ Len(s) \in Nat
         /\ \A i \in 1..Len(s) : Append(s, e)[i] = s[i]
         /\ Append(s, e)[Len(s) + 1] = e
OBVIOUS

(* Tail and Head take the first element off.                                *)
LEMMA TailFacts ==
  ASSUME NEW S, NEW s \in Seq(S), s # <<>>
  PROVE  /\ Tail(s) \in Seq(S)
         /\ Len(Tail(s)) = Len(s) - 1
         /\ Len(s) \in Nat \ {0}
         /\ \A i \in 1..Len(s) - 1 : Tail(s)[i] = s[i + 1]
         /\ Head(s) = s[1]
         /\ s[1] \in S
OBVIOUS

(* The elements of a list, as indices reach them.                           *)
LEMMA ToSetFacts ==
  ASSUME NEW S, NEW s \in Seq(S), NEW e \in S
  PROVE  /\ ToSet(s) = {s[i] : i \in 1..Len(s)}
         /\ ToSet(Append(s, e)) = ToSet(s) \cup {e}
<1>1. ToSet(s) = {s[i] : i \in 1..Len(s)}
  BY DEF ToSet
<1>2. ToSet(Append(s, e)) = {Append(s, e)[i] : i \in 1..Len(s) + 1}
  BY AppendFacts DEF ToSet
<1>3. \A i \in 1..Len(s) + 1 : i = Len(s) + 1 \/ i \in 1..Len(s)
  BY AppendFacts
<1>4. Len(s) + 1 \in 1..Len(s) + 1 /\ 1..Len(s) \subseteq 1..Len(s) + 1
  BY AppendFacts
<1> QED
  BY <1>1, <1>2, <1>3, <1>4, AppendFacts

(* A prefix, and what is cut off.                                           *)
LEMMA CutFacts ==
  ASSUME NEW S, NEW s \in Seq(S), NEW n \in 0..Len(s)
  PROVE  /\ SubSeq(s, 1, n) \in Seq(S)
         /\ Len(SubSeq(s, 1, n)) = n
         /\ \A i \in 1..n : SubSeq(s, 1, n)[i] = s[i]
         /\ ToSet(SubSeq(s, n + 1, Len(s))) = {s[i] : i \in n + 1..Len(s)}
<1>1. /\ SubSeq(s, 1, n) \in Seq(S) /\ Len(SubSeq(s, 1, n)) = n
      /\ \A i \in 1..n : SubSeq(s, 1, n)[i] = s[i]
  OBVIOUS
<1> DEFINE c == SubSeq(s, n + 1, Len(s))
<1>2. /\ c \in Seq(S) /\ Len(c) = Len(s) - n
      /\ \A i \in 1..Len(c) : c[i] = s[n + i]
  OBVIOUS
<1>3. ToSet(c) = {c[i] : i \in 1..Len(c)}
  <2> HIDE DEF c
  <2> QED
    BY <1>2 DEF ToSet
<1>4. {c[i] : i \in 1..Len(c)} = {s[i] : i \in n + 1..Len(s)}
  <2> HIDE DEF c
  <2>1. \A i \in n + 1..Len(s) : i - n \in 1..Len(c) /\ c[i - n] = s[i]
    BY <1>2
  <2>2. \A i \in 1..Len(c) : n + i \in n + 1..Len(s) /\ c[i] = s[n + i]
    BY <1>2
  <2>3. {c[i] : i \in 1..Len(c)} \subseteq {s[i] : i \in n + 1..Len(s)}
    BY <2>2
  <2>4. {s[i] : i \in n + 1..Len(s)} \subseteq {c[i] : i \in 1..Len(c)}
    BY <2>1
  <2> QED
    BY <2>3, <2>4
<1> QED
  BY <1>1, <1>3, <1>4

(* What travels on the connection.                                          *)
LEMMA Travelling ==
  ASSUME TypeOK
  PROVE  /\ Len(commands) \in Nat /\ Len(replies) \in Nat
         /\ \A i \in 1..Len(commands) :
              /\ commands[i].req \in Requests /\ commands[i].op \in {"get", "set"}
              /\ commands[i].list \in Seq(Requests)
         /\ \A i \in 1..Len(replies) :
              /\ replies[i].req \in Requests /\ replies[i].op \in {"get", "error"}
              /\ replies[i].list \in Seq(Requests)
<1>1. commands \in Seq(Command) /\ replies \in Seq(Reply)
  BY DEF TypeOK
<1>2. /\ \A i \in 1..Len(commands) : commands[i] \in Command
      /\ \A i \in 1..Len(replies) : replies[i] \in Reply
  BY <1>1
<1> QED
  BY <1>1, <1>2 DEF Command, Reply

\* The commands left are n of those there were, from the one after the k-th.
Left(k, n) ==
  /\ k \in Nat /\ n \in Nat /\ k + n <= Len(commands)
  /\ commands' \in Seq(Command) /\ Len(commands') = n
  /\ \A i \in 1..n : commands'[i] = commands[i + k]

Dies ==
  \/ \E r \in Requests : badBodyEnd(r)
  \/ RedisFailsSet \/ ProcessKilled

(* The death of the process leaves a part of the commands, and counts every *)
(* set command that is not in it as lost.                                   *)
LEMMA Death ==
  ASSUME TypeOK, Dies
  PROVE  /\ up' = FALSE /\ replies' = <<>> /\ deaths' \in 0..MaxDeaths
         /\ UNCHANGED <<kind, journals, status, returned, stored, before>>
         /\ pc' = [r \in Requests |->
                     IF pc[r] \in {"get", "body"} THEN "cut" ELSE pc[r]]
         /\ \E k, n \in Nat :
              /\ Left(k, n)
              /\ lost' = lost \cup
                   {commands[i].req : i \in {j \in 1..Len(commands) :
                       commands[j].op = "set" /\ (j <= k \/ j > k + n)}}
<1> DEFINE Gone(k, n) == {commands[i].req : i \in {j \in 1..Len(commands) :
                       commands[j].op = "set" /\ (j <= k \/ j > k + n)}}
<1>1. commands \in Seq(Command) /\ deaths \in 0..MaxDeaths /\ MaxDeaths \in Nat
  BY DeathsOK DEF TypeOK
<1>2. ASSUME NEW unsent \in Seq(Command), NEW gone, NEW k \in {0, 1},
             Len(unsent) = Len(commands) - k,
             \A i \in 1..Len(unsent) : unsent[i] = commands[i + k],
             gone = {commands[i].req : i \in {j \in 1..Len(commands) :
                       commands[j].op = "set" /\ j <= k}},
             ProcessDies(unsent, gone)
      PROVE  \E m, n \in Nat : Left(m, n) /\ lost' = lost \cup Gone(m, n)
  <2>1. PICK n \in 0..Len(unsent) :
          /\ commands' = SubSeq(unsent, 1, n)
          /\ lost' = lost \cup gone \cup
               {c.req : c \in {d \in ToSet(SubSeq(unsent, n + 1, Len(unsent))) :
                                 d.op = "set"}}
    BY <1>2 DEF ProcessDies
  <2>2. Len(commands) \in Nat /\ Len(unsent) \in Nat
    BY <1>1, <1>2
  <2>3. Left(k, n)
    BY <1>2, <2>1, <2>2, CutFacts DEF Left
  <2>4. ToSet(SubSeq(unsent, n + 1, Len(unsent))) =
          {commands[i] : i \in n + k + 1..Len(commands)}
    <3>1. ToSet(SubSeq(unsent, n + 1, Len(unsent))) =
            {unsent[i] : i \in n + 1..Len(unsent)}
      BY CutFacts
    <3>2. \A i \in n + k + 1..Len(commands) :
            i - k \in n + 1..Len(unsent) /\ unsent[i - k] = commands[i]
      BY <1>2, <2>2
    <3>3. \A i \in n + 1..Len(unsent) :
            i + k \in n + k + 1..Len(commands) /\ unsent[i] = commands[i + k]
      BY <1>2, <2>2
    <3>4. {unsent[i] : i \in n + 1..Len(unsent)} =
            {commands[i] : i \in n + k + 1..Len(commands)}
      <4>1. {unsent[i] : i \in n + 1..Len(unsent)} \subseteq
              {commands[i] : i \in n + k + 1..Len(commands)}
        BY <3>3
      <4>2. {commands[i] : i \in n + k + 1..Len(commands)} \subseteq
              {unsent[i] : i \in n + 1..Len(unsent)}
        BY <3>2
      <4> QED
        BY <4>1, <4>2
    <3> QED
      BY <3>1, <3>4
  <2>5. gone \cup {c.req : c \in {d \in {commands[i] : i \in n + k + 1..Len(commands)} :
                                 d.op = "set"}} = Gone(k, n)
    BY <1>2, <2>2
  <2>6. lost' = lost \cup Gone(k, n)
    BY <2>1, <2>4, <2>5
  <2> QED
    BY <2>2, <2>3, <2>6
<1>3. ASSUME ProcessDies(commands, {})
      PROVE  \E m, n \in Nat : Left(m, n) /\ lost' = lost \cup Gone(m, n)
  <2>1. Len(commands) \in Nat
    BY <1>1
  <2>2. {} = {commands[i].req : i \in {j \in 1..Len(commands) :
                       commands[j].op = "set" /\ j <= 0}}
    BY <2>1
  <2> HIDE DEF Gone
  <2>3. /\ commands \in Seq(Command) /\ 0 \in {0, 1}
        /\ Len(commands) = Len(commands) - 0
        /\ \A i \in 1..Len(commands) : commands[i] = commands[i + 0]
    BY <1>1, <2>1
  <2> QED
    BY <1>2, <1>3, <2>2, <2>3
<1>4. ASSUME RedisFailsSet
      PROVE  \E m, n \in Nat : Left(m, n) /\ lost' = lost \cup Gone(m, n)
  <2>1. /\ commands # <<>> /\ Head(commands).op = "set"
        /\ ProcessDies(Tail(commands), {Head(commands).req})
    BY <1>4 DEF RedisFailsSet
  <2>2. /\ Tail(commands) \in Seq(Command)
        /\ Len(Tail(commands)) = Len(commands) - 1
        /\ Len(commands) \in Nat \ {0}
        /\ \A i \in 1..Len(Tail(commands)) : Tail(commands)[i] = commands[i + 1]
        /\ Head(commands) = commands[1]
    BY <1>1, <2>1, TailFacts
  <2>3. {Head(commands).req} = {commands[i].req : i \in {j \in 1..Len(commands) :
                       commands[j].op = "set" /\ j <= 1}}
    <3>1. {j \in 1..Len(commands) : commands[j].op = "set" /\ j <= 1} = {1}
      BY <2>1, <2>2
    <3> QED
      BY <2>2, <3>1
  <2> HIDE DEF Gone
  <2>4. Len(Tail(commands)) = Len(commands) - 1 /\ 1 \in {0, 1}
    BY <2>2
  <2> QED
    BY <1>2, <2>1, <2>2, <2>3, <2>4
<1>5. deaths' \in 0..MaxDeaths
  BY <1>1 DEF Dies, badBodyEnd, RedisFailsSet, ProcessKilled
<1>6. \/ RedisFailsSet
      \/ ProcessDies(commands, {})
  BY DEF Dies, badBodyEnd, ProcessKilled
<1>7. \E unsent, gone : ProcessDies(unsent, gone)
  BY <1>6 DEF RedisFailsSet
<1> QED
  BY <1>3, <1>4, <1>5, <1>6, <1>7 DEF ProcessDies

(* Redis takes the oldest command off.                                      *)
LEMMA Executed ==
  ASSUME TypeOK, RedisExecutes \/ RedisFailsGet
  PROVE  /\ commands[1] \in Command /\ Len(commands) \in Nat \ {0}
         /\ Left(1, Len(commands) - 1)
         /\ UNCHANGED <<kind, pc, journals, status, returned, up, deaths, before,
                        lost>>
         /\ \/ /\ commands[1].op = "set" /\ stored' = commands[1].list
               /\ UNCHANGED replies
            \/ /\ commands[1].op = "get" /\ UNCHANGED stored
               /\ \/ /\ up
                     /\ \E a \in Reply :
                          /\ replies' = Append(replies, a)
                          /\ a.req = commands[1].req
                          /\ \/ a.op = "error" /\ a.list = commands[1].list
                             \/ a.op = "get" /\ a.list = stored
                  \/ ~up /\ replies' = <<>>
<1>1. /\ commands \in Seq(Command) /\ commands # <<>>
      /\ commands' = Tail(commands)
  BY DEF RedisExecutes, RedisFailsGet, TypeOK
<1>2. /\ commands[1] \in Command /\ Len(commands) \in Nat \ {0}
      /\ Head(commands) = commands[1]
      /\ Left(1, Len(commands) - 1)
  BY <1>1, TailFacts DEF Left
<1> DEFINE c == commands[1]
<1>3. CASE RedisExecutes
  <2>1. CASE c.op = "set"
    BY <1>2, <1>3, <2>1 DEF RedisExecutes
  <2>2. CASE c.op = "get"
    <3>1. [c EXCEPT !.list = stored] \in Reply
      BY <1>2, <2>2 DEF TypeOK, Command, Reply
    <3>2. up \in BOOLEAN
      BY DEF TypeOK
    <3> QED
      BY <1>2, <1>3, <2>2, <3>1, <3>2 DEF RedisExecutes, Command
  <2> QED
    BY <1>2, <2>1, <2>2 DEF Command
<1>4. CASE RedisFailsGet
  <2>1. [c EXCEPT !.op = "error"] \in Reply
    BY <1>2 DEF Command, Reply
  <2> QED
    BY <1>2, <1>4, <2>1 DEF RedisFailsGet, Command
<1> QED
  BY <1>3, <1>4

(* The oldest reply is delivered.                                           *)
LEMMA Delivered ==
  ASSUME TypeOK, NEW r \in Requests, getCallback(r)
  PROVE  /\ replies[1] \in Reply /\ replies[1].req = r /\ Len(replies) \in Nat \ {0}
         /\ replies' \in Seq(Reply) /\ Len(replies') = Len(replies) - 1
         /\ \A i \in 1..Len(replies) - 1 : replies'[i] = replies[i + 1]
         /\ up /\ journals' = [journals EXCEPT ![r] = replies[1].list]
         /\ UNCHANGED <<kind, commands, stored, up, deaths, before, lost>>
         /\ \/ replies[1].op = "error" /\ Respond(r, 500, <<>>)
            \/ /\ replies[1].op = "get" /\ kind[r] = "GET"
               /\ Respond(r, 200, replies[1].list)
            \/ /\ replies[1].op = "get" /\ IsPost(r)
               /\ pc' = [pc EXCEPT ![r] = "body"]
               /\ UNCHANGED <<status, returned>>
<1>1. /\ replies \in Seq(Reply) /\ replies # <<>> /\ replies' = Tail(replies)
  BY DEF getCallback, TypeOK
<1>2. Head(replies) = replies[1]
  BY <1>1, TailFacts
<1>3. /\ replies[1] \in Reply /\ Len(replies) \in Nat \ {0}
      /\ replies' \in Seq(Reply) /\ Len(replies') = Len(replies) - 1
      /\ \A i \in 1..Len(replies) - 1 : replies'[i] = replies[i + 1]
  BY <1>1, TailFacts
<1> QED
  BY <1>2, <1>3 DEF getCallback

\* What requestHandler and the end of a body do to the connection.
Sent(op, r, list) ==
  /\ commands' \in Seq(Command) /\ Len(commands') = Len(commands) + 1
  /\ \A i \in 1..Len(commands) : commands'[i] = commands[i]
  /\ commands'[Len(commands) + 1] = [op |-> op, req |-> r, list |-> list]
  /\ Len(commands) \in Nat
  /\ UNCHANGED <<replies, stored>>

LEMMA SendFacts ==
  ASSUME TypeOK, NEW op \in {"get", "set"}, NEW r \in Requests,
         NEW list \in Seq(Requests), Send(op, r, list)
  PROVE  Sent(op, r, list)
<1>1. /\ commands \in Seq(Command)
      /\ [op |-> op, req |-> r, list |-> list] \in Command
  BY DEF TypeOK, Command
<1> QED
  BY <1>1, AppendFacts DEF Send, Sent

LEMMA Pushed ==
  ASSUME TypeOK, NEW r \in Requests, bodyEnd(r)
  PROVE  /\ Append(journals[r], r) \in Seq(Requests)
         /\ up /\ pc[r] = "body" /\ kind[r] = "POST"
         /\ Sent("set", r, Append(journals[r], r))
         /\ Respond(r, 200, Append(journals[r], r))
         /\ UNCHANGED <<kind, journals, up, deaths, before, lost>>
<1>1. Append(journals[r], r) \in Seq(Requests)
  BY AppendFacts DEF TypeOK
<1> QED
  BY <1>1, SendFacts DEF bodyEnd

LEMMA Arrived ==
  ASSUME TypeOK, NEW r \in Requests, requestHandler(r)
  PROVE  /\ up /\ pc[r] = "new"
         /\ UNCHANGED <<kind, journals, replies, stored, up, deaths, lost>>
         /\ before' = [before EXCEPT ![r] = Acked]
         /\ \/ /\ \E code \in {400, 404} : Respond(r, code, <<>>)
               /\ UNCHANGED redisVars
            \/ /\ pc' = [pc EXCEPT ![r] = "get"] /\ Sent("get", r, <<>>)
               /\ UNCHANGED <<status, returned>>
<1>1. <<>> \in Seq(Requests)
  OBVIOUS
<1>2. ASSUME Send("get", r, <<>>) PROVE Sent("get", r, <<>>)
  BY <1>1, <1>2, SendFacts
<1>3. UNCHANGED <<replies, stored>>
  BY DEF requestHandler, Send
<1> QED
  BY <1>2, <1>3 DEF requestHandler, Acked

-----------------------------------------------------------------------------
(* Types.                                                                   *)

RequestTypes ==
  /\ kind \in [Requests -> Kinds]
  /\ pc \in [Requests -> {"new", "get", "body", "done", "cut"}]
  /\ journals \in [Requests -> Seq(Requests)]
  /\ returned \in [Requests -> Seq(Requests)]
  /\ status \in [Requests -> {0, 200, 400, 404, 500}]
  /\ \A r \in Requests : (status[r] # 0) <=> (pc[r] = "done")

ServerTypes ==
  /\ commands \in Seq(Command) /\ replies \in Seq(Reply)
  /\ stored \in Seq(Requests)
  /\ up \in BOOLEAN /\ deaths \in 0..MaxDeaths
  /\ before \in [Requests -> SUBSET Requests] /\ lost \subseteq Requests

LEMMA TypeParts == TypeOK <=> RequestTypes /\ ServerTypes
BY DEF TypeOK, RequestTypes, ServerTypes

(* A response is the end of a request; reading its body is not.             *)
LEMMA RespondTypes ==
  ASSUME RequestTypes, NEW r \in Requests, pc' = [pc EXCEPT ![r] = "done"],
         \E code \in {200, 400, 404, 500} : status' = [status EXCEPT ![r] = code],
         kind' = kind, journals' \in [Requests -> Seq(Requests)],
         returned' \in [Requests -> Seq(Requests)]
  PROVE  RequestTypes'
<1> USE DEF RequestTypes
<1>1. pc' \in [Requests -> {"new", "get", "body", "done", "cut"}]
  OBVIOUS
<1>2. status' \in [Requests -> {0, 200, 400, 404, 500}]
  OBVIOUS
<1>3. \A q \in Requests : (status'[q] # 0) <=> (pc'[q] = "done")
  <2>1. PICK code \in {200, 400, 404, 500} : status' = [status EXCEPT ![r] = code]
    OBVIOUS
  <2>2. code # 0
    OBVIOUS
  <2> QED
    BY <2>1, <2>2
<1> QED
  BY <1>1, <1>2, <1>3

LEMMA MoveTypes ==
  ASSUME RequestTypes, NEW r \in Requests, pc[r] # "done",
         \E to \in {"get", "body"} : pc' = [pc EXCEPT ![r] = to],
         UNCHANGED <<kind, status, returned>>,
         journals' \in [Requests -> Seq(Requests)]
  PROVE  RequestTypes'
<1> USE DEF RequestTypes
<1>1. pc' \in [Requests -> {"new", "get", "body", "done", "cut"}]
  OBVIOUS
<1>2. \A q \in Requests : (status'[q] # 0) <=> (pc'[q] = "done")
  <2>1. PICK to \in {"get", "body"} : pc' = [pc EXCEPT ![r] = to]
    OBVIOUS
  <2> QED
    BY <2>1
<1> QED
  BY <1>1, <1>2

LEMMA TypesInit == Init => TypeOK
<1> SUFFICES ASSUME Init PROVE TypeOK
  OBVIOUS
<1>1. <<>> \in Seq(Requests) /\ <<>> \in Seq(Command) /\ <<>> \in Seq(Reply)
  OBVIOUS
<1>2. deaths \in 0..MaxDeaths
  BY DeathsOK DEF Init
<1> QED
  BY <1>1, <1>2 DEF Init, TypeOK

(* Every callback, command and death keeps the types.                       *)
LEMMA TypesStep ==
  ASSUME TypeOK, ConnectionOK, [Next]_vars
  PROVE  TypeOK'
<1> SUFFICES ASSUME RequestTypes, ServerTypes
             PROVE  RequestTypes' /\ ServerTypes'
  BY TypeParts DEF TypeOK, RequestTypes, ServerTypes
<1>0. /\ <<>> \in Seq(Requests) /\ <<>> \in Seq(Reply)
      /\ Acked \subseteq Requests
  BY DEF Acked
<1>1. ASSUME NEW r \in Requests, requestHandler(r)
      PROVE  RequestTypes' /\ ServerTypes'
  <2>1. /\ kind' = kind /\ pc[r] # "done"
        /\ journals' \in [Requests -> Seq(Requests)]
    BY <1>1, Arrived DEF RequestTypes
  <2>2. ASSUME Respond(r, 400, <<>>) \/ Respond(r, 404, <<>>)
        PROVE  RequestTypes'
    <3>1. returned' \in [Requests -> Seq(Requests)]
      <4>1. \E list \in Seq(Requests) : returned' = [returned EXCEPT ![r] = list]
        BY <1>0, <2>2 DEF Respond
      <4> QED
        BY <4>1 DEF RequestTypes
    <3>2. /\ pc' = [pc EXCEPT ![r] = "done"]
          /\ \E code \in {200, 400, 404, 500} : status' = [status EXCEPT ![r] = code]
      BY <2>2 DEF Respond
    <3>3. kind' = kind /\ journals' \in [Requests -> Seq(Requests)]
      BY <2>1
    <3> QED
      BY <3>1, <3>2, <3>3, RespondTypes
  <2>3. ASSUME pc' = [pc EXCEPT ![r] = "get"], UNCHANGED <<status, returned>>
        PROVE  RequestTypes'
    BY <2>1, <2>3, MoveTypes
  <2>4. RequestTypes'
    BY <1>1, <2>2, <2>3, Arrived
  <2>5. ServerTypes'
    <3>1. ServerTypes /\ before' \in [Requests -> SUBSET Requests]
      BY <1>0, <1>1, Arrived DEF ServerTypes
    <3>2. /\ commands' \in Seq(Command)
          /\ UNCHANGED <<replies, stored, up, deaths, lost>>
      BY <1>1, <3>1, Arrived DEF Sent, ServerTypes
    <3> QED
      BY <3>1, <3>2 DEF ServerTypes
  <2> QED
    BY <2>4, <2>5
<1>2. ASSUME NEW r \in Requests, getCallback(r)
      PROVE  RequestTypes' /\ ServerTypes'
  <2>1. /\ replies[1].list \in Seq(Requests) /\ kind' = kind
        /\ journals' \in [Requests -> Seq(Requests)]
    <3>1. /\ replies[1] \in Reply /\ kind' = kind
          /\ journals' = [journals EXCEPT ![r] = replies[1].list]
      BY <1>2, Delivered
    <3> QED
      BY <3>1 DEF Reply, RequestTypes
  <2>2. ASSUME Respond(r, 500, <<>>) \/ Respond(r, 200, replies[1].list)
        PROVE  RequestTypes'
    <3>1. returned' \in [Requests -> Seq(Requests)]
      <4>1. \E list \in Seq(Requests) : returned' = [returned EXCEPT ![r] = list]
        BY <1>0, <2>1, <2>2 DEF Respond
      <4> QED
        BY <4>1 DEF RequestTypes
    <3>2. /\ pc' = [pc EXCEPT ![r] = "done"]
          /\ \E code \in {200, 400, 404, 500} : status' = [status EXCEPT ![r] = code]
      BY <2>2 DEF Respond
    <3> QED
      BY <2>1, <3>1, <3>2, RespondTypes
  <2>3. ASSUME pc' = [pc EXCEPT ![r] = "body"], UNCHANGED <<status, returned>>
        PROVE  RequestTypes'
    <3>1. pc[r] = "get"
      BY <1>2, Delivered, Travelling DEF ConnectionOK, RepliesOK
    <3> QED
      BY <2>1, <2>3, <3>1, MoveTypes
  <2>4. RequestTypes'
    BY <1>2, <2>2, <2>3, Delivered
  <2>5. ServerTypes'
    BY <1>2, Delivered DEF ServerTypes
  <2> QED
    BY <2>4, <2>5
<1>3. ASSUME NEW r \in Requests, bodyEnd(r)
      PROVE  RequestTypes' /\ ServerTypes'
  <2>1. RequestTypes'
    <3>1. kind' = kind /\ journals' \in [Requests -> Seq(Requests)]
      BY <1>3, Pushed DEF RequestTypes
    <3>2. /\ Append(journals[r], r) \in Seq(Requests)
          /\ Respond(r, 200, Append(journals[r], r))
      BY <1>3, Pushed
    <3>3. returned' \in [Requests -> Seq(Requests)]
      BY <3>2 DEF Respond, RequestTypes
    <3>4. /\ pc' = [pc EXCEPT ![r] = "done"]
          /\ \E code \in {200, 400, 404, 500} : status' = [status EXCEPT ![r] = code]
      BY <3>2 DEF Respond
    <3> QED
      BY <3>1, <3>3, <3>4, RespondTypes
  <2>2. ServerTypes'
    BY <1>3, Pushed DEF ServerTypes, Sent
  <2> QED
    BY <2>1, <2>2
<1>4. CASE Dies
  <2>1. commands' \in Seq(Command)
    BY <1>4, Death DEF Left
  <2>2. lost' \subseteq Requests
    <3>1. PICK k \in Nat, n \in Nat :
            lost' = lost \cup
                   {commands[i].req : i \in {j \in 1..Len(commands) :
                       commands[j].op = "set" /\ (j <= k \/ j > k + n)}}
      BY <1>4, Death
    <3>2. \A i \in 1..Len(commands) : commands[i] \in Command
      BY DEF ServerTypes
    <3> QED
      BY <3>1, <3>2 DEF ServerTypes, Command
  <2>3. replies' \in Seq(Reply)
    BY <1>4, Death
  <2>4. RequestTypes'
    <3>1. /\ UNCHANGED <<kind, journals, status, returned>>
          /\ pc' = [r \in Requests |->
                     IF pc[r] \in {"get", "body"} THEN "cut" ELSE pc[r]]
      BY <1>4, Death
    <3> QED
      BY <3>1 DEF RequestTypes
  <2> QED
    BY <1>4, <2>1, <2>2, <2>3, <2>4, Death DEF ServerTypes
<1>5. CASE RedisExecutes \/ RedisFailsGet
  <2>1. replies' \in Seq(Reply)
    <3>1. \/ replies' \in {replies, <<>>}
          \/ \E a \in Reply : replies' = Append(replies, a)
      BY <1>5, Executed
    <3>2. CASE \E a \in Reply : replies' = Append(replies, a)
      BY <3>2, AppendFacts DEF ServerTypes
    <3> QED
      BY <1>0, <3>1, <3>2 DEF ServerTypes
  <2>2. stored' \in Seq(Requests)
    BY <1>5, Executed DEF ServerTypes, Command
  <2>3. commands' \in Seq(Command)
    BY <1>5, Executed DEF Left
  <2>4. UNCHANGED <<kind, pc, journals, status, returned, up, deaths, before,
                    lost>>
    BY <1>5, Executed
  <2>5. RequestTypes'
    BY <2>4 DEF RequestTypes
  <2>6. ServerTypes'
    BY <2>1, <2>2, <2>3, <2>4 DEF ServerTypes
  <2> QED
    BY <2>5, <2>6
<1>6. CASE Restart \/ Finished \/ UNCHANGED vars
  <2>1. UNCHANGED <<kind, pc, journals, status, returned, redisVars, deaths,
                    historyVars>> /\ up' \in {TRUE, up}
    BY <1>6 DEF Restart, Finished
  <2>2. RequestTypes'
    BY <2>1 DEF RequestTypes
  <2>3. ServerTypes'
    BY <2>1 DEF ServerTypes
  <2> QED
    BY <2>2, <2>3
<1> QED
  BY <1>1, <1>2, <1>3, <1>4, <1>5, <1>6 DEF Next, Callbacks, Dies

-----------------------------------------------------------------------------
(* The connection.                                                          *)

(* Only r moves, and nobody else.                                           *)
Moves(r, to) ==
  pc'[r] = to /\ \A q \in Requests \ {r} : pc'[q] = pc[q]

(* Every reply, and every get of a process that runs, is owed to a request  *)
(* that waits: it is delivered once.                                        *)
LEMMA ConnectionStep ==
  ASSUME TypeOK, ConnectionOK, [Next]_vars
  PROVE  ConnectionOK'
<1> USE DEF ConnectionOK, GetsOK
<1>t. /\ pc \in [Requests -> {"new", "get", "body", "done", "cut"}]
      /\ up \in BOOLEAN
  BY DEF TypeOK
<1>1. ASSUME NEW r \in Requests, requestHandler(r)
      PROVE  ConnectionOK'
  <2>1. up /\ up' /\ pc[r] = "new" /\ replies' = replies
    BY <1>1, Arrived
  <2>2. CASE Moves(r, "done") /\ commands' = commands
    <3>1. RepliesOK'
      BY <2>1, <2>2, Travelling DEF Moves, RepliesOK
    <3>2. GetsOK'
      BY <2>1, <2>2, Travelling DEF Moves, GetsWait, GetsOnce, GetsApart
    <3> QED
      BY <3>1, <3>2
  <2>3. CASE Moves(r, "get") /\ Sent("get", r, <<>>)
    <3>1. RepliesOK'
      BY <2>1, <2>3, Travelling DEF Moves, RepliesOK
    <3>2. /\ Len(commands') = Len(commands) + 1
          /\ \A i \in 1..Len(commands) : commands'[i] = commands[i]
          /\ commands'[Len(commands) + 1].op = "get"
          /\ commands'[Len(commands) + 1].req = r
      BY <2>3 DEF Sent
    <3>3. /\ \A i \in 1..Len(commands) :
               commands[i].op = "get" => commands[i].req # r
          /\ \A i \in 1..Len(replies) : replies[i].req # r
      BY <2>1 DEF RepliesOK, GetsWait, GetsOnce, GetsApart
    <3>4. \A i \in 1..Len(commands') : i \in 1..Len(commands) \/ i = Len(commands) + 1
      BY <3>2, Travelling
    <3>5. GetsWait'
      BY <2>1, <2>3, <3>2, <3>4, Travelling DEF Moves, GetsWait
    <3>6. GetsOnce'
      BY <2>1, <3>2, <3>3, <3>4 DEF GetsOnce
    <3>7. GetsApart'
      BY <2>1, <3>2, <3>3, <3>4 DEF GetsApart
    <3> QED
      BY <3>1, <3>5, <3>6, <3>7
  <2>4. \/ Moves(r, "done") /\ commands' = commands
        \/ Moves(r, "get") /\ Sent("get", r, <<>>)
    BY <1>t, <1>1, Arrived DEF Respond, Moves
  <2> QED
    BY <2>2, <2>3, <2>4
<1>2. ASSUME NEW r \in Requests, getCallback(r)
      PROVE  ConnectionOK'
  <2>1. /\ replies[1].req = r /\ Len(replies) \in Nat \ {0}
        /\ Len(replies') = Len(replies) - 1
        /\ \A i \in 1..Len(replies) - 1 : replies'[i] = replies[i + 1]
        /\ up /\ up' /\ commands' = commands
    BY <1>2, Delivered
  <2>2. \A i \in 1..Len(replies') :
          i + 1 \in 1..Len(replies) /\ i + 1 # 1 /\ replies'[i] = replies[i + 1]
    BY <2>1
  <2>3. \A q \in Requests \ {r} : pc'[q] = pc[q]
    BY <1>t, <1>2, Delivered DEF Respond
  <2>4. \A i \in 1..Len(replies') : replies'[i].req \in Requests \ {r}
    BY <2>1, <2>2, Travelling DEF RepliesOK
  <2>5. RepliesOK'
    <3>1. \A i, j \in 1..Len(replies') : i + 1 = j + 1 => i = j
      BY <2>1
    <3>2. \A i, j \in 1..Len(replies') :
            replies'[i].req = replies'[j].req => i = j
      BY <2>2, <3>1 DEF RepliesOK
    <3>3. \A i \in 1..Len(replies') : pc'[replies'[i].req] = "get"
      BY <2>2, <2>3, <2>4 DEF RepliesOK
    <3> QED
      BY <2>1, <3>2, <3>3 DEF RepliesOK
  <2>6. \A i \in 1..Len(commands) :
          commands[i].op = "get" => commands[i].req \in Requests \ {r}
    BY <2>1, Travelling DEF GetsWait, GetsOnce, GetsApart
  <2>7. GetsOK'
    BY <2>1, <2>2, <2>3, <2>6 DEF GetsWait, GetsOnce, GetsApart
  <2> QED
    BY <2>5, <2>7
<1>3. ASSUME NEW r \in Requests, bodyEnd(r)
      PROVE  ConnectionOK'
  <2>1. /\ up /\ up' /\ pc[r] = "body"
        /\ Respond(r, 200, Append(journals[r], r))
        /\ Sent("set", r, Append(journals[r], r))
    BY <1>3, Pushed
  <2>2. Moves(r, "done")
    BY <1>t, <2>1 DEF Respond, Moves
  <2>3. commands'[Len(commands) + 1].op = "set"
    BY <2>1 DEF Sent
  <2>4. /\ Len(commands') = Len(commands) + 1
        /\ \A i \in 1..Len(commands) : commands'[i] = commands[i]
        /\ replies' = replies
    BY <2>1 DEF Sent
  <2>5. \A i \in 1..Len(commands') : i \in 1..Len(commands) \/ i = Len(commands) + 1
    BY <2>4, Travelling
  <2>6. RepliesOK'
    BY <2>1, <2>2, <2>4, Travelling DEF Moves, RepliesOK
  <2>7. GetsWait'
    BY <2>1, <2>2, <2>3, <2>4, <2>5, Travelling DEF Moves, GetsWait
  <2>8. GetsOnce'
    BY <2>1, <2>3, <2>4, <2>5 DEF GetsOnce
  <2>9. GetsApart'
    BY <2>1, <2>3, <2>4, <2>5 DEF GetsApart
  <2> QED
    BY <2>6, <2>7, <2>8, <2>9
<1>4. CASE Dies
  BY <1>4, Death DEF RepliesOK, GetsWait, GetsOnce, GetsApart
<1>5. CASE RedisExecutes \/ RedisFailsGet
  <2>1. /\ Len(commands) \in Nat \ {0} /\ Len(commands') = Len(commands) - 1
        /\ \A i \in 1..Len(commands) - 1 : commands'[i] = commands[i + 1]
        /\ UNCHANGED <<pc, up>>
    BY <1>5, Executed DEF Left
  <2>2. \A i \in 1..Len(commands') :
          /\ i + 1 \in 1..Len(commands) /\ i + 1 # 1
          /\ commands'[i] = commands[i + 1]
    BY <2>1
  <2>w. GetsWait'
    BY <2>1, <2>2 DEF GetsWait
  <2>o. GetsOnce'
    <3>1. \A i, j \in 1..Len(commands') : i + 1 = j + 1 => i = j
      BY <2>1
    <3> QED
      BY <2>1, <2>2, <3>1 DEF GetsOnce
  <2>3. CASE replies' = replies
    <3>1. GetsApart'
      BY <2>1, <2>2, <2>3 DEF GetsApart
    <3>2. RepliesOK'
      BY <2>1, <2>3 DEF RepliesOK
    <3> QED
      BY <2>w, <2>o, <3>1, <3>2
  <2>4. CASE ~up /\ replies' = <<>>
    <3>1. GetsApart' /\ RepliesOK'
      BY <2>1, <2>4 DEF GetsApart, RepliesOK
    <3> QED
      BY <2>w, <2>o, <3>1
  <2>5. ASSUME NEW a \in Reply, a.req = commands[1].req, commands[1].op = "get",
               up, replies' = Append(replies, a)
        PROVE  ConnectionOK'
    <3>1. /\ Len(replies') = Len(replies) + 1
          /\ \A i \in 1..Len(replies) : replies'[i] = replies[i]
          /\ replies'[Len(replies) + 1] = a
      BY <2>5, AppendFacts DEF TypeOK
    <3>2. \A i \in 1..Len(replies') : i \in 1..Len(replies) \/ i = Len(replies) + 1
      BY <3>1, Travelling
    <3>3. 1 \in 1..Len(commands) /\ pc[a.req] = "get"
      BY <2>1, <2>5 DEF GetsWait, GetsOnce, GetsApart
    <3>4. \A i \in 1..Len(replies) : replies[i].req # a.req
      BY <2>5, <3>3 DEF GetsWait, GetsOnce, GetsApart
    <3>5. \A i \in 1..Len(commands') : commands'[i].op = "get" => commands'[i].req # a.req
      BY <2>2, <2>5, <3>3 DEF GetsWait, GetsOnce, GetsApart
    <3>6. RepliesOK'
      BY <2>1, <2>5, <3>1, <3>2, <3>3, <3>4 DEF RepliesOK
    <3>7. GetsApart'
      BY <2>1, <2>2, <2>5, <3>1, <3>2, <3>5 DEF GetsApart
    <3> QED
      BY <2>w, <2>o, <3>6, <3>7
  <2> QED
    BY <1>5, <2>3, <2>4, <2>5, Executed
<1>6. CASE Restart \/ Finished \/ UNCHANGED vars
  BY <1>6 DEF Restart, Finished, RepliesOK, GetsWait, GetsOnce, GetsApart
<1> QED
  BY <1>1, <1>2, <1>3, <1>4, <1>5, <1>6 DEF Next, Callbacks, Dies

-----------------------------------------------------------------------------
(* Acknowledgements.                                                        *)

(* Only the end of a body acknowledges, and nothing takes it back.          *)
LEMMA AckedStep ==
  ASSUME TypeOK, ConnectionOK, [Next]_vars
  PROVE  /\ kind' = kind
         /\ Acked \subseteq Acked'
         /\ \A r \in Acked' \ Acked : bodyEnd(r) /\ Acked' = Acked \cup {r}
<1> USE DEF Acked, IsPost
<1>t. /\ status \in [Requests -> {0, 200, 400, 404, 500}]
      /\ \A r \in Requests : (status[r] # 0) <=> (pc[r] = "done")
  BY DEF TypeOK
<1>1. ASSUME NEW r \in Requests, requestHandler(r)
      PROVE  kind' = kind /\ Acked' = Acked
  <2>1. /\ kind' = kind /\ status[r] = 0
        /\ \/ status' = status \/ status' = [status EXCEPT ![r] = 400]
           \/ status' = [status EXCEPT ![r] = 404]
    BY <1>1, <1>t, Arrived DEF Respond
  <2> QED
    BY <1>t, <2>1
<1>2. ASSUME NEW r \in Requests, getCallback(r)
      PROVE  kind' = kind /\ Acked' = Acked
  <2>1. status[r] = 0
    BY <1>2, <1>t, Delivered DEF ConnectionOK, RepliesOK
  <2>2. /\ kind' = kind
        /\ \/ status' = status \/ status' = [status EXCEPT ![r] = 500]
           \/ kind[r] = "GET" /\ status' = [status EXCEPT ![r] = 200]
    BY <1>2, Delivered DEF Respond
  <2> QED
    BY <1>t, <2>1, <2>2
<1>3. ASSUME NEW r \in Requests, bodyEnd(r)
      PROVE  /\ kind' = kind /\ r \notin Acked /\ Acked' = Acked \cup {r}
  <2>1. /\ kind' = kind /\ kind[r] = "POST" /\ status[r] = 0
        /\ status' = [status EXCEPT ![r] = 200]
    BY <1>3, <1>t, Pushed DEF Respond
  <2> QED
    BY <1>t, <2>1
<1>4. CASE \/ Dies \/ RedisExecutes \/ RedisFailsGet
           \/ Restart \/ Finished \/ UNCHANGED vars
  BY <1>4, Death, Executed DEF Restart, Finished
<1> QED
  BY <1>1, <1>2, <1>3, <1>4 DEF Next, Callbacks, Dies

(* What a request finds acknowledged is fixed when it arrives.              *)
LEMMA BeforeStep ==
  ASSUME TypeOK, ConnectionOK, BeforeOK, [Next]_vars
  PROVE  /\ BeforeOK'
         /\ \/ before' = before
            \/ \E r \in Requests :
                 /\ requestHandler(r) /\ pc[r] = "new"
                 /\ before' = [before EXCEPT ![r] = Acked]
         /\ \A q \in Requests : pc[q] # "new" => before'[q] = before[q]
<1>1. /\ \/ before' = before
         \/ \E r \in Requests :
              /\ requestHandler(r) /\ pc[r] = "new"
              /\ before' = [before EXCEPT ![r] = Acked]
  <2>1. \A r \in Requests : requestHandler(r) =>
          pc[r] = "new" /\ before' = [before EXCEPT ![r] = Acked]
    BY Arrived
  <2> QED
    BY <2>1, Delivered, Pushed, Death, Executed
       DEF Next, Callbacks, Dies, Restart, Finished
<1>2. before \in [Requests -> SUBSET Requests]
  BY DEF TypeOK
<1>3. BeforeOK'
  BY <1>1, <1>2, AckedStep DEF BeforeOK
<1> QED
  BY <1>1, <1>2, <1>3

-----------------------------------------------------------------------------
(* The order of the journal.                                                *)

(* A journal stays one while more requests arrive and are acknowledged.     *)
LEMMA JournalStays ==
  ASSUME NEW l \in Seq(Requests), NEW a, NEW b, NEW f, NEW g,
         JournalOf(l, a, f), a \subseteq b, \A q \in a : g[q] = f[q]
  PROVE  JournalOf(l, b, g)
BY DEF JournalOf

(* A journal stays one with a message nobody in it found acknowledged.      *)
LEMMA JournalPushed ==
  ASSUME NEW l \in Seq(Requests), NEW r \in Requests, NEW a, NEW f,
         JournalOf(l, a, f), r \notin a, \A q \in a : r \notin f[q]
  PROVE  JournalOf(Append(l, r), a \cup {r}, f)
<1>1. /\ Len(Append(l, r)) = Len(l) + 1 /\ Len(l) \in Nat
      /\ \A i \in 1..Len(l) : Append(l, r)[i] = l[i]
      /\ Append(l, r)[Len(l) + 1] = r
  BY AppendFacts
<1>2. \A i \in 1..Len(l) + 1 : i \in 1..Len(l) \/ i = Len(l) + 1
  BY <1>1
<1>3. \A i \in 1..Len(l) + 1 : Append(l, r)[i] \in a \cup {r}
  BY <1>1, <1>2 DEF JournalOf
<1>4. ASSUME NEW i \in 1..Len(l) + 1, NEW j \in 1..Len(l) + 1, i < j
      PROVE  /\ Append(l, r)[i] # Append(l, r)[j]
             /\ Append(l, r)[j] \notin f[Append(l, r)[i]]
  BY <1>1, <1>2, <1>4 DEF JournalOf
<1> QED
  BY <1>1, <1>3, <1>4 DEF JournalOf

(* No step puts a list on its way that is not one of the old ones, empty,   *)
(* or one of them with the message that is being acknowledged.              *)
LEMMA JournalsStep ==
  ASSUME TypeOK, ConnectionOK, BeforeOK, JournalsOK, [Next]_vars
  PROVE  JournalsOK'
<1> DEFINE Old(l) == JournalOf(l, Acked, before)
           New(l) == JournalOf(l, Acked', before')
<1>t. /\ stored \in Seq(Requests) /\ journals \in [Requests -> Seq(Requests)]
      /\ status \in [Requests -> {0, 200, 400, 404, 500}]
      /\ \A r \in Requests : (status[r] # 0) <=> (pc[r] = "done")
  BY DEF TypeOK
<1>o. /\ Old(stored) /\ \A q \in Requests : Old(journals[q])
      /\ \A i \in 1..Len(commands) : Old(commands[i].list)
      /\ \A i \in 1..Len(replies) : Old(replies[i].list)
  BY DEF JournalsOK
<1>s. \A l \in Seq(Requests) : Old(l) => New(l)
  <2>1. \A q \in Acked : before'[q] = before[q]
    <3>1. \A q \in Requests : pc[q] # "new" => before'[q] = before[q]
      BY BeforeStep
    <3>2. \A q \in Acked : q \in Requests /\ status[q] = 200
      BY DEF Acked
    <3> QED
      BY <1>t, <3>1, <3>2
  <2> QED
    BY <2>1, AckedStep, JournalStays
<1>e. <<>> \in Seq(Requests) /\ New(<<>>)
  BY DEF JournalOf
<1>n. /\ New(stored) /\ \A q \in Requests : New(journals[q])
      /\ \A i \in 1..Len(commands) : New(commands[i].list)
      /\ \A i \in 1..Len(replies) : New(replies[i].list)
  BY <1>t, <1>o, <1>s, Travelling
<1> SUFFICES /\ New(stored') /\ \A q \in Requests : New(journals'[q])
             /\ \A i \in 1..Len(commands') : New(commands'[i].list)
             /\ \A i \in 1..Len(replies') : New(replies'[i].list)
  BY DEF JournalsOK
<1> HIDE DEF New
<1>1. ASSUME NEW r \in Requests, requestHandler(r)
      PROVE  \A i \in 1..Len(commands') : New(commands'[i].list)
  <2>1. CASE Sent("get", r, <<>>)
    <3>1. \A i \in 1..Len(commands') : i \in 1..Len(commands) \/ i = Len(commands) + 1
      BY <2>1 DEF Sent
    <3> QED
      BY <1>n, <1>e, <2>1, <3>1 DEF Sent
  <2>2. CASE commands' = commands
    BY <1>n, <2>2
  <2> QED
    BY <1>1, <2>1, <2>2, Arrived
<1>2. ASSUME NEW r \in Requests, getCallback(r)
      PROVE  /\ \A q \in Requests : New(journals'[q])
             /\ \A i \in 1..Len(replies') : New(replies'[i].list)
  <2>1. /\ Len(replies) \in Nat \ {0} /\ Len(replies') = Len(replies) - 1
        /\ \A i \in 1..Len(replies) - 1 : replies'[i] = replies[i + 1]
        /\ journals' = [journals EXCEPT ![r] = replies[1].list]
    BY <1>2, Delivered
  <2>2. \A i \in 1..Len(replies') :
          i + 1 \in 1..Len(replies) /\ replies'[i] = replies[i + 1]
    BY <2>1
  <2>3. New(replies[1].list)
    BY <1>n, <2>1
  <2>4. \A q \in Requests : New(journals'[q])
    BY <1>t, <1>n, <2>1, <2>3
  <2>5. \A i \in 1..Len(replies') : New(replies'[i].list)
    BY <1>n, <2>2
  <2> QED
    BY <2>4, <2>5
<1>3. ASSUME NEW r \in Requests, bodyEnd(r)
      PROVE  \A i \in 1..Len(commands') : New(commands'[i].list)
  <2> DEFINE pushed == Append(journals[r], r)
  <2>1. /\ Sent("set", r, pushed) /\ kind[r] = "POST" /\ pc[r] = "body"
        /\ status' = [status EXCEPT ![r] = 200] /\ kind' = kind /\ before' = before
    BY <1>3, Pushed DEF Respond
  <2>2. r \notin Acked /\ r \in Acked'
    <3>1. status[r] = 0 /\ status'[r] = 200 /\ kind'[r] = "POST"
      BY <1>t, <2>1
    <3> QED
      BY <3>1 DEF Acked, IsPost
  <2>3. Acked' = Acked \cup {r}
    BY <2>2, AckedStep
  <2>4. \A q \in Acked : r \notin before[q]
    BY <2>2 DEF BeforeOK, Acked
  <2>5. JournalOf(pushed, Acked \cup {r}, before)
    <3>1. journals[r] \in Seq(Requests) /\ JournalOf(journals[r], Acked, before)
      BY <1>t, <1>o
    <3> QED
      BY <2>2, <2>4, <3>1, JournalPushed
  <2>6. New(pushed)
    BY <2>1, <2>3, <2>5 DEF New
  <2>7. \A i \in 1..Len(commands') : i \in 1..Len(commands) \/ i = Len(commands) + 1
    BY <2>1 DEF Sent
  <2> HIDE DEF pushed
  <2> QED
    BY <1>n, <2>1, <2>6, <2>7 DEF Sent
<1>4. CASE Dies
  <2>1. PICK k \in Nat, n \in Nat : Left(k, n)
    BY <1>4, Death
  <2>2. \A i \in 1..Len(commands') :
          i + k \in 1..Len(commands) /\ commands'[i] = commands[i + k]
    BY <2>1, Travelling DEF Left
  <2>3. replies' = <<>> /\ stored' = stored /\ journals' = journals
    BY <1>4, Death
  <2> QED
    BY <1>n, <2>2, <2>3
<1>5. CASE RedisExecutes \/ RedisFailsGet
  <2>1. /\ Len(commands) \in Nat \ {0} /\ Len(commands') = Len(commands) - 1
        /\ \A i \in 1..Len(commands) - 1 : commands'[i] = commands[i + 1]
        /\ journals' = journals
        /\ stored' \in {stored, commands[1].list}
    BY <1>5, Executed DEF Left
  <2>2. \A i \in 1..Len(commands') :
          i + 1 \in 1..Len(commands) /\ commands'[i] = commands[i + 1]
    BY <2>1
  <2>3. New(stored') /\ New(commands[1].list)
    BY <1>n, <2>1
  <2>4. \A i \in 1..Len(replies') : New(replies'[i].list)
    <3>1. CASE replies' = replies \/ replies' = <<>>
      BY <1>n, <3>1
    <3>2. ASSUME NEW a \in Reply, replies' = Append(replies, a),
                 a.list \in {commands[1].list, stored}
          PROVE  \A i \in 1..Len(replies') : New(replies'[i].list)
      <4>1. /\ Len(replies') = Len(replies) + 1 /\ Len(replies) \in Nat
            /\ \A i \in 1..Len(replies) : replies'[i] = replies[i]
            /\ replies'[Len(replies) + 1] = a
        BY <3>2, AppendFacts DEF TypeOK
      <4>2. \A i \in 1..Len(replies') : i \in 1..Len(replies) \/ i = Len(replies) + 1
        BY <4>1
      <4> QED
        BY <1>n, <2>3, <3>2, <4>1, <4>2
    <3> QED
      BY <1>5, <3>1, <3>2, Executed
  <2> QED
    BY <1>n, <2>1, <2>2, <2>3, <2>4
<1>6. CASE Restart \/ Finished \/ UNCHANGED vars
  BY <1>6, <1>n DEF Restart, Finished
<1>7. ASSUME NEW r \in Requests, requestHandler(r)
      PROVE  UNCHANGED <<stored, journals, replies>>
  BY <1>7, Arrived
<1>8. ASSUME NEW r \in Requests, getCallback(r)
      PROVE  UNCHANGED <<stored, commands>>
  BY <1>8, Delivered
<1>9. ASSUME NEW r \in Requests, bodyEnd(r)
      PROVE  UNCHANGED <<stored, journals, replies>>
  BY <1>9, Pushed DEF Sent
<1> QED
  BY <1>n, <1>1, <1>2, <1>3, <1>4, <1>5, <1>6, <1>7, <1>8, <1>9
     DEF Next, Callbacks, Dies

-----------------------------------------------------------------------------
(* What was acknowledged is seen.                                           *)

(* Who has arrived stays so, and what is lost stays lost.                   *)
LEMMA ArrivedStep ==
  ASSUME TypeOK, ConnectionOK, [Next]_vars
  PROVE  /\ \A q \in Requests : pc[q] # "new" => pc'[q] # "new"
         /\ lost \subseteq lost'
<1>t. pc \in [Requests -> {"new", "get", "body", "done", "cut"}]
  BY DEF TypeOK
<1>1. ASSUME NEW r \in Requests, requestHandler(r) \/ getCallback(r) \/ bodyEnd(r)
      PROVE  lost' = lost /\ \E to : to # "new" /\ Moves(r, to)
  <2>1. \E to \in {"get", "body", "done"} : pc' = [pc EXCEPT ![r] = to]
    BY <1>1 DEF requestHandler, getCallback, bodyEnd, Respond
  <2>2. lost' = lost
    BY <1>1, Arrived, Delivered, Pushed
  <2> QED
    BY <1>t, <2>1, <2>2 DEF Moves
<1>2. CASE Dies
  BY <1>2, <1>t, Death
<1>3. CASE RedisExecutes \/ RedisFailsGet \/ Restart \/ Finished \/ UNCHANGED vars
  BY <1>3, Executed DEF Restart, Finished
<1> QED
  BY <1>1, <1>2, <1>3 DEF Next, Callbacks, Dies, Moves

(* An excuse lasts.                                                         *)
LEMMA ExcusedStays ==
  ASSUME TypeOK, ConnectionOK, BeforeOK, [Next]_vars,
         NEW r \in Requests, Excused(r)
  PROVE  Excused(r)'
<1>1. /\ kind' = kind /\ lost \subseteq lost'
      /\ \A q \in Requests :
           pc[q] # "new" => pc'[q] # "new" /\ before'[q] = before[q]
  BY AckedStep, ArrivedStep, BeforeStep
<1> QED
  BY <1>1 DEF Excused, Concurrent

(* A request arrives after the message was acknowledged: its get is behind  *)
(* the command that stores the message.                                     *)
LEMMA SeenArrival ==
  ASSUME TypeOK, ConnectionOK, BeforeOK, NEW r \in Acked, Seen(r),
         NEW p \in Requests, requestHandler(p)
  PROVE  Seen(r)'
<1>t. /\ pc \in [Requests -> {"new", "get", "body", "done", "cut"}]
      /\ status \in [Requests -> {0, 200, 400, 404, 500}]
      /\ before \in [Requests -> SUBSET Requests]
      /\ returned \in [Requests -> Seq(Requests)]
      /\ (status[p] # 0) <=> (pc[p] = "done")
  BY DEF TypeOK
<1>1. /\ up /\ up' /\ pc[p] = "new"
      /\ UNCHANGED <<kind, journals, replies, stored>>
      /\ before' = [before EXCEPT ![p] = Acked]
  BY Arrived
<1>2. \/ commands' = commands
      \/ /\ Len(commands') = Len(commands) + 1
         /\ \A i \in 1..Len(commands) : commands'[i] = commands[i]
         /\ commands'[Len(commands) + 1].op = "get"
  <2>1. Sent("get", p, <<>>) \/ UNCHANGED redisVars
    BY Arrived
  <2>2. CASE Sent("get", p, <<>>)
    BY <2>2 DEF Sent
  <2> QED
    BY <2>1, <2>2
<1>3. /\ \A q \in Requests \ {p} : /\ pc'[q] = pc[q] /\ status'[q] = status[q]
                                   /\ returned'[q] = returned[q]
      /\ pc'[p] \in {"get", "done"} /\ status'[p] # 200
  <2>1. CASE Respond(p, 400, <<>>) \/ Respond(p, 404, <<>>)
    BY <1>t, <2>1 DEF Respond
  <2>2. CASE pc' = [pc EXCEPT ![p] = "get"] /\ UNCHANGED <<status, returned>>
    BY <1>t, <1>1, <2>2
  <2> QED
    BY <2>1, <2>2, Arrived
<1>4. PICK n \in 0..Len(commands) : KeptFrom(r, n)
  BY DEF Seen, Kept
<1>5. n \in 0..Len(commands') /\ KeptFrom(r, n)'
  <2>1. /\ n \in 0..Len(commands') /\ Len(commands) \in Nat
        /\ \A i \in 1..Len(commands) : i \in 1..Len(commands') /\ commands'[i] = commands[i]
        /\ \A i \in 1..Len(commands') : i \in 1..Len(commands) \/ commands'[i].op = "get"
    BY <1>2, Travelling
  <2>2. IF n = 0 THEN r \in ToSet(stored')
                 ELSE commands'[n].op = "set" /\ commands'[n].req = r
    BY <1>1, <1>4, <2>1 DEF KeptFrom
  <2>3. \A i \in 1..Len(commands') :
          i >= n /\ commands'[i].op = "set" => r \in ToSet(commands'[i].list)
    BY <1>4, <2>1 DEF KeptFrom
  <2>4. ASSUME NEW i \in 1..Len(commands'), i <= n, commands'[i].op = "get"
        PROVE  r \notin before'[commands'[i].req]
    <3>1. i \in 1..Len(commands) /\ commands'[i] = commands[i]
      BY <2>1, <2>4
    <3>2. commands[i].req \in Requests \ {p}
      BY <1>1, <2>4, <3>1, Travelling DEF ConnectionOK, GetsOK, GetsWait
    <3> QED
      BY <1>t, <1>1, <1>4, <2>4, <3>1, <3>2 DEF KeptFrom
  <2> QED
    BY <2>1, <2>2, <2>3, <2>4 DEF KeptFrom
<1>6. ASSUME NEW q \in Requests, r \in before'[q]
      PROVE  SeenBy(r, q)'
  <2>1. CASE q = p
    <3>1. \A i \in 1..Len(replies) : replies[i].req # p
      BY <1>1 DEF ConnectionOK, RepliesOK
    <3> QED
      BY <1>1, <1>3, <2>1, <3>1 DEF SeenBy
  <2>2. CASE q # p
    <3>1. SeenBy(r, q)
      BY <1>t, <1>1, <1>6, <2>2 DEF Seen
    <3> QED
      BY <1>1, <1>3, <2>2, <3>1 DEF SeenBy
  <2> QED
    BY <2>1, <2>2
<1> QED
  BY <1>5, <1>6 DEF Seen, Kept

(* What is delivered to a request is what it should see.                    *)
LEMMA SeenDelivery ==
  ASSUME TypeOK, ConnectionOK, NEW r \in Acked, Seen(r),
         NEW p \in Requests, getCallback(p)
  PROVE  Seen(r)'
<1>t. /\ pc \in [Requests -> {"new", "get", "body", "done", "cut"}]
      /\ status \in [Requests -> {0, 200, 400, 404, 500}]
      /\ returned \in [Requests -> Seq(Requests)]
      /\ journals \in [Requests -> Seq(Requests)]
      /\ (status[p] # 0) <=> (pc[p] = "done")
  BY DEF TypeOK
<1>1. /\ UNCHANGED <<kind, commands, stored, up, before>>
      /\ replies[1].req = p /\ Len(replies) \in Nat \ {0}
      /\ Len(replies') = Len(replies) - 1
      /\ \A i \in 1..Len(replies) - 1 : replies'[i] = replies[i + 1]
      /\ journals' = [journals EXCEPT ![p] = replies[1].list]
  BY Delivered
<1>2. Kept(r)'
  BY <1>1 DEF Seen, Kept, KeptFrom
<1>3. /\ \A i \in 1..Len(replies') : i + 1 \in 1..Len(replies) /\ replies'[i] = replies[i + 1]
      /\ 1 \in 1..Len(replies)
  BY <1>1
<1>4. ASSUME NEW q \in Requests, r \in before'[q]
      PROVE  SeenBy(r, q)'
  <2>1. SeenBy(r, q)
    BY <1>1, <1>4 DEF Seen
  <2>2. \A i \in 1..Len(replies') :
          replies'[i].req = q /\ replies'[i].op = "get" => r \in ToSet(replies'[i].list)
    BY <1>3, <2>1 DEF SeenBy
  <2>3. CASE q # p
    <3>1. /\ pc'[q] = pc[q] /\ status'[q] = status[q] /\ returned'[q] = returned[q]
          /\ journals'[q] = journals[q]
      <4>1. \/ \E code, list : Respond(p, code, list)
            \/ pc' = [pc EXCEPT ![p] = "body"] /\ UNCHANGED <<status, returned>>
        BY Delivered
      <4> QED
        BY <1>t, <1>1, <2>3, <4>1 DEF Respond
    <3> QED
      BY <2>1, <2>2, <3>1 DEF SeenBy
  <2>4. CASE q = p
    <3>1. replies[1].op = "get" => r \in ToSet(replies[1].list)
      BY <1>1, <1>3, <2>1, <2>4 DEF SeenBy
    <3>2. /\ journals'[p] = replies[1].list
          /\ \/ replies[1].op = "error" /\ pc'[p] = "done" /\ status'[p] = 500
             \/ /\ replies[1].op = "get" /\ pc'[p] = "done"
                /\ returned'[p] = replies[1].list
             \/ replies[1].op = "get" /\ pc'[p] = "body" /\ status'[p] = 0
      <4>1. pc[p] = "get"
        BY <1>1, <1>3 DEF ConnectionOK, RepliesOK
      <4> QED
        BY <1>t, <1>1, <4>1, Delivered DEF Respond
    <3> QED
      BY <2>2, <2>4, <3>1, <3>2 DEF SeenBy
  <2> QED
    BY <2>3, <2>4
<1> QED
  BY <1>2, <1>4 DEF Seen

(* A POST that saw the message stores it again; one that did not is the     *)
(* excuse.                                                                  *)
LEMMA SeenPush ==
  ASSUME TypeOK, BeforeOK, NEW r \in Acked, Seen(r), ~Excused(r)',
         NEW p \in Requests, bodyEnd(p)
  PROVE  Seen(r)'
<1> DEFINE pushed == Append(journals[p], p)
<1>t. /\ pc \in [Requests -> {"new", "get", "body", "done", "cut"}]
      /\ status \in [Requests -> {0, 200, 400, 404, 500}]
      /\ returned \in [Requests -> Seq(Requests)]
      /\ journals \in [Requests -> Seq(Requests)]
      /\ \A q \in Requests : (status[q] # 0) <=> (pc[q] = "done")
  BY DEF TypeOK
<1>1. /\ UNCHANGED <<kind, journals, up, before, lost, replies, stored>>
      /\ pc[p] = "body" /\ kind[p] = "POST"
      /\ Len(commands) \in Nat /\ Len(commands') = Len(commands) + 1
      /\ \A i \in 1..Len(commands) : commands'[i] = commands[i]
      /\ commands'[Len(commands) + 1] = [op |-> "set", req |-> p, list |-> pushed]
      /\ pc' = [pc EXCEPT ![p] = "done"]
      /\ returned' = [returned EXCEPT ![p] = pushed]
      /\ status' = [status EXCEPT ![p] = 200]
  BY Pushed DEF Sent, Respond
<1>2. p # r /\ p \notin Acked /\ pc[r] = "done"
  BY <1>t, <1>1 DEF Acked
<1>3. r \in before[p]
  <2>1. /\ p # r /\ kind'[p] = "POST" /\ pc'[p] # "new" /\ pc'[r] # "new"
        /\ p \notin before'[r]
    BY <1>t, <1>1, <1>2 DEF BeforeOK, Acked
  <2> QED
    BY <1>1, <2>1 DEF Excused, Concurrent
<1>4. r \in ToSet(pushed)
  <2>1. r \in ToSet(journals[p])
    BY <1>1, <1>3 DEF Seen, SeenBy
  <2> QED
    BY <1>t, <2>1, ToSetFacts
<1> HIDE DEF pushed
<1>5. PICK n \in 0..Len(commands) : KeptFrom(r, n)
  BY DEF Seen, Kept
<1>6. n \in 0..Len(commands') /\ KeptFrom(r, n)'
  <2>1. /\ n \in 0..Len(commands') /\ \A i \in 1..Len(commands) : i \in 1..Len(commands')
        /\ \A i \in 1..Len(commands') : i \in 1..Len(commands) \/ i = Len(commands) + 1
    BY <1>1
  <2>2. IF n = 0 THEN r \in ToSet(stored')
                 ELSE commands'[n].op = "set" /\ commands'[n].req = r
    BY <1>1, <1>5, <2>1 DEF KeptFrom
  <2>3. \A i \in 1..Len(commands') :
          i >= n /\ commands'[i].op = "set" => r \in ToSet(commands'[i].list)
    BY <1>1, <1>4, <1>5, <2>1 DEF KeptFrom
  <2>4. up' => \A i \in 1..Len(commands') :
          i <= n /\ commands'[i].op = "get" => r \notin before'[commands'[i].req]
    BY <1>1, <1>5, <2>1 DEF KeptFrom
  <2> QED
    BY <2>2, <2>3, <2>4, <2>1 DEF KeptFrom
<1>7. ASSUME NEW q \in Requests, r \in before'[q]
      PROVE  SeenBy(r, q)'
  <2>1. SeenBy(r, q)
    BY <1>1, <1>7 DEF Seen
  <2> QED
    BY <1>t, <1>1, <1>4, <2>1 DEF SeenBy
<1> QED
  BY <1>6, <1>7 DEF Seen, Kept

(* A message is acknowledged together with the command that stores it, and  *)
(* nobody has found it acknowledged before.                                 *)
LEMMA SeenAcknowledged ==
  ASSUME TypeOK, BeforeOK, NEW r \in Requests, r \notin Acked, bodyEnd(r)
  PROVE  Seen(r)'
<1> DEFINE pushed == Append(journals[r], r)
<1>1. /\ before' = before /\ Len(commands) \in Nat /\ Len(commands') = Len(commands) + 1
      /\ commands'[Len(commands) + 1] = [op |-> "set", req |-> r, list |-> pushed]
      /\ \A i \in 1..Len(commands) : commands'[i] = commands[i]
  BY Pushed DEF Sent
<1>2. \A q \in Requests : r \notin before'[q]
  BY <1>1 DEF BeforeOK
<1>3. r \in ToSet(pushed)
  BY ToSetFacts DEF TypeOK
<1> HIDE DEF pushed
<1>4. \A i \in 1..Len(commands') :
        /\ i >= Len(commands) + 1 => i = Len(commands) + 1
        /\ commands'[i].op = "get" => commands'[i].req \in Requests
  BY <1>1, Travelling
<1>5. PICK n \in Nat : n = Len(commands) + 1
  BY <1>1
<1>6. n \in 0..Len(commands') /\ KeptFrom(r, n)'
  <2>1. n \in 0..Len(commands') /\ n # 0 /\ n = Len(commands')
    BY <1>1, <1>5
  <2>2. commands'[n].op = "set" /\ commands'[n].req = r /\ commands'[n].list = pushed
    BY <1>1, <1>5
  <2>3. \A i \in 1..Len(commands') :
          i >= n /\ commands'[i].op = "set" => r \in ToSet(commands'[i].list)
    BY <1>3, <1>4, <1>5, <2>2
  <2>4. \A i \in 1..Len(commands') :
          commands'[i].op = "get" => r \notin before'[commands'[i].req]
    BY <1>2, <1>4
  <2> QED
    BY <2>1, <2>2, <2>3, <2>4 DEF KeptFrom
<1>7. Kept(r)'
  BY <1>6 DEF Kept
<1> QED
  BY <1>2, <1>7 DEF Seen

(* When the process dies, either the command that stores the message is     *)
(* among those that had left, or the message counts as lost.                *)
LEMMA SeenDeath ==
  ASSUME TypeOK, NEW r \in Acked, Seen(r), ~Excused(r)', Dies
  PROVE  Seen(r)'
<1>1. /\ up' = FALSE /\ replies' = <<>>
      /\ UNCHANGED <<journals, status, returned, stored, before>>
      /\ pc' = [q \in Requests |-> IF pc[q] \in {"get", "body"} THEN "cut" ELSE pc[q]]
  BY Death
<1>2. PICK k \in Nat, m \in Nat :
        /\ Left(k, m)
        /\ lost' = lost \cup
                   {commands[i].req : i \in {j \in 1..Len(commands) :
                       commands[j].op = "set" /\ (j <= k \/ j > k + m)}}
  BY Death
<1>3. r \notin lost'
  BY DEF Excused
<1>4. PICK n \in 0..Len(commands) : KeptFrom(r, n)
  BY DEF Seen, Kept
<1>5. n # 0 => k < n /\ n <= k + m
  BY <1>2, <1>3, <1>4, Travelling DEF KeptFrom
<1>6. /\ Len(commands') = m /\ k + m <= Len(commands)
      /\ \A i \in 1..m : i + k \in 1..Len(commands) /\ commands'[i] = commands[i + k]
  BY <1>2, Travelling DEF Left
<1> DEFINE after == IF n = 0 THEN 0 ELSE n - k
<1>7. after \in 0..m /\ (after = 0 <=> n = 0) /\ (n # 0 => after + k = n)
  BY <1>5
<1>8. KeptFrom(r, after)'
  <2>1. IF after = 0 THEN r \in ToSet(stored')
                     ELSE commands'[after].op = "set" /\ commands'[after].req = r
    BY <1>1, <1>4, <1>6, <1>7 DEF KeptFrom
  <2>2. \A i \in 1..m : i >= after => i + k >= n
    BY <1>7
  <2>3. \A i \in 1..Len(commands') :
          i >= after /\ commands'[i].op = "set" => r \in ToSet(commands'[i].list)
    BY <1>4, <1>6, <2>2 DEF KeptFrom
  <2> HIDE DEF after
  <2> QED
    BY <1>1, <2>1, <2>3 DEF KeptFrom
<1>9. Kept(r)'
  BY <1>6, <1>7, <1>8 DEF Kept
<1>10. ASSUME NEW q \in Requests, r \in before'[q]
       PROVE  SeenBy(r, q)'
  <2>1. SeenBy(r, q) /\ pc'[q] # "body" /\ Len(replies') = 0
    BY <1>1, <1>10 DEF Seen
  <2> QED
    BY <1>1, <2>1 DEF SeenBy
<1> QED
  BY <1>9, <1>10 DEF Seen

(* Redis writes the message where it was to be written, and answers the     *)
(* gets that are behind that command from what it wrote.                    *)
LEMMA SeenExecution ==
  ASSUME TypeOK, NEW r \in Acked, Seen(r), RedisExecutes \/ RedisFailsGet
  PROVE  Seen(r)'
<1>1. /\ Len(commands) \in Nat \ {0} /\ Len(commands') = Len(commands) - 1
      /\ \A i \in 1..Len(commands) - 1 : commands'[i] = commands[i + 1]
      /\ UNCHANGED <<pc, journals, status, returned, up, before>>
  BY Executed DEF Left
<1>2. /\ 1 \in 1..Len(commands)
      /\ \A i \in 1..Len(commands') :
           i + 1 \in 1..Len(commands) /\ commands'[i] = commands[i + 1]
  BY <1>1
<1>3. PICK n \in 0..Len(commands) : KeptFrom(r, n)
  BY DEF Seen, Kept
<1>4. \/ commands[1].op = "set" /\ stored' = commands[1].list
      \/ commands[1].op = "get" /\ stored' = stored
  BY Executed
<1> DEFINE after == IF n = 0 THEN 0 ELSE n - 1
<1>5. /\ after \in 0..Len(commands')
      /\ after # 0 => after + 1 = n
      /\ after = 0 => n \in {0, 1}
  BY <1>1
<1>6. KeptFrom(r, after)'
  <2>1. CASE after = 0
    <3>1. r \in ToSet(stored')
      BY <1>2, <1>3, <1>4, <1>5, <2>1 DEF KeptFrom
    <3>2. \A i \in 1..Len(commands') :
            commands'[i].op = "set" => r \in ToSet(commands'[i].list)
      BY <1>2, <1>3, <1>5, <2>1 DEF KeptFrom
    <3>3. \A i \in 1..Len(commands') : ~(i <= 0)
      OBVIOUS
    <3> QED
      BY <2>1, <3>1, <3>2, <3>3 DEF KeptFrom
  <2>2. CASE after # 0
    <3>1. \A i \in 1..Len(commands') :
            /\ i >= after <=> i + 1 >= n
            /\ i <= after <=> i + 1 <= n
      BY <1>5, <2>2
    <3>2. commands'[after] = commands[n] /\ n # 0
      BY <1>2, <1>5, <2>2
    <3> HIDE DEF after
    <3> QED
      BY <1>1, <1>2, <1>3, <2>2, <3>1, <3>2 DEF KeptFrom
  <2> QED
    BY <2>1, <2>2
<1>7. Kept(r)'
  BY <1>5, <1>6 DEF Kept
<1>8. ASSUME NEW q \in Requests, r \in before'[q]
      PROVE  SeenBy(r, q)'
  <2>1. SeenBy(r, q)
    BY <1>1, <1>8 DEF Seen
  <2>2. CASE replies' = replies \/ replies' = <<>>
    BY <1>1, <2>1, <2>2 DEF SeenBy
  <2>3. ASSUME NEW a \in Reply, replies' = Append(replies, a), up,
               commands[1].op = "get", a.req = commands[1].req,
               a.op = "get" => a.list = stored
        PROVE  SeenBy(r, q)'
    <3>1. /\ Len(replies') = Len(replies) + 1 /\ Len(replies) \in Nat
          /\ \A i \in 1..Len(replies) : replies'[i] = replies[i]
          /\ replies'[Len(replies) + 1] = a
      BY <2>3, AppendFacts DEF TypeOK
    <3>2. \A i \in 1..Len(replies') : i \in 1..Len(replies) \/ i = Len(replies) + 1
      BY <3>1
    <3>3. a.req = q => n = 0
      <4>1. ASSUME a.req = q, n # 0
            PROVE  FALSE
        <5>1. 1 <= n /\ 1 \in 1..Len(commands)
          BY <1>2, <4>1
        <5>2. r \notin before[commands[1].req]
          BY <1>3, <2>3, <5>1 DEF KeptFrom
        <5> QED
          BY <1>1, <1>8, <2>3, <4>1, <5>2
      <4> QED
        BY <4>1
    <3>4. a.req = q /\ a.op = "get" => r \in ToSet(a.list)
      BY <1>3, <2>3, <3>3 DEF KeptFrom
    <3>5. \A i \in 1..Len(replies') :
            replies'[i].req = q /\ replies'[i].op = "get"
              => r \in ToSet(replies'[i].list)
      BY <2>1, <3>1, <3>2, <3>4 DEF SeenBy
    <3> QED
      BY <1>1, <2>1, <3>5 DEF SeenBy
  <2> QED
    BY <2>2, <2>3, Executed
<1> QED
  BY <1>7, <1>8 DEF Seen

LEMMA SeenStep ==
  ASSUME TypeOK, ConnectionOK, BeforeOK, SeenOK, [Next]_vars
  PROVE  SeenOK'
<1> SUFFICES ASSUME NEW r \in Acked', ~Excused(r)'
             PROVE  Seen(r)'
  BY DEF SeenOK
<1>1. r \in Requests
  BY DEF Acked
<1>2. CASE r \notin Acked
  BY <1>1, <1>2, AckedStep, SeenAcknowledged
<1>3. CASE r \in Acked
  <2>1. Seen(r)
    BY <1>1, <1>3, ExcusedStays DEF SeenOK
  <2>2. CASE Restart \/ Finished \/ UNCHANGED vars
    <3>1. CASE Finished \/ UNCHANGED vars
      BY <2>1, <3>1 DEF Finished, Seen, Kept, KeptFrom, SeenBy
    <3>2. CASE Restart
      BY <2>1, <3>2 DEF Restart, Seen, Kept, KeptFrom, SeenBy
    <3> QED
      BY <2>2, <3>1, <3>2
  <2>3. CASE RedisExecutes \/ RedisFailsGet
    BY <1>3, <2>1, <2>3, SeenExecution
  <2>4. CASE Dies
    BY <1>3, <2>1, <2>4, SeenDeath
  <2>5. ASSUME NEW p \in Requests, requestHandler(p) \/ getCallback(p) \/ bodyEnd(p)
        PROVE  Seen(r)'
    BY <1>3, <2>1, <2>5, SeenArrival, SeenDelivery, SeenPush
  <2> QED
    BY <2>2, <2>3, <2>4, <2>5 DEF Next, Callbacks, Dies
<1> QED
  BY <1>2, <1>3

-----------------------------------------------------------------------------
(* The theorems.                                                            *)

LEMMA JournalInit == Init => JournalInv
<1> SUFFICES ASSUME Init PROVE JournalInv
  OBVIOUS
<1>1. /\ commands = <<>> /\ replies = <<>> /\ stored = <<>>
      /\ \A q \in Requests : journals[q] = <<>> /\ before[q] = {} /\ status[q] = 0
  BY DEF Init
<1>2. Acked = {}
  BY <1>1 DEF Acked
<1>3. \A a, f : JournalOf(<<>>, a, f)
  BY DEF JournalOf
<1>4. JournalsOK
  BY <1>1, <1>3 DEF JournalsOK
<1>5. ConnectionOK
  BY <1>1 DEF ConnectionOK, RepliesOK, GetsOK, GetsWait, GetsOnce, GetsApart
<1>6. BeforeOK /\ SeenOK
  BY <1>1, <1>2 DEF BeforeOK, SeenOK
<1> QED
  BY <1>4, <1>5, <1>6, TypesInit DEF JournalInv

LEMMA JournalInvAlways == Spec => []JournalInv
<1>1. JournalInv /\ [Next]_vars => JournalInv'
  BY TypesStep, ConnectionStep, BeforeStep, JournalsStep, SeenStep DEF JournalInv
<1> QED
  BY <1>1, JournalInit, PTL DEF Spec

(* The server keeps its types, and a request is answered when it is over    *)
(* and not before: no reply of Redis reaches a request that has gone on.    *)
THEOREM TypeCorrect == Spec => []TypeOK
<1>1. JournalInv => TypeOK
  BY DEF JournalInv
<1> QED
  BY <1>1, JournalInvAlways, PTL

(* Whatever overlaps and whenever the process dies, a journal never holds a *)
(* message twice, nor before one that its request found acknowledged.       *)
THEOREM OrderIsKept == Spec => []JournalKeepsOrder
<1>1. JournalInv => JournalKeepsOrder
  BY DEF JournalInv, JournalsOK, JournalOf, JournalKeepsOrder
<1> QED
  BY <1>1, JournalInvAlways, PTL

(* A POST is acknowledged before Redis has it; still, who arrives later     *)
(* sees it, unless a concurrent POST or a death of the process lost it.     *)
THEOREM AcknowledgedIsSeen == Spec => []AckedIsSeen
<1>1. JournalInv => AckedIsSeen
  <2> SUFFICES ASSUME JournalInv, NEW q \in Requests, NEW r \in Requests,
                      status[q] = 200, r \in before[q]
               PROVE  r \in ToSet(returned[q]) \/ Excused(r)
    BY DEF AckedIsSeen, Excused
  <2>1. r \in Acked
    BY DEF JournalInv, BeforeOK
  <2> QED
    BY <2>1 DEF JournalInv, SeenOK, Seen, SeenBy
<1> QED
  BY <1>1, JournalInvAlways, PTL

-----------------------------------------------------------------------------
(* The journals the commands will store: facts of a recursive function, by  *)
(* the least number of commands that would refute them.                    *)

Earlier == {p \in Nat \X Nat : p[1] < p[2]}

LEMMA LeastElement ==
  ASSUME NEW S \in SUBSET Nat, S # {}
  PROVE  \E m \in S : \A x \in S : m <= x
<1>1. IsWellFoundedOn(Earlier, Nat)
  BY NatLessThanWellFounded DEF Earlier, OpToRel
<1>2. \E m \in S : \A x \in S : ~ (<<x, m>> \in Earlier)
  BY <1>1, WFMin
<1>3. \A x, m \in Nat : <<x, m>> \in Earlier <=> x < m
  BY DEF Earlier
<1>4. \A x, m \in Nat : ~ (x < m) => m <= x
  OBVIOUS
<1> QED
  BY <1>2, <1>3, <1>4

\* What is written once the n-th command is, given what the ones before write.
OneMore(cs, n, upTo) ==
  IF cs[n].op = "set" THEN Append(upTo[n - 1], cs[n].list) ELSE upTo[n - 1]

Grown(cs, n, upTo) ==
  upTo = [m \in 0..n |-> IF m = 0 THEN <<>> ELSE OneMore(cs, m, upTo)]

\* The same, one command at a time.
Steps(cs, n, upTo) ==
  /\ upTo[0] = <<>>
  /\ \A m \in 1..n : upTo[m] = OneMore(cs, m, upTo)

LEMMA GrownExists ==
  ASSUME NEW cs, NEW n \in Nat
  PROVE  \E upTo : Grown(cs, n, upTo)
<1> DEFINE Bad == {m \in Nat : ~ \E upTo : Grown(cs, m, upTo)}
<1> SUFFICES ASSUME Bad # {} PROVE FALSE
  OBVIOUS
<1>1. PICK k \in Bad : \A m \in Bad : k <= m
  BY LeastElement
<1>2. ~ \E upTo : Grown(cs, k, upTo)
  BY <1>1
<1>3. CASE k = 0
  <2> DEFINE f == [m \in 0..0 |-> <<>>]
  <2>1. Grown(cs, 0, f)
    BY DEF Grown
  <2> QED
    BY <1>2, <1>3, <2>1
<1>4. CASE k # 0
  <2>1. k \in Nat /\ k - 1 \in Nat /\ k - 1 \notin Bad
    BY <1>1, <1>4
  <2>2. PICK g : Grown(cs, k - 1, g)
    BY <2>1
  <2> DEFINE f == [m \in 0..k |-> IF m = k THEN OneMore(cs, k, g) ELSE g[m]]
  <2>3. ASSUME NEW m \in 0..k
        PROVE  f[m] = IF m = 0 THEN <<>> ELSE OneMore(cs, m, f)
    <3>1. CASE m = k
      <4>1. m # 0 /\ m - 1 \in 0..k /\ m - 1 # k
        BY <2>1, <1>4, <3>1
      <4>2. f[m - 1] = g[m - 1] /\ f[m] = OneMore(cs, m, g)
        BY <3>1, <4>1
      <4> HIDE DEF f
      <4> QED
        BY <4>1, <4>2 DEF OneMore
    <3>2. CASE m # k
      <4>1. m \in 0..(k - 1) /\ (m # 0 => m - 1 \in 0..k /\ m - 1 # k)
        BY <2>1, <3>2
      <4>2. g[m] = IF m = 0 THEN <<>> ELSE OneMore(cs, m, g)
        BY <2>2, <4>1 DEF Grown
      <4>3. f[m] = g[m] /\ (m # 0 => f[m - 1] = g[m - 1])
        BY <3>2, <4>1
      <4> HIDE DEF f
      <4> QED
        BY <4>2, <4>3 DEF OneMore
    <3> QED
      BY <3>1, <3>2
  <2>4. Grown(cs, k, f)
    BY <2>3 DEF Grown
  <2> QED
    BY <1>2, <2>4
<1> QED
  BY <1>3, <1>4

LEMMA WrittenSteps ==
  ASSUME NEW cs, NEW n \in Nat, n = Len(cs)
  PROVE  \E upTo : Steps(cs, n, upTo) /\ Written(cs) = upTo[n]
<1> DEFINE f == CHOOSE f : f = [m \in 0..Len(cs) |->
                  IF m = 0 THEN <<>>
                  ELSE IF cs[m].op = "set" THEN Append(f[m - 1], cs[m].list)
                  ELSE f[m - 1]]
<1>1. Written(cs) = f[Len(cs)]
  BY DEF Written
<1>2. PICK g : Grown(cs, n, g)
  BY GrownExists
<1>3. f = [m \in 0..Len(cs) |->
                  IF m = 0 THEN <<>>
                  ELSE IF cs[m].op = "set" THEN Append(f[m - 1], cs[m].list)
                  ELSE f[m - 1]]
  BY <1>2 DEF Grown, OneMore
<1> HIDE DEF f
<1>4. Steps(cs, n, f)
  <2>1. \A m \in 0..n : f[m] = IF m = 0 THEN <<>> ELSE OneMore(cs, m, f)
    BY <1>3 DEF OneMore
  <2>2. 0 \in 0..n /\ \A m \in 1..n : m \in 0..n /\ m # 0
    OBVIOUS
  <2> QED
    BY <2>1, <2>2 DEF Steps
<1> QED
  BY <1>1, <1>4

\* Lists that begin with the same n commands write the same with them.
LEMMA StepsAgree ==
  ASSUME NEW cs, NEW ds, NEW n \in Nat, NEW f, NEW g,
         Steps(cs, n, f), Steps(ds, n, g), \A m \in 1..n : cs[m] = ds[m]
  PROVE  \A m \in 0..n : f[m] = g[m]
<1> DEFINE Bad == {m \in 0..n : f[m] # g[m]}
<1> SUFFICES ASSUME Bad # {} PROVE FALSE
  OBVIOUS
<1>1. Bad \in SUBSET Nat
  OBVIOUS
<1>2. PICK k \in Bad : \A m \in Bad : k <= m
  BY <1>1, LeastElement
<1>3. k # 0
  BY <1>2 DEF Steps
<1>4. k \in 1..n /\ k - 1 \in 0..n /\ k - 1 \notin Bad
  BY <1>2, <1>3
<1>5. f[k - 1] = g[k - 1] /\ cs[k] = ds[k]
  BY <1>4
<1>6. f[k] = OneMore(cs, k, f) /\ g[k] = OneMore(ds, k, g)
  BY <1>4 DEF Steps
<1> QED
  BY <1>2, <1>5, <1>6 DEF OneMore

Lists == Seq(Requests)

LEMMA StepsType ==
  ASSUME NEW cs \in Seq(Command), NEW n \in Nat, n <= Len(cs),
         NEW f, Steps(cs, n, f)
  PROVE  \A m \in 0..n : f[m] \in Seq(Lists)
<1> DEFINE Bad == {m \in 0..n : f[m] \notin Seq(Lists)}
<1> SUFFICES ASSUME Bad # {} PROVE FALSE
  OBVIOUS
<1>1. Bad \in SUBSET Nat
  OBVIOUS
<1>2. PICK k \in Bad : \A m \in Bad : k <= m
  BY <1>1, LeastElement
<1>3. k # 0
  <2>1. <<>> \in Seq(Lists)
    OBVIOUS
  <2> QED
    BY <1>2, <2>1 DEF Steps
<1>4. k \in 1..n /\ k - 1 \in 0..n /\ k - 1 \notin Bad
  BY <1>2, <1>3
<1>5. f[k - 1] \in Seq(Lists) /\ f[k] = OneMore(cs, k, f)
  BY <1>4 DEF Steps
<1>6. cs[k].list \in Lists
  <2>1. cs[k] \in Command
    BY <1>4
  <2> QED
    BY <2>1 DEF Command, Lists
<1>7. Append(f[k - 1], cs[k].list) \in Seq(Lists)
  BY <1>5, <1>6, AppendFacts
<1> QED
  BY <1>2, <1>5, <1>7 DEF OneMore

LEMMA WrittenType ==
  ASSUME NEW cs \in Seq(Command)
  PROVE  Written(cs) \in Seq(Lists)
<1>1. PICK n \in Nat : n = Len(cs)
  OBVIOUS
<1>2. PICK f : Steps(cs, n, f) /\ Written(cs) = f[n]
  BY <1>1, WrittenSteps
<1>3. \A m \in 0..n : f[m] \in Seq(Lists)
  BY <1>1, <1>2, StepsType
<1> QED
  BY <1>2, <1>3

\* One command more at the end.
LEMMA WrittenLast ==
  ASSUME NEW cs \in Seq(Command), NEW ds \in Seq(Command), NEW n \in Nat,
         n = Len(cs), Len(ds) = n + 1, \A m \in 1..n : cs[m] = ds[m]
  PROVE  Written(ds) = IF ds[n + 1].op = "set"
                       THEN Append(Written(cs), ds[n + 1].list) ELSE Written(cs)
<1>1. PICK f : Steps(cs, n, f) /\ Written(cs) = f[n]
  BY WrittenSteps
<1>2. PICK g : Steps(ds, n + 1, g) /\ Written(ds) = g[n + 1]
  BY WrittenSteps
<1>3. Steps(ds, n, g)
  BY <1>2 DEF Steps
<1>4. f[n] = g[n]
  BY <1>1, <1>3, StepsAgree
<1>5. g[n + 1] = OneMore(ds, n + 1, g) /\ (n + 1) - 1 = n
  BY <1>2 DEF Steps
<1> QED
  BY <1>1, <1>2, <1>4, <1>5 DEF OneMore

LEMMA ConcatAppend ==
  ASSUME NEW s \in Seq(Lists), NEW t \in Seq(Lists), NEW e \in Lists
  PROVE  Append(s \o t, e) = s \o Append(t, e)
<1>1. /\ Append(s \o t, e) \in Seq(Lists) /\ s \o Append(t, e) \in Seq(Lists)
      /\ Len(Append(s \o t, e)) = Len(s \o Append(t, e))
  OBVIOUS
<1>2. \A i \in 1..Len(Append(s \o t, e)) :
        Append(s \o t, e)[i] = (s \o Append(t, e))[i]
  OBVIOUS
<1> QED
  BY <1>1, <1>2, SeqEqual

\* What the first command writes is written first.
LEMMA WrittenFirst ==
  ASSUME NEW cs \in Seq(Command), NEW ds \in Seq(Command), NEW n \in Nat,
         n = Len(ds), Len(cs) = n + 1, \A m \in 1..n : ds[m] = cs[m + 1]
  PROVE  Written(cs) = IF cs[1].op = "set"
                       THEN <<cs[1].list>> \o Written(ds) ELSE Written(ds)
<1> DEFINE front == IF cs[1].op = "set" THEN <<cs[1].list>> ELSE <<>>
<1>1. PICK g : Steps(ds, n, g) /\ Written(ds) = g[n]
  BY WrittenSteps
<1>2. PICK f : Steps(cs, n + 1, f) /\ Written(cs) = f[n + 1]
  BY WrittenSteps
<1>3. \A m \in 0..n : g[m] \in Seq(Lists)
  BY <1>1, StepsType
<1>4. cs[1].list \in Lists
  <2>1. cs[1] \in Command
    OBVIOUS
  <2> QED
    BY <2>1 DEF Command, Lists
<1>5. PICK fr \in Seq(Lists) : fr = front
  <2>1. PICK x \in Lists : x = cs[1].list
    BY <1>4
  <2>2. <<x>> \in Seq(Lists) /\ <<>> \in Seq(Lists)
    OBVIOUS
  <2> QED
    BY <2>1, <2>2
<1> DEFINE Bad == {m \in 0..n : f[m + 1] # fr \o g[m]}
<1>6. Bad = {}
  <2> SUFFICES ASSUME Bad # {} PROVE FALSE
    OBVIOUS
  <2>1. Bad \in SUBSET Nat
    OBVIOUS
  <2>2. PICK k \in Bad : \A m \in Bad : k <= m
    BY <2>1, LeastElement
  <2>3. CASE k = 0
    <3>1. f[1] = OneMore(cs, 1, f) /\ f[0] = <<>> /\ g[0] = <<>>
      BY <1>1, <1>2 DEF Steps
    <3>2. f[1] = fr
      <4>1. PICK x \in Lists : x = cs[1].list
        BY <1>4
      <4>2. Append(<<>>, x) = <<x>>
        OBVIOUS
      <4>3. f[1 - 1] = <<>>
        BY <3>1
      <4> QED
        BY <1>5, <3>1, <4>1, <4>2, <4>3 DEF OneMore
    <3>3. fr \o <<>> = fr
      OBVIOUS
    <3> QED
      BY <2>2, <2>3, <3>1, <3>2, <3>3
  <2>4. CASE k # 0
    <3>1. k \in 1..n /\ k - 1 \in 0..n /\ k - 1 \notin Bad /\ k + 1 \in 1..(n + 1)
      BY <2>2, <2>4
    <3>2. f[k] = fr \o g[k - 1]
      BY <3>1
    <3>3. /\ g[k] = OneMore(ds, k, g) /\ ds[k] = cs[k + 1]
          /\ f[k + 1] = OneMore(cs, k + 1, f) /\ (k + 1) - 1 = k
      BY <1>1, <1>2, <3>1 DEF Steps
    <3>4. PICK old \in Seq(Lists) : old = g[k - 1]
      BY <1>3, <3>1
    <3>5. CASE ds[k].op = "set"
      <4>1. PICK new \in Lists : new = ds[k].list
        <5>1. ds[k] \in Command
          BY <3>1
        <5> QED
          BY <5>1 DEF Command, Lists
      <4>2. f[k + 1] = Append(fr \o old, new) /\ g[k] = Append(old, new)
        BY <3>2, <3>3, <3>4, <3>5, <4>1 DEF OneMore
      <4>3. Append(fr \o old, new) = fr \o Append(old, new)
        BY ConcatAppend
      <4> QED
        BY <2>2, <4>2, <4>3
    <3>6. CASE ds[k].op # "set"
      BY <2>2, <3>2, <3>3, <3>6 DEF OneMore
    <3> QED
      BY <3>5, <3>6
  <2> QED
    BY <2>3, <2>4
<1>7. Written(cs) = fr \o Written(ds)
  <2>1. n \in 0..n /\ n \notin Bad
    BY <1>6
  <2> QED
    BY <1>1, <1>2, <2>1
<1>8. Written(ds) \in Seq(Lists)
  BY WrittenType
<1>9. <<>> \o Written(ds) = Written(ds)
  BY <1>8
<1> QED
  BY <1>5, <1>7, <1>9

\* A beginning of the commands writes a beginning of what they write.
LEMMA WrittenCut ==
  ASSUME NEW cs \in Seq(Command), NEW ds \in Seq(Command), NEW n \in Nat,
         n = Len(ds), n <= Len(cs), \A m \in 1..n : ds[m] = cs[m]
  PROVE  \E k \in 0..Len(Written(cs)) : Written(ds) = SubSeq(Written(cs), 1, k)
<1>1. PICK z \in Nat : z = Len(cs)
  OBVIOUS
<1>2. PICK f : Steps(cs, z, f) /\ Written(cs) = f[z]
  BY <1>1, WrittenSteps
<1>3. PICK g : Steps(ds, n, g) /\ Written(ds) = g[n]
  BY WrittenSteps
<1>4. Steps(cs, n, f)
  BY <1>1, <1>2 DEF Steps
<1>5. f[n] = g[n]
  BY <1>3, <1>4, StepsAgree
<1>6. \A m \in 0..z : f[m] \in Seq(Lists)
  BY <1>1, <1>2, StepsType
<1> DEFINE Cut(m) == \E k \in 0..Len(f[m]) : f[n] = SubSeq(f[m], 1, k)
           Bad == {m \in n..z : ~Cut(m)}
<1>7. Bad = {}
  <2> SUFFICES ASSUME Bad # {} PROVE FALSE
    OBVIOUS
  <2>1. Bad \in SUBSET Nat
    OBVIOUS
  <2>2. PICK b \in Bad : \A m \in Bad : b <= m
    BY <2>1, LeastElement
  <2>3. b \in n..z /\ b \in Nat /\ ~Cut(b)
    BY <2>2
  <2>4. CASE b = n
    <3>1. PICK w \in Seq(Lists) : w = f[n]
      BY <1>1, <1>6
    <3>2. w = SubSeq(w, 1, Len(w)) /\ Len(w) \in 0..Len(w)
      OBVIOUS
    <3> QED
      BY <2>3, <2>4, <3>1, <3>2
  <2>5. CASE b # n
    <3>0. b - 1 \in n..z /\ b \in 1..z /\ b - 1 \in 0..z /\ ~(b <= b - 1)
      BY <1>1, <2>3, <2>5
    <3>1. b - 1 \in n..z /\ b - 1 \notin Bad /\ b \in 1..z /\ b - 1 \in 0..z
      BY <2>2, <3>0
    <3>2. PICK k \in 0..Len(f[b - 1]) : f[n] = SubSeq(f[b - 1], 1, k)
      BY <3>1
    <3>3. f[b] = OneMore(cs, b, f)
      BY <1>2, <3>1 DEF Steps
    <3>4. CASE cs[b].op # "set"
      BY <2>3, <3>2, <3>3, <3>4 DEF OneMore
    <3>5. CASE cs[b].op = "set"
      <4>1. PICK old \in Seq(Lists) : old = f[b - 1]
        BY <1>6, <3>1
      <4>2. PICK new \in Lists : new = cs[b].list
        <5>1. cs[b] \in Command
          BY <1>1, <3>1
        <5> QED
          BY <5>1 DEF Command, Lists
      <4>3. f[b] = Append(old, new)
        BY <3>3, <3>5, <4>1, <4>2 DEF OneMore
      <4>4. /\ SubSeq(Append(old, new), 1, k) = SubSeq(old, 1, k)
            /\ k \in 0..Len(Append(old, new))
        BY <3>2, <4>1
      <4> QED
        BY <2>3, <3>2, <4>1, <4>3, <4>4
    <3> QED
      BY <3>4, <3>5
  <2> QED
    BY <2>4, <2>5
<1>8. z \in n..z
  BY <1>1
<1> QED
  BY <1>2, <1>3, <1>5, <1>7, <1>8

-----------------------------------------------------------------------------
(* What a request sees: the list it will find, has found or has been told.  *)

Held(list, written) == IF written = <<>> THEN list ELSE Last(written)
After(cs, list, i) == Held(list, Written(SubSeq(cs, 1, i)))

LEMMA StoredAfterIs ==
  /\ \A i : StoredAfter(i) = After(commands, stored, i)
  /\ \A i : StoredAfter(i)' = After(commands', stored', i)
BY DEF StoredAfter, After, Held

LEMMA BeginsAgree ==
  ASSUME NEW cs \in Seq(Command), NEW ds \in Seq(Command), NEW i \in Nat,
         i <= Len(cs), i <= Len(ds), \A m \in 1..i : cs[m] = ds[m]
  PROVE  SubSeq(cs, 1, i) = SubSeq(ds, 1, i)
<1>1. /\ SubSeq(cs, 1, i) \in Seq(Command) /\ Len(SubSeq(cs, 1, i)) = i
      /\ \A m \in 1..i : SubSeq(cs, 1, i)[m] = cs[m]
  BY CutFacts
<1>2. /\ SubSeq(ds, 1, i) \in Seq(Command) /\ Len(SubSeq(ds, 1, i)) = i
      /\ \A m \in 1..i : SubSeq(ds, 1, i)[m] = ds[m]
  BY CutFacts
<1>3. \A m \in 1..i : SubSeq(cs, 1, i)[m] = SubSeq(ds, 1, i)[m]
  BY <1>1, <1>2
<1> QED
  BY <1>1, <1>2, <1>3, SeqEqual

\* After all the commands, Redis holds what was written last.
LEMMA AfterAll ==
  ASSUME NEW cs \in Seq(Command), NEW list
  PROVE  After(cs, list, Len(cs)) = Held(list, Written(cs))
<1>1. SubSeq(cs, 1, Len(cs)) = cs
  OBVIOUS
<1> QED
  BY <1>1 DEF After

LEMMA HeldFirst ==
  ASSUME NEW w \in Seq(Lists), NEW first \in Lists, NEW list
  PROVE  Held(list, <<first>> \o w) = Held(first, w)
<1>1. /\ <<first>> \o w # <<>>
      /\ w = <<>> => Last(<<first>> \o w) = first
      /\ w # <<>> => Last(<<first>> \o w) = Last(w)
  BY DEF Last
<1> QED
  BY <1>1 DEF Held

\* A command has the same effect whether the first one is executed or not.
LEMMA AfterFirst ==
  ASSUME NEW cs \in Seq(Command), NEW ds \in Seq(Command), NEW n \in Nat,
         n = Len(ds), Len(cs) = n + 1, \A m \in 1..n : ds[m] = cs[m + 1],
         NEW list, NEW i \in 0..n
  PROVE  After(cs, list, i + 1) =
           IF cs[1].op = "set" THEN After(ds, cs[1].list, i) ELSE After(ds, list, i)
<1>1. PICK b \in Seq(Command) : /\ b = SubSeq(cs, 1, i + 1) /\ Len(b) = i + 1
                                /\ \A m \in 1..i + 1 : b[m] = cs[m]
  <2>1. PICK k \in 0..Len(cs) : k = i + 1
    OBVIOUS
  <2>2. /\ SubSeq(cs, 1, k) \in Seq(Command) /\ Len(SubSeq(cs, 1, k)) = k
        /\ \A m \in 1..k : SubSeq(cs, 1, k)[m] = cs[m]
    BY CutFacts
  <2> QED
    BY <2>1, <2>2
<1>2. PICK e \in Seq(Command) : /\ e = SubSeq(ds, 1, i) /\ Len(e) = i
                                /\ \A m \in 1..i : e[m] = ds[m]
  <2>1. i \in 0..Len(ds)
    OBVIOUS
  <2>2. /\ SubSeq(ds, 1, i) \in Seq(Command) /\ Len(SubSeq(ds, 1, i)) = i
        /\ \A m \in 1..i : SubSeq(ds, 1, i)[m] = ds[m]
    BY <2>1, CutFacts
  <2> QED
    BY <2>2
<1>3. /\ b[1] = cs[1] /\ i \in Nat
      /\ \A m \in 1..i : e[m] = b[m + 1]
  BY <1>1, <1>2
<1>4. Written(b) = IF b[1].op = "set" THEN <<b[1].list>> \o Written(e) ELSE Written(e)
  BY <1>1, <1>2, <1>3, WrittenFirst
<1>5. Written(e) \in Seq(Lists)
  BY WrittenType
<1>6. cs[1].list \in Lists
  <2>1. cs[1] \in Command
    OBVIOUS
  <2> QED
    BY <2>1 DEF Command, Lists
<1>7. CASE cs[1].op = "set"
  <2>1. Held(list, <<cs[1].list>> \o Written(e)) = Held(cs[1].list, Written(e))
    BY <1>5, <1>6, HeldFirst
  <2> QED
    BY <1>1, <1>2, <1>3, <1>4, <1>7, <2>1 DEF After
<1>8. CASE cs[1].op # "set"
  BY <1>1, <1>2, <1>3, <1>4, <1>8 DEF After
<1> QED
  BY <1>7, <1>8

\* A get that is first in line finds what is stored.
LEMMA AfterNothing ==
  ASSUME NEW cs \in Seq(Command), NEW list
  PROVE  After(cs, list, 0) = list
<1>1. PICK b \in Seq(Command) : b = SubSeq(cs, 1, 0) /\ Len(b) = 0
  <2>1. 0 \in 0..Len(cs)
    OBVIOUS
  <2> QED
    BY <2>1, CutFacts
<1>2. PICK f : Steps(b, 0, f) /\ Written(b) = f[0]
  BY <1>1, WrittenSteps
<1>3. Written(b) = <<>>
  BY <1>2 DEF Steps
<1> QED
  BY <1>1, <1>3 DEF After, Held

AskedAt(q) == {j \in 1..Len(commands) :
                 commands[j].op = "get" /\ commands[j].req = q}
Finds(q) == {StoredAfter(i) : i \in AskedAt(q)}

ToldAt(q) == {j \in 1..Len(replies) :
                replies[j].op = "get" /\ replies[j].req = q}
Tells(q) == {replies[i].list : i \in ToldAt(q)}

Reads(q) == IF pc[q] = "body" THEN {journals[q]} ELSE {}

Failing(q) == \E i \in 1..Len(replies) :
                replies[i].op = "error" /\ replies[i].req = q

OneOf(S) == CHOOSE l \in S : TRUE
View(q) == IF Phase(q) = "reading" THEN OneOf(Sights(q)) ELSE <<>>

LEMMA SightsAre ==
  /\ \A q : Sights(q) = Finds(q) \cup Tells(q) \cup Reads(q)
  /\ \A q : Sights(q)' = Finds(q)' \cup Tells(q)' \cup Reads(q)'
BY DEF Sights, Finds, AskedAt, Tells, ToldAt, Reads

LEMMA PhaseIs ==
  /\ \A q : Phase(q) = IF pc[q] \in {"get", "body"}
                       THEN IF Failing(q) THEN "failed" ELSE "reading" ELSE pc[q]
  /\ \A q : Phase(q)' = IF pc'[q] \in {"get", "body"}
                        THEN IF Failing(q)' THEN "failed" ELSE "reading" ELSE pc'[q]
BY DEF Phase, Failing

LEMMA SameView ==
  ASSUME NEW q, Phase(q)' = Phase(q), Phase(q) = "reading" => Sights(q)' = Sights(q)
  PROVE  View(q)' = View(q)
BY DEF View

(* A command more in line changes nothing for those before it.              *)
LEMMA FindsSent ==
  ASSUME TypeOK, NEW op, NEW r, NEW list, Sent(op, r, list), NEW q
  PROVE  /\ op # "get" \/ q # r => Finds(q)' = Finds(q)
         /\ op = "get" => Finds(r)' = Finds(r) \cup {Held(stored, Unsaved)}
<1>1. PICK n \in Nat : n = Len(commands)
  BY DEF Sent
<1>2. PICK cs \in Seq(Command) : cs = commands
  BY DEF TypeOK
<1>3. PICK ds \in Seq(Command) : ds = commands'
  BY DEF Sent
<1>4. /\ Len(cs) = n /\ Len(ds) = n + 1 /\ \A i \in 1..n : ds[i] = cs[i]
      /\ ds[n + 1] = [op |-> op, req |-> r, list |-> list]
      /\ stored' = stored
  BY <1>1, <1>2, <1>3 DEF Sent
<1>5. ASSUME NEW i \in 1..n
      PROVE  StoredAfter(i)' = StoredAfter(i)
  <2>1. SubSeq(cs, 1, i) = SubSeq(ds, 1, i)
    BY <1>4, BeginsAgree
  <2> QED
    BY <1>2, <1>3, <1>4, <2>1, StoredAfterIs DEF After
<1>6. op = "get" => StoredAfter(n + 1)' = Held(stored, Unsaved)
  <2>1. After(ds, stored, n + 1) = Held(stored, Written(ds))
    BY <1>4, AfterAll
  <2>2. op = "get" => Written(ds) = Written(cs)
    BY <1>4, WrittenLast
  <2> QED
    BY <1>2, <1>3, <1>4, <2>1, <2>2, StoredAfterIs DEF Unsaved
<1>7. AskedAt(q)' = AskedAt(q) \cup (IF op = "get" /\ r = q THEN {n + 1} ELSE {})
  <2>1. \A i \in 1..n + 1 : i \in 1..n \/ i = n + 1
    OBVIOUS
  <2>2. AskedAt(q)' = {j \in 1..n + 1 : ds[j].op = "get" /\ ds[j].req = q}
    BY <1>3, <1>4 DEF AskedAt
  <2>3. AskedAt(q) = {j \in 1..n : cs[j].op = "get" /\ cs[j].req = q}
    BY <1>2, <1>4 DEF AskedAt
  <2> QED
    BY <1>4, <2>1, <2>2, <2>3
<1>8. AskedAt(q) \subseteq 1..n
  BY <1>1 DEF AskedAt
<1>9. Finds(q)' = {StoredAfter(i)' : i \in AskedAt(q)'}
  BY DEF Finds
<1>10. {StoredAfter(i)' : i \in AskedAt(q)} = Finds(q)
  BY <1>5, <1>8 DEF Finds
<1>11. op # "get" \/ q # r => Finds(q)' = Finds(q)
  BY <1>7, <1>9, <1>10
<1>12. ASSUME op = "get"
       PROVE  Finds(r)' = Finds(r) \cup {Held(stored, Unsaved)}
  <2>1. AskedAt(r)' = AskedAt(r) \cup {n + 1}
    <3>1. \A i \in 1..n + 1 : i \in 1..n \/ i = n + 1
      OBVIOUS
    <3>2. AskedAt(r)' = {j \in 1..n + 1 : ds[j].op = "get" /\ ds[j].req = r}
      BY <1>3, <1>4 DEF AskedAt
    <3>3. AskedAt(r) = {j \in 1..n : cs[j].op = "get" /\ cs[j].req = r}
      BY <1>2, <1>4 DEF AskedAt
    <3> QED
      BY <1>4, <1>12, <3>1, <3>2, <3>3
  <2>2. AskedAt(r) \subseteq 1..n
    BY <1>1 DEF AskedAt
  <2>3. Finds(r)' = {StoredAfter(i)' : i \in AskedAt(r)'}
    BY DEF Finds
  <2>4. {StoredAfter(i)' : i \in AskedAt(r)} = Finds(r)
    BY <1>5, <2>2 DEF Finds
  <2> QED
    BY <1>6, <1>12, <2>1, <2>3, <2>4
<1> QED
  BY <1>11, <1>12

(* Executing a command changes nothing that the gets behind it will find.   *)
LEMMA FindsExecuted ==
  ASSUME TypeOK, RedisExecutes \/ RedisFailsGet, NEW q
  PROVE  IF commands[1].op = "get" /\ commands[1].req = q
         THEN Finds(q) = Finds(q)' \cup {stored}
         ELSE Finds(q)' = Finds(q)
<1>1. PICK n \in Nat : Len(commands) = n + 1
  <2>1. Len(commands) - 1 \in Nat /\ Len(commands) = (Len(commands) - 1) + 1
    BY Executed
  <2> QED
    BY <2>1
<1>2. PICK cs \in Seq(Command) : cs = commands
  BY DEF TypeOK
<1>3. PICK ds \in Seq(Command) : ds = commands'
  BY Executed DEF Left
<1>4. /\ Len(cs) = n + 1 /\ Len(ds) = n /\ \A i \in 1..n : ds[i] = cs[i + 1]
      /\ \/ cs[1].op = "set" /\ stored' = cs[1].list
         \/ cs[1].op = "get" /\ stored' = stored
  BY <1>1, <1>2, <1>3, Executed DEF Left
<1>5. ASSUME NEW i \in 0..n
      PROVE  StoredAfter(i + 1) = StoredAfter(i)'
  BY <1>2, <1>3, <1>4, AfterFirst, StoredAfterIs
<1>6. cs[1].op = "get" => StoredAfter(1) = stored
  <2>1. After(ds, stored, 0) = stored
    BY AfterNothing
  <2>2. 0 \in 0..n /\ 0 + 1 = 1
    OBVIOUS
  <2>3. StoredAfter(1) = StoredAfter(0)'
    BY <1>5, <2>2
  <2> QED
    BY <1>3, <1>4, <2>1, <2>3, StoredAfterIs
<1>7. /\ AskedAt(q) = {j \in 1..n + 1 : cs[j].op = "get" /\ cs[j].req = q}
      /\ AskedAt(q)' = {j \in 1..n : ds[j].op = "get" /\ ds[j].req = q}
  BY <1>2, <1>3, <1>4 DEF AskedAt
<1>8. /\ \A j \in AskedAt(q)' : j \in 0..n /\ j + 1 \in AskedAt(q)
      /\ \A j \in AskedAt(q) : j = 1 \/ (j - 1 \in AskedAt(q)' /\ j - 1 \in 0..n)
      /\ 1 \in AskedAt(q) <=> cs[1].op = "get" /\ cs[1].req = q
  BY <1>4, <1>7
<1>9. Finds(q)' = {StoredAfter(i)' : i \in AskedAt(q)'}
  BY DEF Finds
<1>10. Finds(q)' \subseteq Finds(q)
  <2>1. \A j \in AskedAt(q)' : StoredAfter(j)' = StoredAfter(j + 1)
    BY <1>5, <1>8
  <2> QED
    BY <1>8, <1>9, <2>1 DEF Finds
<1>11. Finds(q) \subseteq Finds(q)' \cup (IF 1 \in AskedAt(q) THEN {StoredAfter(1)} ELSE {})
  <2>1. ASSUME NEW j \in AskedAt(q), j # 1
        PROVE  StoredAfter(j) \in Finds(q)'
    <3>1. j - 1 \in AskedAt(q)' /\ j - 1 \in 0..n /\ (j - 1) + 1 = j
      BY <1>7, <1>8, <2>1
    <3>2. StoredAfter(j) = StoredAfter(j - 1)'
      BY <1>5, <3>1
    <3> QED
      BY <1>9, <3>1, <3>2
  <2> QED
    BY <2>1 DEF Finds
<1>12. 1 \in AskedAt(q) => StoredAfter(1) \in Finds(q)
  BY DEF Finds
<1>13. CASE 1 \in AskedAt(q)
  <2>1. StoredAfter(1) = stored
    BY <1>6, <1>8, <1>13
  <2>2. Finds(q) = Finds(q)' \cup {stored}
    BY <1>10, <1>11, <1>12, <1>13, <2>1
  <2> QED
    BY <1>2, <1>8, <1>13, <2>2
<1>14. CASE 1 \notin AskedAt(q)
  <2>1. Finds(q)' = Finds(q)
    BY <1>10, <1>11, <1>14
  <2> QED
    BY <1>2, <1>8, <1>14, <2>1
<1> QED
  BY <1>13, <1>14

-----------------------------------------------------------------------------
(* JournalServer implements Journal.                                        *)

\* Only a process that runs has requests in progress.
Attended == \A q \in Requests : pc[q] \in {"get", "body"} => up

AtomicInv == JournalInv /\ Attended

\* The step is one of Journal's, or one it does not see.
Refines == Atomic!Next \/ UNCHANGED Atomic!abstractVars

LEMMA AttendedStep ==
  ASSUME TypeOK, Attended, [Next]_vars
  PROVE  Attended'
<1>t. pc \in [Requests -> {"new", "get", "body", "done", "cut"}]
  BY DEF TypeOK
<1>1. ASSUME NEW r \in Requests, requestHandler(r) PROVE Attended'
  BY <1>1, Arrived DEF Attended
<1>2. ASSUME NEW r \in Requests, getCallback(r) PROVE Attended'
  BY <1>2, Delivered DEF Attended
<1>3. ASSUME NEW r \in Requests, bodyEnd(r) PROVE Attended'
  BY <1>3, Pushed DEF Attended
<1>4. CASE Dies
  <2>1. \A q \in Requests : pc'[q] \notin {"get", "body"}
    BY <1>t, <1>4, Death
  <2> QED
    BY <2>1 DEF Attended
<1>5. CASE RedisExecutes \/ RedisFailsGet
  BY <1>5, Executed DEF Attended
<1>6. CASE Restart \/ Finished \/ UNCHANGED vars
  BY <1>6 DEF Restart, Finished, Attended
<1> QED
  BY <1>1, <1>2, <1>3, <1>4, <1>5, <1>6 DEF Next, Callbacks, Dies

LEMMA InViewIs ==
  /\ InView = [q \in Requests |-> View(q)]
  /\ InView' = [q \in Requests |-> View(q)']
  /\ Phases = [q \in Requests |-> Phase(q)]
  /\ Phases' = [q \in Requests |-> Phase(q)']
BY DEF InView, View, OneOf, Phases

\* A step that concerns r alone.
LEMMA OnlyOne ==
  ASSUME NEW r \in Requests,
         \A q \in Requests \ {r} : Phase(q)' = Phase(q) /\ View(q)' = View(q)
  PROVE  /\ Phases' = [Phases EXCEPT ![r] = Phase(r)']
         /\ InView' = [InView EXCEPT ![r] = View(r)']
BY InViewIs

\* A step that concerns nobody.
LEMMA Nobody ==
  ASSUME \A q \in Requests : Phase(q)' = Phase(q) /\ View(q)' = View(q)
  PROVE  Phases' = Phases /\ InView' = InView
BY InViewIs

\* What concerns q neither moves it nor changes what it sees.
LEMMA Untouched ==
  ASSUME NEW q, pc'[q] = pc[q], journals'[q] = journals[q],
         Finds(q)' = Finds(q), Tells(q)' = Tells(q), Failing(q)' = Failing(q)
  PROVE  Phase(q)' = Phase(q) /\ View(q)' = View(q)
<1>1. Reads(q)' = Reads(q)
  BY DEF Reads
<1>2. Sights(q)' = Sights(q)
  BY <1>1, SightsAre
<1>3. Phase(q)' = Phase(q)
  BY PhaseIs
<1> QED
  BY <1>2, <1>3, SameView

LEMMA AnswerIs ==
  ASSUME NEW r \in Requests, NEW code, NEW list, Respond(r, code, list),
         TypeOK,
         \A q \in Requests \ {r} : Phase(q)' = Phase(q) /\ View(q)' = View(q)
  PROVE  Atomic!Answer(r, code, list)
<1>1. pc'[r] = "done"
  BY DEF Respond, TypeOK
<1>2. Phase(r)' = "done"
  BY <1>1, PhaseIs
<1>3. View(r)' = <<>>
  BY <1>2 DEF View
<1>4. /\ Phases' = [Phases EXCEPT ![r] = "done"]
      /\ InView' = [InView EXCEPT ![r] = <<>>]
  BY <1>2, <1>3, OnlyOne
<1> QED
  BY <1>4 DEF Respond, Atomic!Answer

LEMMA SameReplies ==
  ASSUME replies' = replies, NEW q
  PROVE  Tells(q)' = Tells(q) /\ Failing(q)' = Failing(q)
BY DEF Tells, ToldAt, Failing

LEMMA SameCommands ==
  ASSUME commands' = commands, stored' = stored, NEW q
  PROVE  Finds(q)' = Finds(q)
BY DEF Finds, AskedAt, StoredAfter

LEMMA ArrivalRefines ==
  ASSUME AtomicInv, NEW r \in Requests, requestHandler(r)
  PROVE  Refines
<1>1. /\ up /\ pc[r] = "new" /\ TypeOK /\ ConnectionOK
      /\ UNCHANGED <<kind, journals, replies, stored>>
  BY Arrived DEF AtomicInv, JournalInv
<1>2. Phase(r) = "new"
  BY <1>1, PhaseIs
<1>3. \A q : Tells(q)' = Tells(q) /\ Failing(q)' = Failing(q)
  BY <1>1, SameReplies
<1>4. Phases[r] = "new"
  BY <1>2, InViewIs
<1>5. ASSUME NEW code, Respond(r, code, <<>>), UNCHANGED redisVars,
             \/ kind[r] = "badPath" /\ code = 404
             \/ kind[r] = "badMethod" /\ code = 400
      PROVE  Refines
  <2>1. \A q \in Requests \ {r} : Phase(q)' = Phase(q) /\ View(q)' = View(q)
    <3>1. \A q \in Requests \ {r} : pc'[q] = pc[q]
      BY <1>1, <1>5 DEF Respond, TypeOK
    <3>2. \A q : Finds(q)' = Finds(q)
      BY <1>5, SameCommands
    <3> QED
      BY <1>1, <1>3, <3>1, <3>2, Untouched
  <2>2. Atomic!Answer(r, code, <<>>)
    BY <1>1, <1>5, <2>1, AnswerIs
  <2>3. Unsaved' = Unsaved
    BY <1>5 DEF Unsaved
  <2>4. Atomic!Refuse(r)
    BY <1>1, <1>4, <1>5, <2>2, <2>3 DEF Atomic!Refuse
  <2> QED
    BY <2>4 DEF Refines, Atomic!Next
<1>6. ASSUME pc' = [pc EXCEPT ![r] = "get"], Send("get", r, <<>>),
             UNCHANGED <<status, returned>>, kind[r] = "GET" \/ IsPost(r)
      PROVE  Refines
  <2>1. Sent("get", r, <<>>)
    <3>1. <<>> \in Seq(Requests)
      OBVIOUS
    <3> QED
      BY <1>1, <1>6, <3>1, SendFacts
  <2>2. \A q \in Requests \ {r} : pc'[q] = pc[q]
    BY <1>1, <1>6 DEF TypeOK
  <2>3. \A q \in Requests \ {r} : Phase(q)' = Phase(q) /\ View(q)' = View(q)
    <3>1. \A q \in Requests \ {r} : Finds(q)' = Finds(q)
      BY <1>1, <2>1, FindsSent
    <3> QED
      BY <1>1, <1>3, <2>2, <3>1, Untouched
  <2>4. pc'[r] = "get"
    BY <1>1, <1>6 DEF TypeOK
  <2>5. ~Failing(r) /\ Tells(r) = {}
    BY <1>1 DEF ConnectionOK, RepliesOK, Failing, Tells, ToldAt
  <2>6. Finds(r) = {}
    BY <1>1 DEF ConnectionOK, GetsOK, GetsWait, Finds, AskedAt
  <2>7. Phase(r)' = "reading"
    BY <1>3, <2>4, <2>5, PhaseIs
  <2>8. Sights(r)' = {Held(stored, Unsaved)}
    <3>1. Finds(r)' = {Held(stored, Unsaved)}
      BY <1>1, <2>1, <2>6, FindsSent
    <3>2. Reads(r)' = {} /\ Tells(r)' = {}
      BY <1>3, <2>4, <2>5 DEF Reads
    <3> QED
      BY <3>1, <3>2, SightsAre
  <2>9. View(r)' = Held(stored, Unsaved)
    BY <2>7, <2>8 DEF View, OneOf
  <2>10. /\ Phases' = [Phases EXCEPT ![r] = "reading"]
         /\ InView' = [InView EXCEPT ![r] = Held(stored, Unsaved)]
    BY <2>3, <2>7, <2>9, OnlyOne
  <2>11. Unsaved' = Unsaved
    <3>1. PICK n \in Nat : n = Len(commands)
      BY <2>1 DEF Sent
    <3>2. /\ commands \in Seq(Command) /\ commands' \in Seq(Command)
          /\ Len(commands') = n + 1 /\ commands'[n + 1].op = "get"
          /\ \A m \in 1..n : commands[m] = commands'[m]
      BY <1>1, <2>1, <3>1 DEF TypeOK, Sent
    <3>3. Written(commands') = Written(commands)
      BY <3>1, <3>2, WrittenLast
    <3> QED
      BY <3>3 DEF Unsaved
  <2>12. kind[r] \in {"GET", "POST", "badPOST"}
    BY <1>6 DEF IsPost
  <2>13. Atomic!Latest = Held(stored, Unsaved)
    BY DEF Atomic!Latest, Atomic!Last, Held, Last
  <2>14. Atomic!Arrive(r)
    BY <1>1, <1>4, <1>6, <2>10, <2>11, <2>12, <2>13 DEF Atomic!Arrive
  <2> QED
    BY <2>14 DEF Refines, Atomic!Next
<1> QED
  BY <1>1, <1>5, <1>6 DEF requestHandler

LEMMA DeliveryRefines ==
  ASSUME AtomicInv, NEW r \in Requests, getCallback(r)
  PROVE  Refines
<1>1. /\ TypeOK /\ ConnectionOK /\ up
      /\ replies[1].req = r /\ Len(replies) \in Nat \ {0}
      /\ Len(replies') = Len(replies) - 1
      /\ \A i \in 1..Len(replies) - 1 : replies'[i] = replies[i + 1]
      /\ journals' = [journals EXCEPT ![r] = replies[1].list]
      /\ UNCHANGED <<kind, commands, stored>>
  BY Delivered DEF AtomicInv, JournalInv
<1>2. \A q : Finds(q)' = Finds(q)
  BY <1>1, SameCommands
<1>3. /\ \A i \in 1..Len(replies') : i + 1 \in 1..Len(replies) /\ replies'[i] = replies[i + 1]
      /\ \A i \in 1..Len(replies) : i = 1 \/ (i - 1 \in 1..Len(replies')
                                              /\ replies'[i - 1] = replies[i])
  BY <1>1
<1>4. \A q \in Requests \ {r} : Tells(q)' = Tells(q) /\ Failing(q)' = Failing(q)
  <2>1. ASSUME NEW q \in Requests \ {r}
        PROVE  Tells(q)' = Tells(q) /\ Failing(q)' = Failing(q)
    <3>1. Tells(q)' = {replies'[i].list : i \in ToldAt(q)'}
      BY DEF Tells
    <3>2. \A i \in ToldAt(q)' : i + 1 \in ToldAt(q) /\ replies'[i] = replies[i + 1]
      BY <1>3 DEF ToldAt
    <3>3. \A i \in ToldAt(q) : i - 1 \in ToldAt(q)' /\ replies'[i - 1] = replies[i]
      BY <1>1, <1>3 DEF ToldAt
    <3>4. Tells(q)' = Tells(q)
      BY <3>1, <3>2, <3>3 DEF Tells
    <3>5. Failing(q)' => Failing(q)
      BY <1>3 DEF Failing
    <3>6. Failing(q) => Failing(q)'
      BY <1>1, <1>3 DEF Failing
    <3> QED
      BY <3>4, <3>5, <3>6 DEF Failing
  <2> QED
    BY <2>1
<1>5. \A q \in Requests \ {r} : pc'[q] = pc[q] /\ journals'[q] = journals[q]
  <2>1. \E to : pc' = [pc EXCEPT ![r] = to]
    BY <1>1, Delivered DEF Respond
  <2> QED
    BY <1>1, <2>1 DEF TypeOK
<1>6. \A q \in Requests \ {r} : Phase(q)' = Phase(q) /\ View(q)' = View(q)
  BY <1>2, <1>4, <1>5, Untouched
<1>7. pc[r] = "get" /\ 1 \in 1..Len(replies)
  BY <1>1 DEF ConnectionOK, RepliesOK
<1>8. \A i \in 1..Len(replies) : replies[i].req = r => i = 1
  BY <1>1, <1>7 DEF ConnectionOK, RepliesOK
<1>9. Finds(r) = {} /\ Reads(r) = {}
  BY <1>1, <1>7 DEF ConnectionOK, GetsOK, GetsApart, Finds, AskedAt, Reads
<1>10. Unsaved' = Unsaved
  BY <1>1 DEF Unsaved
<1>11. ASSUME replies[1].op = "error", Respond(r, 500, <<>>)
       PROVE  Refines
  <2>1. Phase(r) = "failed"
    BY <1>1, <1>7, <1>11, PhaseIs DEF Failing
  <2>2. Atomic!Answer(r, 500, <<>>)
    BY <1>1, <1>6, <1>11, AnswerIs
  <2>3. Phases[r] = "failed"
    BY <2>1, InViewIs
  <2>4. Atomic!GiveUp(r)
    BY <1>1, <1>10, <2>2, <2>3 DEF Atomic!GiveUp
  <2> QED
    BY <2>4 DEF Refines, Atomic!Next
<1>12. ASSUME replies[1].op = "get"
       PROVE  /\ Phase(r) = "reading" /\ View(r) = replies[1].list
              /\ Phases[r] = "reading" /\ InView[r] = replies[1].list
  <2>1. ~Failing(r)
    BY <1>8, <1>12 DEF Failing
  <2>2. ToldAt(r) = {1}
    BY <1>1, <1>7, <1>8, <1>12 DEF ToldAt
  <2>3. Sights(r) = {replies[1].list}
    BY <1>9, <2>2, SightsAre DEF Tells
  <2>4. Phase(r) = "reading"
    BY <1>7, <2>1, PhaseIs
  <2>5. View(r) = replies[1].list
    BY <2>3, <2>4 DEF View, OneOf
  <2> QED
    BY <2>4, <2>5, InViewIs
<1>13. ASSUME replies[1].op = "get", kind[r] = "GET", Respond(r, 200, replies[1].list)
       PROVE  Refines
  <2>1. Atomic!Answer(r, 200, replies[1].list)
    BY <1>1, <1>6, <1>13, AnswerIs
  <2>2. Atomic!Read(r)
    BY <1>1, <1>10, <1>12, <1>13, <2>1 DEF Atomic!Read
  <2> QED
    BY <2>2 DEF Refines, Atomic!Next
<1>14. ASSUME replies[1].op = "get", pc' = [pc EXCEPT ![r] = "body"],
              UNCHANGED <<status, returned>>
       PROVE  Refines
  <2>1. pc'[r] = "body" /\ journals'[r] = replies[1].list
    BY <1>1, <1>14 DEF TypeOK
  <2>2. \A i \in 1..Len(replies') : replies'[i].req # r
    <3>1. \A i \in 1..Len(replies') : i + 1 # 1
      BY <1>1
    <3> QED
      BY <1>3, <1>8, <3>1
  <2>3. ~Failing(r)' /\ Tells(r)' = {}
    BY <2>2 DEF Failing, Tells, ToldAt
  <2>4. Sights(r)' = {replies[1].list}
    BY <1>2, <1>9, <2>1, <2>3, SightsAre DEF Reads
  <2>5. Phase(r)' = "reading"
    BY <2>1, <2>3, PhaseIs
  <2>6. View(r)' = replies[1].list
    BY <2>4, <2>5 DEF View, OneOf
  <2>7. \A q \in Requests : Phase(q)' = Phase(q) /\ View(q)' = View(q)
    BY <1>6, <1>12, <1>14, <2>5, <2>6
  <2>8. Phases' = Phases /\ InView' = InView
    BY <2>7, Nobody
  <2> QED
    BY <1>1, <1>10, <1>14, <2>8
       DEF Refines, Atomic!abstractVars, Atomic!requestVars
<1> QED
  BY <1>11, <1>13, <1>14, Delivered DEF AtomicInv, JournalInv

LEMMA PushRefines ==
  ASSUME AtomicInv, NEW r \in Requests, bodyEnd(r)
  PROVE  Refines
<1> DEFINE pushed == Append(journals[r], r)
<1>1. /\ TypeOK /\ ConnectionOK /\ pushed \in Seq(Requests)
      /\ up /\ pc[r] = "body" /\ kind[r] = "POST"
      /\ Sent("set", r, pushed) /\ Respond(r, 200, pushed)
      /\ UNCHANGED <<kind, journals>>
  BY Pushed DEF AtomicInv, JournalInv
<1> HIDE DEF pushed
<1>2. replies' = replies /\ stored' = stored
  BY <1>1 DEF Sent
<1>3. \A q : Tells(q)' = Tells(q) /\ Failing(q)' = Failing(q)
  BY <1>2, SameReplies
<1>4. \A q : Finds(q)' = Finds(q)
  BY <1>1, FindsSent
<1>5. \A q \in Requests \ {r} : pc'[q] = pc[q]
  BY <1>1 DEF Respond, TypeOK
<1>6. \A q \in Requests \ {r} : Phase(q)' = Phase(q) /\ View(q)' = View(q)
  BY <1>1, <1>3, <1>4, <1>5, Untouched
<1>7. ~Failing(r) /\ Tells(r) = {}
  BY <1>1 DEF ConnectionOK, RepliesOK, Failing, Tells, ToldAt
<1>8. Finds(r) = {}
  BY <1>1 DEF ConnectionOK, GetsOK, GetsWait, Finds, AskedAt
<1>9. Sights(r) = {journals[r]}
  BY <1>1, <1>7, <1>8, SightsAre DEF Reads
<1>10. Phase(r) = "reading"
  BY <1>1, <1>7, PhaseIs
<1>11. View(r) = journals[r]
  BY <1>9, <1>10 DEF View, OneOf
<1>12. Phases[r] = "reading" /\ InView[r] = journals[r]
  BY <1>10, <1>11, InViewIs
<1>13. Atomic!Answer(r, 200, pushed)
  BY <1>1, <1>6, AnswerIs
<1>14. Unsaved' = Append(Unsaved, pushed)
  <2>1. PICK n \in Nat : n = Len(commands)
    BY <1>1 DEF Sent
  <2>2. /\ commands \in Seq(Command) /\ commands' \in Seq(Command)
        /\ Len(commands') = n + 1 /\ commands'[n + 1].op = "set"
        /\ commands'[n + 1].list = pushed
        /\ \A m \in 1..n : commands[m] = commands'[m]
    BY <1>1, <2>1 DEF TypeOK, Sent
  <2>3. Written(commands') = Append(Written(commands), pushed)
    BY <2>1, <2>2, WrittenLast
  <2> QED
    BY <2>3 DEF Unsaved
<1>15. Atomic!Write(r)
  BY <1>1, <1>2, <1>12, <1>13, <1>14 DEF Atomic!Write, pushed
<1> QED
  BY <1>15 DEF Refines, Atomic!Next

\* A reply more is told to the one it is for.
LEMMA Replied ==
  ASSUME TypeOK, NEW a \in Reply, replies' = Append(replies, a), NEW q
  PROVE  /\ Tells(q)' = Tells(q) \cup
                          (IF a.op = "get" /\ a.req = q THEN {a.list} ELSE {})
         /\ Failing(q)' <=> Failing(q) \/ (a.op = "error" /\ a.req = q)
<1>1. PICK n \in Nat : n = Len(replies)
  BY DEF TypeOK
<1>2. /\ Len(replies') = n + 1 /\ replies'[n + 1] = a
      /\ \A i \in 1..n : replies'[i] = replies[i]
  BY <1>1, AppendFacts DEF TypeOK
<1>3. /\ \A i \in 1..n + 1 : i \in 1..n \/ i = n + 1
      /\ 1..n \subseteq 1..n + 1 /\ n + 1 \in 1..n + 1
  OBVIOUS
<1>4. ToldAt(q)' = ToldAt(q) \cup
                     (IF a.op = "get" /\ a.req = q THEN {n + 1} ELSE {})
  <2>1. ToldAt(q)' = {j \in 1..n + 1 : replies'[j].op = "get" /\ replies'[j].req = q}
    BY <1>2 DEF ToldAt
  <2>2. ToldAt(q) = {j \in 1..n : replies[j].op = "get" /\ replies[j].req = q}
    BY <1>1 DEF ToldAt
  <2> QED
    BY <1>2, <1>3, <2>1, <2>2
<1>5. \A i \in ToldAt(q) : replies'[i].list = replies[i].list
  BY <1>1, <1>2 DEF ToldAt
<1>6. Tells(q)' = {replies'[i].list : i \in ToldAt(q)'}
  BY DEF Tells
<1>7. Tells(q) = {replies'[i].list : i \in ToldAt(q)}
  BY <1>5 DEF Tells
<1>8. replies'[n + 1].list = a.list
  BY <1>2
<1>9. CASE a.op = "get" /\ a.req = q
  <2>1. Tells(q)' = Tells(q) \cup {a.list}
    BY <1>4, <1>6, <1>7, <1>8, <1>9
  <2>2. Failing(q)' <=> Failing(q)
    BY <1>1, <1>2, <1>3, <1>9 DEF Failing
  <2> QED
    BY <1>9, <2>1, <2>2
<1>10. CASE ~(a.op = "get" /\ a.req = q)
  <2>1. Tells(q)' = Tells(q)
    BY <1>4, <1>6, <1>7, <1>10
  <2>2. Failing(q)' <=> Failing(q) \/ (a.op = "error" /\ a.req = q)
    BY <1>1, <1>2, <1>3 DEF Failing
  <2> QED
    BY <1>10, <2>1, <2>2
<1> QED
  BY <1>9, <1>10

\* The commands without the first one write what is left.
LEMMA UnsavedExecuted ==
  ASSUME TypeOK, RedisExecutes \/ RedisFailsGet
  PROVE  IF commands[1].op = "set"
         THEN /\ Unsaved # <<>> /\ Head(Unsaved) = commands[1].list
              /\ Unsaved' = Tail(Unsaved)
         ELSE Unsaved' = Unsaved
<1>1. PICK n \in Nat : Len(commands) = n + 1
  <2>1. Len(commands) - 1 \in Nat /\ Len(commands) = (Len(commands) - 1) + 1
    BY Executed
  <2> QED
    BY <2>1
<1>2. PICK cs \in Seq(Command) : cs = commands
  BY DEF TypeOK
<1>3. PICK ds \in Seq(Command) : ds = commands'
  BY Executed DEF Left
<1>4. Len(cs) = n + 1 /\ Len(ds) = n /\ \A i \in 1..n : ds[i] = cs[i + 1]
  BY <1>1, <1>2, <1>3, Executed DEF Left
<1>5. Written(cs) = IF cs[1].op = "set"
                    THEN <<cs[1].list>> \o Written(ds) ELSE Written(ds)
  BY <1>4, WrittenFirst
<1>6. PICK w \in Seq(Lists) : w = Written(ds)
  BY WrittenType
<1>7. PICK x \in Lists : x = cs[1].list
  <2>1. cs[1] \in Command
    BY <1>2, Executed
  <2> QED
    BY <2>1 DEF Command, Lists
<1>8. /\ <<x>> \o w # <<>> /\ Head(<<x>> \o w) = x
      /\ Tail(<<x>> \o w) = w
  <2>1. /\ <<x>> \o w \in Seq(Lists) /\ <<x>> \o w # <<>>
        /\ Len(<<x>> \o w) = Len(w) + 1 /\ (<<x>> \o w)[1] = x
        /\ \A i \in 1..Len(w) : (<<x>> \o w)[i + 1] = w[i]
    OBVIOUS
  <2>2. PICK s \in Seq(Lists) : s = <<x>> \o w
    BY <2>1
  <2>3. /\ Tail(s) \in Seq(Lists) /\ Len(Tail(s)) = Len(w)
        /\ \A i \in 1..Len(w) : Tail(s)[i] = w[i]
        /\ Head(s) = x
    BY <2>1, <2>2, TailFacts
  <2>4. Tail(s) = w
    BY <2>3, SeqEqual
  <2> QED
    BY <2>1, <2>2, <2>3, <2>4
<1> QED
  BY <1>2, <1>3, <1>5, <1>6, <1>7, <1>8 DEF Unsaved

LEMMA ExecutionRefines ==
  ASSUME AtomicInv, RedisExecutes \/ RedisFailsGet
  PROVE  Refines
<1>1. /\ TypeOK /\ ConnectionOK /\ Attended
      /\ commands[1] \in Command /\ 1 \in 1..Len(commands)
      /\ UNCHANGED <<kind, pc, journals, status, returned>>
  <2>1. TypeOK
    BY DEF AtomicInv, JournalInv
  <2> QED
    BY <2>1, Executed DEF AtomicInv, JournalInv
<1>2. PICK r \in Requests : r = commands[1].req
  BY <1>1 DEF Command
<1>3. \A q \in Requests \ {r} : Finds(q)' = Finds(q)
  BY <1>1, <1>2, FindsExecuted
<1>4. ASSUME Phases' = Phases, InView' = InView, stored' = stored, Unsaved' = Unsaved
      PROVE  Refines
  BY <1>1, <1>4 DEF Refines, Atomic!abstractVars, Atomic!requestVars
<1>5. ASSUME commands[1].op = "set", stored' = commands[1].list, UNCHANGED replies
      PROVE  Refines
  <2>1. \A q : Finds(q)' = Finds(q)
    BY <1>1, <1>5, FindsExecuted
  <2>2. \A q : Tells(q)' = Tells(q) /\ Failing(q)' = Failing(q)
    BY <1>5, SameReplies
  <2>3. \A q \in Requests : Phase(q)' = Phase(q) /\ View(q)' = View(q)
    BY <1>1, <2>1, <2>2, Untouched
  <2>4. Phases' = Phases /\ InView' = InView
    BY <2>3, Nobody
  <2>5. Atomic!Save
    BY <1>1, <1>5, <2>4, UnsavedExecuted DEF Atomic!Save, Atomic!requestVars
  <2> QED
    BY <2>5 DEF Refines, Atomic!Next
<1>6. ASSUME commands[1].op = "get", UNCHANGED stored, ~up, replies' = <<>>
      PROVE  Refines
  <2>1. ASSUME NEW q \in Requests
        PROVE  Phase(q)' = Phase(q) /\ View(q)' = View(q)
    <3>1. pc[q] \in {"new", "done", "cut"} /\ pc'[q] = pc[q]
      BY <1>1, <1>6 DEF Attended, TypeOK
    <3>2. Phase(q) = pc[q] /\ Phase(q)' = pc[q]
      BY <3>1, PhaseIs
    <3> QED
      BY <3>1, <3>2, SameView
  <2>2. Phases' = Phases /\ InView' = InView
    BY <2>1, Nobody
  <2> QED
    BY <1>1, <1>4, <1>6, <2>2, UnsavedExecuted
<1>7. ASSUME commands[1].op = "get", UNCHANGED stored, up, NEW a \in Reply,
             replies' = Append(replies, a), a.req = r, a.op = "get", a.list = stored
      PROVE  Refines
  <2>1. \A q \in Requests : Failing(q)' = Failing(q)
    <3>1. \A q \in Requests : Failing(q)' <=> Failing(q)
      BY <1>1, <1>7, Replied
    <3> QED
      BY <3>1 DEF Failing
  <2>2. \A q \in Requests \ {r} : Tells(q)' = Tells(q)
    BY <1>1, <1>7, Replied
  <2>3. \A q \in Requests \ {r} : Phase(q)' = Phase(q) /\ View(q)' = View(q)
    BY <1>1, <1>3, <2>1, <2>2, Untouched
  <2>4. Tells(r)' = Tells(r) \cup {stored} /\ Finds(r) = Finds(r)' \cup {stored}
    BY <1>1, <1>2, <1>7, Replied, FindsExecuted
  <2>5. Reads(r)' = Reads(r)
    BY <1>1 DEF Reads
  <2>6. Sights(r)' = Sights(r)
    BY <2>4, <2>5, SightsAre
  <2>7. Phase(r)' = Phase(r)
    BY <1>1, <2>1, PhaseIs
  <2>8. View(r)' = View(r)
    BY <2>6, <2>7, SameView
  <2>9. Phases' = Phases /\ InView' = InView
    BY <2>3, <2>7, <2>8, Nobody
  <2> QED
    BY <1>1, <1>4, <1>7, <2>9, UnsavedExecuted
<1>8. ASSUME commands[1].op = "get", UNCHANGED stored, up, NEW a \in Reply,
             replies' = Append(replies, a), a.req = r, a.op = "error"
      PROVE  Refines
  <2>1. \A q \in Requests \ {r} : Tells(q)' = Tells(q) /\ (Failing(q)' <=> Failing(q))
    BY <1>1, <1>8, Replied
  <2>2. \A q \in Requests \ {r} : Failing(q)' = Failing(q)
    BY <2>1 DEF Failing
  <2>3. \A q \in Requests \ {r} : Phase(q)' = Phase(q) /\ View(q)' = View(q)
    BY <1>1, <1>3, <2>1, <2>2, Untouched
  <2>4. Failing(r)'
    BY <1>1, <1>8, Replied
  <2>5. pc[r] = "get" /\ ~Failing(r)
    BY <1>1, <1>2, <1>8 DEF ConnectionOK, GetsOK, GetsWait, GetsApart, Failing
  <2>6. Phase(r) = "reading" /\ Phase(r)' = "failed"
    BY <1>1, <2>4, <2>5, PhaseIs
  <2>7. View(r)' = <<>>
    BY <2>6 DEF View
  <2>8. /\ Phases[r] = "reading"
        /\ Phases' = [Phases EXCEPT ![r] = "failed"]
        /\ InView' = [InView EXCEPT ![r] = <<>>]
    BY <2>3, <2>6, <2>7, OnlyOne, InViewIs
  <2>9. Atomic!Break(r)
    BY <1>1, <1>8, <2>8, UnsavedExecuted DEF Atomic!Break
  <2> QED
    BY <2>9 DEF Refines, Atomic!Next
<1> QED
  BY <1>1, <1>2, <1>5, <1>6, <1>7, <1>8, Executed DEF Reply

\* A beginning of a list is a part of the list with one more in front.
LEMMA CutBehind ==
  ASSUME NEW w \in Seq(Lists), NEW x \in Lists, NEW k \in 0..Len(w)
  PROVE  /\ SubSeq(w, 1, k) = SubSeq(<<x>> \o w, 2, k + 1)
         /\ k + 1 \in 0..Len(<<x>> \o w)
<1>1. /\ <<x>> \o w \in Seq(Lists) /\ Len(<<x>> \o w) = Len(w) + 1
      /\ \A i \in 1..Len(w) : (<<x>> \o w)[i + 1] = w[i]
  OBVIOUS
<1>2. PICK s \in Seq(Lists) : s = <<x>> \o w
  BY <1>1
<1>3. /\ SubSeq(s, 2, k + 1) \in Seq(Lists) /\ Len(SubSeq(s, 2, k + 1)) = k
      /\ \A i \in 1..k : SubSeq(s, 2, k + 1)[i] = w[i]
  BY <1>1, <1>2
<1>4. /\ SubSeq(w, 1, k) \in Seq(Lists) /\ Len(SubSeq(w, 1, k)) = k
      /\ \A i \in 1..k : SubSeq(w, 1, k)[i] = w[i]
  BY CutFacts
<1>5. SubSeq(w, 1, k) = SubSeq(s, 2, k + 1)
  BY <1>3, <1>4, SeqEqual
<1> QED
  BY <1>1, <1>2, <1>5

LEMMA UnsavedAtDeath ==
  ASSUME TypeOK, Dies
  PROVE  \E refused \in {0, 1}, n \in 0..Len(Unsaved) :
           Unsaved' = SubSeq(Unsaved, refused + 1, n)
<1>1. PICK cs \in Seq(Command) : cs = commands
  BY DEF TypeOK
<1>2. ASSUME NEW unsent \in Seq(Command), NEW gone, ProcessDies(unsent, gone)
      PROVE  \E k \in 0..Len(Written(unsent)) : Unsaved' = SubSeq(Written(unsent), 1, k)
  <2>1. PICK n \in 0..Len(unsent) : commands' = SubSeq(unsent, 1, n)
    BY <1>2 DEF ProcessDies
  <2>2. PICK ds \in Seq(Command) : ds = SubSeq(unsent, 1, n)
    BY CutFacts
  <2>3. n \in Nat /\ n = Len(ds) /\ n <= Len(unsent) /\ \A m \in 1..n : ds[m] = unsent[m]
    BY <2>2, CutFacts
  <2>4. \E k \in 0..Len(Written(unsent)) : Written(ds) = SubSeq(Written(unsent), 1, k)
    BY <2>3, WrittenCut
  <2> QED
    BY <2>1, <2>2, <2>4 DEF Unsaved
<1>3. CASE \E gone : ProcessDies(commands, gone)
  <2>1. PICK k \in 0..Len(Unsaved) : Unsaved' = SubSeq(Unsaved, 1, k)
    BY <1>1, <1>2, <1>3 DEF Unsaved
  <2>2. 0 + 1 = 1 /\ 0 \in {0, 1}
    OBVIOUS
  <2> QED
    BY <2>1, <2>2
<1>4. CASE RedisFailsSet
  <2>1. /\ cs # <<>> /\ Head(cs).op = "set"
        /\ \E gone : ProcessDies(Tail(cs), gone)
    BY <1>1, <1>4 DEF RedisFailsSet
  <2>2. PICK n \in Nat : n = Len(cs) - 1
    BY <2>1, TailFacts
  <2>3. PICK ds \in Seq(Command) : ds = Tail(cs)
    BY <2>1, TailFacts
  <2>4. /\ n = Len(ds) /\ Len(cs) = n + 1 /\ \A m \in 1..n : ds[m] = cs[m + 1]
        /\ cs[1].op = "set" /\ cs[1] \in Command
    BY <2>1, <2>2, <2>3, TailFacts
  <2>5. PICK w \in Seq(Lists) : w = Written(ds)
    BY WrittenType
  <2>6. PICK x \in Lists : x = cs[1].list
    BY <2>4 DEF Command, Lists
  <2>7. Unsaved = <<x>> \o w
    BY <1>1, <2>4, <2>5, <2>6, WrittenFirst DEF Unsaved
  <2>8. PICK k \in 0..Len(w) : Unsaved' = SubSeq(w, 1, k)
    BY <1>2, <2>1, <2>3, <2>5
  <2>9. /\ Unsaved' = SubSeq(Unsaved, 2, k + 1) /\ k + 1 \in 0..Len(Unsaved)
    BY <2>7, <2>8, CutBehind
  <2>10. 1 + 1 = 2 /\ 1 \in {0, 1}
    OBVIOUS
  <2> QED
    BY <2>9, <2>10
<1> QED
  BY <1>3, <1>4 DEF Dies, badBodyEnd, ProcessKilled

LEMMA DeathRefines ==
  ASSUME AtomicInv, Dies
  PROVE  Refines
<1>1. /\ TypeOK /\ UNCHANGED <<kind, status, returned, stored>>
      /\ pc' = [q \in Requests |-> IF pc[q] \in {"get", "body"} THEN "cut" ELSE pc[q]]
  BY Death DEF AtomicInv, JournalInv
<1>2. ASSUME NEW q \in Requests
      PROVE  /\ Phase(q)' = IF Phase(q) \in {"reading", "failed"}
                            THEN "cut" ELSE Phase(q)
             /\ View(q)' = <<>>
  <2>1. pc[q] \in {"new", "get", "body", "done", "cut"}
    BY <1>1 DEF TypeOK
  <2>2. pc'[q] = IF pc[q] \in {"get", "body"} THEN "cut" ELSE pc[q]
    BY <1>1
  <2>3. Phase(q)' = pc'[q] /\ pc'[q] # "reading"
    BY <2>1, <2>2, PhaseIs
  <2>4. Phase(q) \in {"reading", "failed"} <=> pc[q] \in {"get", "body"}
    BY <2>1, PhaseIs
  <2>5. pc[q] \notin {"get", "body"} => Phase(q) = pc[q]
    BY PhaseIs
  <2>6. View(q)' = <<>>
    BY <2>3 DEF View
  <2> QED
    BY <2>2, <2>3, <2>4, <2>5, <2>6
<1>3. /\ Phases' = [q \in Requests |-> IF Phases[q] \in {"reading", "failed"}
                                       THEN "cut" ELSE Phases[q]]
      /\ InView' = [q \in Requests |-> <<>>]
  BY <1>2, InViewIs
<1>4. Atomic!Die
  BY <1>1, <1>3, UnsavedAtDeath DEF Atomic!Die
<1> QED
  BY <1>4 DEF Refines, Atomic!Next

LEMMA NothingRefines ==
  ASSUME UNCHANGED <<kind, pc, journals, status, returned, commands, replies, stored>>
  PROVE  Refines
<1>1. \A q : Tells(q)' = Tells(q) /\ Failing(q)' = Failing(q)
  BY SameReplies
<1>2. \A q : Finds(q)' = Finds(q)
  BY SameCommands
<1>3. \A q \in Requests : Phase(q)' = Phase(q) /\ View(q)' = View(q)
  BY <1>1, <1>2, Untouched
<1>4. Phases' = Phases /\ InView' = InView
  BY <1>3, Nobody
<1>5. Unsaved' = Unsaved
  BY DEF Unsaved
<1> QED
  BY <1>4, <1>5 DEF Refines, Atomic!abstractVars, Atomic!requestVars

LEMMA StepRefines ==
  ASSUME AtomicInv, [Next]_vars
  PROVE  Refines
<1>1. ASSUME NEW r \in Requests, Callbacks(r) PROVE Refines
  BY <1>1, ArrivalRefines, DeliveryRefines, PushRefines, DeathRefines
     DEF Callbacks, Dies
<1>2. CASE RedisExecutes \/ RedisFailsGet
  BY <1>2, ExecutionRefines
<1>3. CASE RedisFailsSet \/ ProcessKilled
  BY <1>3, DeathRefines DEF Dies
<1>4. CASE Restart \/ Finished \/ UNCHANGED vars
  BY <1>4, NothingRefines DEF Restart, Finished
<1> QED
  BY <1>1, <1>2, <1>3, <1>4 DEF Next

LEMMA AtomicInit ==
  ASSUME Init
  PROVE  AtomicInv /\ Atomic!Init
<1>1. AtomicInv
  BY JournalInit DEF Init, AtomicInv, Attended
<1>2. Unsaved = <<>>
  <2>1. PICK cs \in Seq(Command) : cs = commands /\ Len(cs) = 0
    BY <1>1 DEF Init, AtomicInv, JournalInv, TypeOK
  <2>2. PICK f : Steps(cs, 0, f) /\ Written(cs) = f[0]
    BY <2>1, WrittenSteps
  <2> QED
    BY <2>1, <2>2 DEF Steps, Unsaved
<1>3. \A q \in Requests : Phase(q) = "new" /\ View(q) = <<>>
  <2>1. \A q \in Requests : pc[q] = "new"
    BY DEF Init
  <2>2. \A q \in Requests : Phase(q) = "new"
    BY <2>1, PhaseIs
  <2> QED
    BY <2>2 DEF View
<1>4. Phases = [q \in Requests |-> "new"] /\ InView = [q \in Requests |-> <<>>]
  BY <1>3, InViewIs
<1> QED
  BY <1>1, <1>2, <1>4 DEF Init, Atomic!Init

LEMMA AtomicInvStep ==
  ASSUME AtomicInv, [Next]_vars
  PROVE  AtomicInv'
<1>1. Attended'
  BY AttendedStep DEF AtomicInv, JournalInv
<1>2. JournalInv'
  BY TypesStep, ConnectionStep, BeforeStep, JournalsStep, SeenStep
     DEF AtomicInv, JournalInv
<1> QED
  BY <1>1, <1>2 DEF AtomicInv

(* The commands, replies and callbacks do what one journal would that every *)
(* request sees at once when it arrives, and that is saved behind: whatever *)
(* Redis is asked meanwhile, refuses, or has not done when the process dies. *)
THEOREM OneJournal == Spec => ImplementsJournal
<1>1. Init => AtomicInv /\ Atomic!Init
  BY AtomicInit
<1>2. AtomicInv /\ [Next]_vars => AtomicInv'
  BY AtomicInvStep
<1>3. AtomicInv /\ [Next]_vars => [Atomic!Next]_(Atomic!abstractVars)
  BY StepRefines DEF Refines
<1> QED
  BY <1>1, <1>2, <1>3, PTL DEF Spec, ImplementsJournal, Atomic!Spec

-----------------------------------------------------------------------------
(* The half of EveryRequestAnswered that needs no fairness.                 *)

\* Redis has the get of q to execute, or the answer is under way.
OnItsWay(q) ==
  \/ \E i \in 1..Len(commands) : commands[i].op = "get" /\ commands[i].req = q
  \/ \E i \in 1..Len(replies) : replies[i].req = q

\* Who waits is served by a process that runs, and nobody else is sent anything.
Awaited == \A q \in Requests : pc[q] = "get" <=> up /\ OnItsWay(q)

LEMMA AwaitedStep ==
  ASSUME AtomicInv, Awaited, [Next]_vars
  PROVE  \A q \in Requests : pc'[q] = "get" => up' /\ OnItsWay(q)'
<1>1. TypeOK /\ ConnectionOK
  BY DEF AtomicInv, JournalInv
<1> SUFFICES ASSUME NEW q \in Requests, pc'[q] = "get"
             PROVE  up' /\ OnItsWay(q)'
  OBVIOUS
<1>2. ASSUME NEW r \in Requests, requestHandler(r)
      PROVE  up' /\ OnItsWay(q)'
  <2>1. up' /\ UNCHANGED replies /\ pc[r] = "new"
    BY <1>1, <1>2, Arrived
  <2>2. ASSUME q # r PROVE OnItsWay(q)
    BY <1>1, <1>2, <2>2, Arrived DEF Awaited, Respond, TypeOK
  <2>3. CASE \E code \in {400, 404} : Respond(r, code, <<>>) /\ UNCHANGED redisVars
    <3>1. q # r
      BY <1>1, <2>3 DEF Respond, TypeOK
    <3> QED
      BY <2>1, <2>2, <2>3, <3>1 DEF OnItsWay
  <2>4. CASE Sent("get", r, <<>>)
    <3>1. PICK n \in Nat : n = Len(commands)
      BY <2>4 DEF Sent
    <3>2. /\ Len(commands') = n + 1 /\ \A i \in 1..n : commands'[i] = commands[i]
          /\ commands'[n + 1].op = "get" /\ commands'[n + 1].req = r
      BY <2>4, <3>1 DEF Sent
    <3>3. 1..n \subseteq 1..n + 1 /\ n + 1 \in 1..n + 1
      OBVIOUS
    <3> QED
      BY <2>1, <2>2, <3>1, <3>2, <3>3 DEF OnItsWay
  <2> QED
    BY <1>1, <1>2, <2>3, <2>4, Arrived
<1>3. ASSUME NEW r \in Requests, getCallback(r)
      PROVE  up' /\ OnItsWay(q)'
  <2>1. /\ up /\ up' /\ UNCHANGED commands /\ replies[1].req = r
        /\ Len(replies) \in Nat \ {0} /\ Len(replies') = Len(replies) - 1
        /\ \A i \in 1..Len(replies) - 1 : replies'[i] = replies[i + 1]
    BY <1>1, <1>3, Delivered
  <2>2. \E to \in {"done", "body"} : pc' = [pc EXCEPT ![r] = to]
    BY <1>1, <1>3, Delivered DEF Respond
  <2>3. q # r /\ pc[q] = "get"
    BY <1>1, <2>2 DEF TypeOK
  <2>4. OnItsWay(q)
    BY <2>3 DEF Awaited
  <2>5. \A i \in 1..Len(replies) : replies[i].req = q =>
          i - 1 \in 1..Len(replies') /\ replies'[i - 1] = replies[i]
    BY <2>1, <2>3
  <2> QED
    BY <2>1, <2>4, <2>5 DEF OnItsWay
<1>4. ASSUME NEW r \in Requests, bodyEnd(r)
      PROVE  up' /\ OnItsWay(q)'
  <2>0. PICK list : Sent("set", r, list) /\ Respond(r, 200, list) /\ up /\ up' = up
    BY <1>1, <1>4, Pushed
  <2>1. up' /\ UNCHANGED replies
    BY <2>0 DEF Sent
  <2>2. pc[q] = "get"
    BY <1>1, <2>0 DEF Respond, TypeOK
  <2>3. PICK n \in Nat : n = Len(commands)
    BY <2>0 DEF Sent
  <2>4. Len(commands') = n + 1 /\ \A i \in 1..n : commands'[i] = commands[i]
    BY <2>0, <2>3 DEF Sent
  <2>5. 1..n \subseteq 1..n + 1
    OBVIOUS
  <2> QED
    BY <2>1, <2>2, <2>3, <2>4, <2>5 DEF OnItsWay, Awaited
<1>5. CASE Dies
  <2>1. pc' = [r \in Requests |->
                 IF pc[r] \in {"get", "body"} THEN "cut" ELSE pc[r]]
    BY <1>1, <1>5, Death
  <2> QED
    BY <2>1
<1>6. CASE RedisExecutes \/ RedisFailsGet
  <2>1. /\ UNCHANGED <<pc, up>>
        /\ Left(1, Len(commands) - 1) /\ Len(commands) \in Nat \ {0}
    BY <1>1, <1>6, Executed
  <2>2. up /\ up' /\ OnItsWay(q)
    BY <2>1 DEF Awaited
  <2>3. ASSUME NEW i \in 1..Len(commands), commands[i].op = "get", commands[i].req = q,
               i # 1
        PROVE  OnItsWay(q)'
    <3>1. i - 1 \in 1..Len(commands') /\ commands'[i - 1] = commands[i]
      BY <2>1, <2>3 DEF Left
    <3> QED
      BY <2>3, <3>1 DEF OnItsWay
  <2>4. \/ UNCHANGED replies /\ commands[1].op = "set"
        \/ \E a \in Reply : replies' = Append(replies, a) /\ a.req = commands[1].req
    BY <1>1, <1>6, <2>2, Executed
  <2>5. CASE UNCHANGED replies /\ commands[1].op = "set"
    BY <2>2, <2>3, <2>5 DEF OnItsWay
  <2>6. ASSUME NEW a \in Reply, replies' = Append(replies, a), a.req = commands[1].req
        PROVE  OnItsWay(q)'
    <3>1. PICK n \in Nat : n = Len(replies)
      BY <1>1 DEF TypeOK
    <3>2. /\ Len(replies') = n + 1 /\ replies'[n + 1] = a
          /\ \A i \in 1..n : replies'[i] = replies[i]
      BY <1>1, <2>6, <3>1, AppendFacts DEF TypeOK
    <3>3. 1..n \subseteq 1..n + 1 /\ n + 1 \in 1..n + 1
      OBVIOUS
    <3> QED
      BY <2>2, <2>3, <2>6, <3>1, <3>2, <3>3 DEF OnItsWay
  <2> QED
    BY <2>2, <2>4, <2>5, <2>6
<1>7. CASE Restart \/ Finished \/ UNCHANGED vars
  <2>1. UNCHANGED <<pc, commands, replies>> /\ (up => up')
    BY <1>7 DEF Restart, Finished
  <2> QED
    BY <2>1 DEF Awaited, OnItsWay
<1> QED
  BY <1>2, <1>3, <1>4, <1>5, <1>6, <1>7 DEF Next, Callbacks, Dies

(* No request is left waiting for an answer that is not under way, whatever *)
(* fails: that it is delivered is then up to Redis and the event loop.      *)
THEOREM NobodyIsForgotten == Spec => []Awaited
<1>1. Init => AtomicInv /\ Awaited
  BY AtomicInit DEF Init, Awaited, OnItsWay
<1>2. AtomicInv => \A q \in Requests : up /\ OnItsWay(q) => pc[q] = "get"
  BY DEF AtomicInv, JournalInv, ConnectionOK, RepliesOK, GetsOK, GetsWait, OnItsWay
<1>3. AtomicInv /\ [Next]_vars => AtomicInv'
  BY AtomicInvStep
<1>4. AtomicInv /\ AtomicInv' /\ Awaited /\ [Next]_vars => Awaited'
  <2> SUFFICES ASSUME AtomicInv', AtomicInv, Awaited, [Next]_vars
               PROVE  Awaited'
    OBVIOUS
  <2>1. \A q \in Requests : pc'[q] = "get" => up' /\ OnItsWay(q)'
    BY AwaitedStep
  <2>2. \A q \in Requests : up' /\ OnItsWay(q)' => pc'[q] = "get"
    BY DEF AtomicInv, JournalInv, ConnectionOK, RepliesOK, GetsOK, GetsWait, OnItsWay
  <2> QED
    BY <2>1, <2>2 DEF Awaited
<1> QED
  BY <1>1, <1>3, <1>4, PTL DEF Spec
=============================================================================

----------------------------- MODULE JournalServer -----------------------------
(***************************************************************************)
(* The journal server: one Node process, whose callbacks run one at a time, *)
(* and one Redis connection, whose commands and replies keep their order.   *)
(* A POST reads the whole journal, waits for its body, and writes the whole *)
(* journal back, without waiting for Redis to have written it.  A message   *)
(* is the request that posts it.                                            *)
(***************************************************************************)
EXTENDS Naturals, Sequences, SequencesExt

CONSTANTS
  Requests,          \* the HTTP requests of a behaviour
  Kinds,             \* what they may be
  RedisMayFail,      \* can Redis answer a command with an error?
  MaxDeaths          \* bound: deaths of the process not due to a bad body

\* "badPOST": a POST whose body is not JSON; "badPath", "badMethod": the two
\* that requestHandler refuses.
ASSUME KindsOK == Kinds \subseteq {"GET", "POST", "badPOST", "badPath", "badMethod"}
ASSUME DeathsOK == RedisMayFail \in BOOLEAN /\ MaxDeaths \in Nat

VARIABLES
  kind,              \* kind[r], chosen by the client
  pc,                \* pc[r]: what r waits for
  journals,          \* journals[r]: the list r's callback read
  status,            \* status[r]: the code of the response, 0 before it
  returned,          \* returned[r]: the list in the response
  commands,          \* sent to Redis and not executed
  replies,           \* answered by Redis and not delivered
  stored,            \* the value of journal-key
  up,                \* the process runs
  deaths,            \* counts towards MaxDeaths
  before,            \* before[r]: the POSTs acknowledged when r arrived
  lost               \* acknowledged POSTs whose SET was never executed

redisVars == <<commands, replies, stored>>
processVars == <<up, deaths>>
historyVars == <<before, lost>>
vars == <<kind, pc, journals, status, returned, redisVars, processVars, historyVars>>

IsPost(r) == kind[r] \in {"POST", "badPOST"}

Init ==
  /\ kind \in [Requests -> Kinds]
  /\ pc = [r \in Requests |-> "new"]
  /\ status = [r \in Requests |-> 0]
  /\ journals = [r \in Requests |-> <<>>] /\ returned = journals
  /\ commands = <<>> /\ replies = <<>> /\ stored = <<>>
  /\ up = TRUE /\ deaths = 0
  /\ before = [r \in Requests |-> {}] /\ lost = {}

\* writeHead and end.
Respond(r, code, list) ==
  /\ pc' = [pc EXCEPT ![r] = "done"]
  /\ status' = [status EXCEPT ![r] = code]
  /\ returned' = [returned EXCEPT ![r] = list]

Send(op, r, list) ==
  /\ commands' = Append(commands, [op |-> op, req |-> r, list |-> list])
  /\ UNCHANGED <<replies, stored>>

\* requestHandler: 404 or 400 at once, else client.get.
requestHandler(r) ==
  /\ up /\ pc[r] = "new"
  /\ \/ kind[r] = "badPath" /\ Respond(r, 404, <<>>) /\ UNCHANGED redisVars
     \/ kind[r] = "badMethod" /\ Respond(r, 400, <<>>) /\ UNCHANGED redisVars
     \/ /\ kind[r] = "GET" \/ IsPost(r)
        /\ pc' = [pc EXCEPT ![r] = "get"]
        /\ Send("get", r, <<>>)
        /\ UNCHANGED <<status, returned>>
  /\ before' =
       [before EXCEPT ![r] = {p \in Requests : IsPost(p) /\ status[p] = 200}]
  /\ UNCHANGED <<kind, journals, processVars, lost>>

\* Mutant: a failed get is only returned from.
getCallbackSilentOnError(r) ==
  /\ up /\ replies # <<>> /\ Head(replies).req = r
  /\ replies' = Tail(replies)
  /\ journals' = [journals EXCEPT ![r] = Head(replies).list]
  /\ IF Head(replies).op = "error" \/ IsPost(r)
       THEN /\ pc' = [pc EXCEPT ![r] = IF Head(replies).op = "error" THEN "done" ELSE "body"]
            /\ UNCHANGED <<status, returned>>
       ELSE Respond(r, 200, Head(replies).list)
  /\ UNCHANGED <<kind, commands, stored, processVars, historyVars>>

\* The callback of client.get: 500 for an error, the list for a GET; a POST
\* starts to read its body.
getCallback(r) ==
  /\ up /\ replies # <<>> /\ Head(replies).req = r
  /\ replies' = Tail(replies)
  /\ journals' = [journals EXCEPT ![r] = Head(replies).list]
  /\ \/ Head(replies).op = "error" /\ Respond(r, 500, <<>>)
     \/ Head(replies).op = "get" /\ kind[r] = "GET" /\ Respond(r, 200, Head(replies).list)
     \/ /\ Head(replies).op = "get" /\ IsPost(r)
        /\ pc' = [pc EXCEPT ![r] = "body"]
        /\ UNCHANGED <<status, returned>>
  /\ UNCHANGED <<kind, commands, stored, processVars, historyVars>>

\* Mutant: the new message replaces the journal.
bodyEndReplacing(r) ==
  /\ up /\ pc[r] = "body" /\ kind[r] = "POST"
  /\ Send("set", r, <<r>>) /\ Respond(r, 200, <<r>>)
  /\ UNCHANGED <<kind, journals, processVars, historyVars>>

\* Mutant: journals.unshift(msg).
bodyEndUnshifting(r) ==
  /\ up /\ pc[r] = "body" /\ kind[r] = "POST"
  /\ Send("set", r, <<r>> \o journals[r]) /\ Respond(r, 200, <<r>> \o journals[r])
  /\ UNCHANGED <<kind, journals, processVars, historyVars>>

\* The 'end' of a body that is JSON: the journal with the message is sent to
\* Redis and to the client, neither waiting for the other.
bodyEnd(r) ==
  /\ up /\ pc[r] = "body" /\ kind[r] = "POST"
  /\ LET pushed == Append(journals[r], r) IN
       /\ Send("set", r, pushed)
       /\ Respond(r, 200, pushed)
  /\ UNCHANGED <<kind, journals, processVars, historyVars>>

\* Nobody catches an exception or listens for 'error': the process ends, the
\* requests in progress are cut off, and of the commands in its output buffer
\* a prefix has left.  Some of the acknowledged POSTs are gone.
ProcessDies(unsent, gone) ==
  /\ up /\ up' = FALSE
  /\ pc' = [r \in Requests |-> IF pc[r] \in {"get", "body"} THEN "cut" ELSE pc[r]]
  /\ \E n \in 0..Len(unsent) :
       /\ commands' = SubSeq(unsent, 1, n)
       /\ lost' = lost \cup gone \cup
            {c.req : c \in {d \in ToSet(SubSeq(unsent, n + 1, Len(unsent))) : d.op = "set"}}
  /\ replies' = <<>>
  /\ UNCHANGED <<kind, journals, status, returned, stored, before>>

\* The 'end' of a body that is not JSON: JSON.parse throws in a callback that
\* runs after the try has been left.
badBodyEnd(r) ==
  /\ pc[r] = "body" /\ kind[r] = "badPOST"
  /\ ProcessDies(commands, {})
  /\ UNCHANGED deaths

\* The set has no callback: its error reply is an 'error' event of the client.
RedisFailsSet ==
  /\ RedisMayFail /\ deaths < MaxDeaths
  /\ commands # <<>> /\ Head(commands).op = "set"
  /\ ProcessDies(Tail(commands), {Head(commands).req})
  /\ deaths' = deaths + 1

\* A kill from outside.
ProcessKilled ==
  /\ deaths < MaxDeaths
  /\ ProcessDies(commands, {})
  /\ deaths' = deaths + 1

\* The container restarts, slower than Redis empties the old connection.
Restart ==
  /\ ~up /\ commands = <<>>
  /\ up' = TRUE
  /\ UNCHANGED <<kind, pc, journals, status, returned, redisVars, deaths, historyVars>>

\* Redis executes a command; the reply to a get goes to the process that sent
\* it, if it still runs.
RedisExecutes ==
  /\ commands # <<>>
  /\ commands' = Tail(commands)
  /\ LET c == Head(commands) IN
       \/ /\ c.op = "set"
          /\ stored' = c.list
          /\ UNCHANGED replies
       \/ /\ c.op = "get"
          /\ replies' = IF up THEN Append(replies, [c EXCEPT !.list = stored]) ELSE <<>>
          /\ UNCHANGED stored
  /\ UNCHANGED <<kind, pc, journals, status, returned, processVars, historyVars>>

RedisFailsGet ==
  /\ RedisMayFail /\ up
  /\ commands # <<>> /\ Head(commands).op = "get"
  /\ commands' = Tail(commands)
  /\ replies' = Append(replies, [Head(commands) EXCEPT !.op = "error"])
  /\ UNCHANGED <<kind, pc, journals, status, returned, stored, processVars, historyVars>>

Callbacks(r) == requestHandler(r) \/ getCallback(r) \/ bodyEnd(r) \/ badBodyEnd(r)

\* Every request of a behaviour has been answered or cut off.
Finished == (\A r \in Requests : pc[r] \in {"done", "cut"}) /\ UNCHANGED vars

Next ==
  \/ \E r \in Requests : Callbacks(r)
  \/ RedisExecutes \/ RedisFailsGet \/ RedisFailsSet
  \/ ProcessKilled \/ Restart \/ Finished

Spec == Init /\ [][Next]_vars

(***************************************************************************)
(* Fairness: the event loop delivers what has arrived, clients finish the   *)
(* bodies they started, Redis answers, the kubelet restarts the container.  *)
(* No client has to send a request.                                         *)
(***************************************************************************)
FairSpec ==
  /\ Spec
  /\ \A r \in Requests :
       WF_vars(getCallback(r)) /\ WF_vars(bodyEnd(r)) /\ WF_vars(badBodyEnd(r))
  /\ WF_vars(RedisExecutes) /\ WF_vars(Restart)

(***************************************************************************)
(* Properties.                                                              *)
(***************************************************************************)

Command == [op : {"get", "set"}, req : Requests, list : Seq(Requests)]
Reply == [op : {"get", "error"}, req : Requests, list : Seq(Requests)]

\* Types; and a request that is over has been answered, exactly once each.
TypeOK ==
  /\ kind \in [Requests -> Kinds]
  /\ pc \in [Requests -> {"new", "get", "body", "done", "cut"}]
  /\ journals \in [Requests -> Seq(Requests)]
  /\ returned \in [Requests -> Seq(Requests)]
  /\ status \in [Requests -> {0, 200, 400, 404, 500}]
  /\ \A r \in Requests : (status[r] # 0) <=> (pc[r] = "done")
  /\ commands \in Seq(Command) /\ replies \in Seq(Reply)
  /\ stored \in Seq(Requests)
  /\ up \in BOOLEAN /\ deaths \in 0..MaxDeaths
  /\ before \in [Requests -> SUBSET Requests] /\ lost \subseteq Requests

\* Neither was acknowledged when the other arrived, and both have arrived.
Concurrent(p, r) ==
  /\ p # r /\ p \notin before[r] /\ r \notin before[p]
  /\ pc[p] # "new" /\ pc[r] # "new"

\* server.js:46-48 answers a POST before Redis has its journal.  Still, what
\* was acknowledged before a request arrived is in the list that request gets
\* and in the journal its POST stores: only a POST concurrent with the older
\* one can have overwritten it, or the death of the process lost it.
AckedIsSeen ==
  \A q, r \in Requests :
    (status[q] = 200 /\ r \in before[q]) =>
      \/ r \in ToSet(returned[q])
      \/ r \in lost
      \/ \E p \in Requests : kind[p] = "POST" /\ Concurrent(p, r)

\* A message is in a list once, and after every message that had been
\* acknowledged when its own request arrived, whatever overlaps and whenever
\* the process dies.
JournalKeepsOrder ==
  \A i, j \in 1..Len(stored) :
    i < j => stored[i] # stored[j] /\ stored[j] \notin before[stored[i]]

\* A request that has asked Redis for the journal is answered, or its
\* connection ends with the process.
EveryRequestAnswered ==
  \A r \in Requests : (pc[r] = "get") ~> (status[r] # 0 \/ pc[r] = "cut")

(***************************************************************************)
(* Refinement.                                                              *)
(***************************************************************************)

\* The journals that commands will store, in the order they will.
Written(cs) ==
  LET upTo[n \in 0..Len(cs)] ==
        IF n = 0 THEN <<>>
        ELSE IF cs[n].op = "set" THEN Append(upTo[n - 1], cs[n].list)
        ELSE upTo[n - 1]
  IN upTo[Len(cs)]

\* What Redis holds when it has executed the commands up to the i-th.
StoredAfter(i) ==
  LET written == Written(SubSeq(commands, 1, i))
  IN IF written = <<>> THEN stored ELSE Last(written)

\* The journals r will find, has found and not been told of, or has been told.
Sights(r) ==
  {StoredAfter(i) : i \in {j \in 1..Len(commands) :
                             commands[j].op = "get" /\ commands[j].req = r}}
    \cup {replies[i].list : i \in {j \in 1..Len(replies) :
                             replies[j].op = "get" /\ replies[j].req = r}}
    \cup (IF pc[r] = "body" THEN {journals[r]} ELSE {})

Phase(r) ==
  IF pc[r] \in {"get", "body"}
  THEN IF \E i \in 1..Len(replies) : replies[i].op = "error" /\ replies[i].req = r
       THEN "failed" ELSE "reading"
  ELSE pc[r]

Phases == [r \in Requests |-> Phase(r)]
InView ==
  [r \in Requests |->
     IF Phase(r) = "reading" THEN CHOOSE l \in Sights(r) : TRUE ELSE <<>>]
Unsaved == Written(commands)

Atomic == INSTANCE Journal WITH
  phase <- Phases,
  seen <- InView,
  saved <- stored,
  unsaved <- Unsaved

\* Though Redis answers later and no SET is waited for, every request sees the
\* journal as the acknowledged POSTs had left it when it arrived, and what they
\* wrote is saved in that order; a death of the process costs the end of what is
\* not saved yet, and the SET that Redis refused.
ImplementsJournal == Atomic!Spec
=============================================================================

---------------------------- MODULE NetworkClients ----------------------------
(***************************************************************************)
(* Programs that use the typed clientset side by side.  Each reads a        *)
(* Network, changes its copy and writes it back, patches labels, creates    *)
(* and deletes, in any order, through clients of any namespace.  A program  *)
(* waits for its call, so a call is one step, the one in which the server   *)
(* handles the request; DeleteCollection, which the server does not handle  *)
(* at once, is several.  The request may be lost, be handled after the      *)
(* program has given up on it, or be handled and the answer be lost.        *)
(* Programs and server are external; the calls between them are not.        *)
(***************************************************************************)
EXTENDS Naturals, FiniteSets

CONSTANTS
  Programs,
  Namespaces, Names,
  NamespaceAll,      \* the empty namespace
  Nil,               \* no Network, no call, nothing
  Merge,             \* the type of a merge patch
  Late,              \* stands for the program that has given up
  MaxRev,            \* bounds the revisions of the API server
  MaxFaults          \* bounds the calls whose request or answer does not arrive

ASSUME ConstantsOK ==
  NamespaceAll \notin Namespaces /\ Late \notin Programs /\ MaxRev \in Nat /\ MaxFaults \in Nat

VARIABLES
  objects,           \* objects[k]: what the API server stores
  revision,          \* the last resource version given out
  held,              \* held[p]: the Network p got last
  sweep,             \* sweep[p]: p's DeleteCollection, and the keys it still
                     \* has to delete
  late,              \* a call somebody has given up on and the server will see
  writer,            \* history: whose call changed the Network k last
  acked, orphaned,   \* history: updates of the Network k done since its
                     \* creation, by whether the program got the answer
  faults             \* how many calls have failed

serverVars == <<objects, revision>>
historyVars == <<writer, acked, orphaned>>
vars == <<serverVars, held, sweep, late, historyVars, faults>>

C == INSTANCE TypedClientset

Keys == Namespaces \X Names
Callers == Programs \cup {Late}

Init ==
  /\ objects = [k \in Keys |-> Nil] /\ revision = 0
  /\ held = [p \in Programs |-> Nil]
  /\ sweep = [p \in Callers |-> Nil]
  /\ late = Nil
  /\ writer = [k \in Keys |-> Nil]
  /\ acked = [k \in Keys |-> 0] /\ orphaned = [k \in Keys |-> 0] /\ faults = 0

-----------------------------------------------------------------------------
(* What programs call.                                                     *)

Call(method, ns, name, network, options) ==
  [method |-> method, ns |-> ns, name |-> name, network |-> network, options |-> options]

New(ns, name) ==
  [ns |-> ns, name |-> name, uid |-> 0, version |-> 0, labels |-> TRUE, spec |-> 0]

Clients == Namespaces \cup {NamespaceAll}

\* A program counts in the spec: it writes back one more than it read.
Counted(o) == [o EXCEPT !.spec = @ + 1]

\* What every program may call, and what one may that has got the Networks in
\* Has.
FreeCalls ==
       {Call("Get", ns, n, Nil, Nil) : ns \in Clients, n \in Names}
  \cup {Call("List", ns, Nil, Nil, [labels |-> b]) : ns \in Clients, b \in BOOLEAN}
  \cup {Call("Create", ns, n, New(ns, n), Nil) : ns \in Clients, n \in Names}
  \cup {Call("Patch", ns, n, [labels |-> b], Nil) : ns \in Clients, n \in Names, b \in BOOLEAN}
  \cup {Call("Delete", ns, n, Nil, Nil) : ns \in Clients, n \in Names}
  \cup {Call("DeleteCollection", ns, Nil, Nil, [labels |-> b]) : ns \in Clients, b \in BOOLEAN}

CallsWith(Has) ==
  FreeCalls
  \cup {Call("Update", ns, o.name, Counted(o), Nil) : ns \in Clients, o \in Has}
  \cup {Call("Delete", o.ns, o.name, Nil, [uid |-> o.uid]) : o \in Has}

Calls(p) == CallsWith({held[p]} \ {Nil})

\* The request the clientset makes of the call.
RequestOf(call) ==
  LET c == C!Networks(call.ns)
  IN CASE call.method = "Get" -> C!Get(c, call.name, call.options)
       [] call.method = "List" -> C!List(c, call.options)
       [] call.method = "Create" -> C!Create(c, call.network)
       [] call.method = "Update" -> C!Update(c, call.network)
       [] call.method = "Patch" -> C!Patch(c, call.name, Merge, call.network)
       [] call.method = "Delete" -> C!Delete(c, call.name, call.options)
       [] call.method = "DeleteCollection" -> C!DeleteCollection(c, Nil, call.options)

-----------------------------------------------------------------------------
(* The API server: how it answers a request, and what the request changes.  *)

Reply(status, network) == [status |-> status, network |-> network, key |-> Nil, new |-> Nil]
Wrote(key, new) == [status |-> "OK", network |-> new, key |-> key, new |-> new]

Fresh == revision + 1

\* rest.Request does not name or create an object in no namespace; the server
\* does not delete a collection of all namespaces, nor take a body of another.
Invalid(r) ==
  \/ r.ns = NamespaceAll /\ (r.name # Nil \/ r.verb \in {"POST", "DELETE"})
  \/ r.verb = "PUT" /\ r.body.ns # r.ns

IsCollection(r) == r.verb = "DELETE" /\ r.name = Nil

Matching(r) ==
  {k \in Keys :
     /\ objects[k] # Nil
     /\ r.ns \in {NamespaceAll, k[1]}
     /\ r.params.labels => objects[k].labels}

\* A program goes on with any one Network of a list.
Listed(r) ==
  IF Matching(r) = {} THEN {Reply("OK", Nil)} ELSE {Reply("OK", objects[k]) : k \in Matching(r)}

Post(r) ==
  LET k == <<r.ns, r.body.name>>
  IN IF objects[k] # Nil THEN Reply("AlreadyExists", Nil)
     ELSE Wrote(k, [r.body EXCEPT !.uid = Fresh, !.version = Fresh])

\* A custom resource is updated only from its latest version.
Put(k, body) ==
  IF <<body.uid, body.version>> # <<objects[k].uid, objects[k].version>>
    THEN Reply("Conflict", Nil)
    ELSE Wrote(k, [body EXCEPT !.version = Fresh])

\* A patch changes the fields it has; if none differs, nothing.
Patched(k, data) ==
  LET new == [f \in DOMAIN objects[k] |-> IF f \in DOMAIN data THEN data[f] ELSE objects[k][f]]
  IN IF new = objects[k] THEN Reply("OK", new) ELSE Wrote(k, [new EXCEPT !.version = Fresh])

Deleted(k, options) ==
  IF options # Nil /\ options.uid # objects[k].uid THEN Reply("Conflict", Nil) ELSE Wrote(k, Nil)

Replies(r) ==
  LET k == <<r.ns, r.name>>
  IN IF Invalid(r) THEN {Reply("Invalid", Nil)}
     ELSE IF r.verb = "POST" THEN {Post(r)}
     ELSE IF r.name = Nil THEN Listed(r)
     ELSE IF objects[k] = Nil THEN {Reply("NotFound", Nil)}
     ELSE {CASE r.verb = "GET" -> Reply("OK", objects[k])
             [] r.verb = "PUT" -> Put(k, r.body)
             [] r.verb = "PATCH" -> Patched(k, r.body)
             [] r.verb = "DELETE" -> Deleted(k, r.body)}

\* p's request changes k.  Nobody gets the version a deletion has.
Write(p, k, new) ==
  /\ new # Nil => revision < MaxRev
  /\ revision' = IF new = Nil THEN revision ELSE Fresh
  /\ objects' = [objects EXCEPT ![k] = new]
  /\ writer' = [writer EXCEPT ![k] = IF new = Nil THEN Nil ELSE p]

Serve(p, reply) ==
  IF reply.key = Nil THEN UNCHANGED <<serverVars, writer>> ELSE Write(p, reply.key, reply.new)

-----------------------------------------------------------------------------
(* Calls.                                                                   *)

\* The counts after reply: a new Network has none, n adds an update that the
\* server has said is done.
Count(counts, call, reply, n) ==
  CASE call.method = "Update" /\ reply.status = "OK" ->
         [counts EXCEPT ![<<reply.network.ns, reply.network.name>>] = @ + n]
    [] call.method \in {"Create", "Delete"} /\ reply.key # Nil ->
         [counts EXCEPT ![reply.key] = 0]
    [] OTHER -> counts

\* Mutant: the result is what the caller gave, not the server's answer.
ResultIsArgument(call, reply) ==
  IF call.method \in {"Create", "Update"} THEN call.network ELSE reply.network

\* Into(result): the server's representation of the Network.
Result(call, reply) == reply.network

\* The method returns.
Returns(p, call, reply) ==
  LET result == Result(call, reply)
  IN /\ held' = IF reply.status = "OK" /\ result # Nil THEN [held EXCEPT ![p] = result] ELSE held
     /\ acked' = Count(acked, call, reply, 1) /\ orphaned' = Count(orphaned, call, reply, 0)
     /\ UNCHANGED faults

\* It returns an error that does not say whether the call was executed.
Fails == faults < MaxFaults /\ faults' = faults + 1 /\ UNCHANGED held

\* The server handles a call nobody waits for any more.
Orphaned(call) ==
  \E reply \in Replies(RequestOf(call)) :
    /\ Serve(Late, reply)
    /\ acked' = Count(acked, call, reply, 0) /\ orphaned' = Count(orphaned, call, reply, 1)

Idle(p) == sweep[p] = Nil

CallReturns(p) ==
  /\ Idle(p)
  /\ \E call \in Calls(p) :
       /\ ~IsCollection(RequestOf(call)) \/ Invalid(RequestOf(call))
       /\ \E reply \in Replies(RequestOf(call)) : Serve(p, reply) /\ Returns(p, call, reply)
  /\ UNCHANGED <<sweep, late>>

AnswerLost(p) ==
  /\ Idle(p)
  /\ \E call \in Calls(p) :
       /\ ~IsCollection(RequestOf(call))
       /\ Orphaned(call)
  /\ Fails
  /\ UNCHANGED <<sweep, late>>

\* The program gives up before the server has seen the request.
RequestDelayed(p) ==
  /\ Idle(p) /\ late = Nil
  /\ \E call \in Calls(p) :
       /\ call.method \notin {"Get", "List"}
       /\ late' = call
  /\ Fails
  /\ UNCHANGED <<serverVars, sweep, historyVars>>

LateRequest ==
  /\ late # Nil /\ ~IsCollection(RequestOf(late))
  /\ Orphaned(late)
  /\ late' = Nil
  /\ UNCHANGED <<held, sweep, faults>>

LateRequestLost ==
  /\ late # Nil /\ late' = Nil
  /\ UNCHANGED <<serverVars, held, sweep, historyVars, faults>>

\* DeleteCollection: the server lists, and then deletes one by one.
Sweep(p, call) ==
  /\ IsCollection(RequestOf(call)) /\ ~Invalid(RequestOf(call))
  /\ sweep' = [sweep EXCEPT ![p] = [call |-> call, doomed |-> Matching(RequestOf(call))]]

SweepBegins(p) ==
  /\ Idle(p)
  /\ \E call \in Calls(p) : Sweep(p, call)
  /\ UNCHANGED <<serverVars, held, late, historyVars, faults>>

LateSweepBegins ==
  /\ Idle(Late) /\ late # Nil
  /\ Sweep(Late, late)
  /\ late' = Nil
  /\ UNCHANGED <<serverVars, held, historyVars, faults>>

SweepDeletes(p) ==
  /\ ~Idle(p)
  /\ \E k \in sweep[p].doomed :
       /\ sweep' = [sweep EXCEPT ![p].doomed = @ \ {k}]
       /\ IF objects[k] = Nil THEN UNCHANGED <<serverVars, writer>> ELSE Write(p, k, Nil)
  /\ UNCHANGED <<held, late, acked, orphaned, faults>>

SweepEnds(p) ==
  /\ ~Idle(p) /\ sweep[p].doomed = {}
  /\ sweep' = [sweep EXCEPT ![p] = Nil]
  /\ UNCHANGED <<serverVars, held, late, historyVars, faults>>

\* The program gives up, the server goes on.
SweepIsLeft(p) ==
  /\ ~Idle(p) /\ Idle(Late)
  /\ sweep' = [sweep EXCEPT ![p] = Nil, ![Late] = sweep[p]]
  /\ Fails
  /\ UNCHANGED <<serverVars, late, historyVars>>

Next ==
  \/ \E p \in Programs :
       CallReturns(p) \/ AnswerLost(p) \/ RequestDelayed(p) \/ SweepBegins(p) \/ SweepIsLeft(p)
  \/ \E p \in Callers : SweepDeletes(p) \/ SweepEnds(p)
  \/ LateRequest \/ LateRequestLost \/ LateSweepBegins

Spec == Init /\ [][Next]_vars

-----------------------------------------------------------------------------
Networks == [ns : Namespaces, name : Names, uid : 1..MaxRev, version : 1..MaxRev,
             labels : BOOLEAN, spec : Nat]

ASSUME NilIsNothing ==
  Nil \notin Names \cup Keys \cup
            [ns : Namespaces, name : Names, uid : Nat, version : Nat, labels : BOOLEAN, spec : Nat]

\* Types; what is stored is stored under its own key, and what a program got
\* is what the server had: it has an identity and a version.
TypeOK ==
  /\ objects \in [Keys -> Networks \cup {Nil}]
  /\ \A k \in Keys : objects[k] # Nil => k = <<objects[k].ns, objects[k].name>>
  /\ revision \in 0..MaxRev /\ faults \in 0..MaxFaults
  /\ held \in [Programs -> Networks \cup {Nil}]
  /\ sweep \in [Callers -> [call : FreeCalls, doomed : SUBSET Keys] \cup {Nil}]
  /\ writer \in [Keys -> Callers \cup {Nil}]
  /\ acked \in [Keys -> Nat] /\ orphaned \in [Keys -> Nat]

\* Every update the server has executed counts once in the Network: none was
\* undone by another program that had read before it, whether its own program
\* got the answer or gave up, and none was executed twice.
NoUpdateLost ==
  \A k \in Keys : objects[k] # Nil => objects[k].spec = acked[k] + orphaned[k]

\* The calls that may reach the server next.
Pending == (UNION {Calls(p) : p \in {q \in Programs : Idle(q)}}) \cup ({late} \ {Nil})

\* A call changes only what was meant.  It is the Network of the namespace and
\* name it was called with, although programs hand over objects they read
\* through other namespaces.  A Network deleted and created again survives a
\* Delete that is about the one before it, even one that comes late; and the
\* request for a collection is for what its options select, no more and no less.
CallsChangeOnlyWhatWasMeant ==
  \A call \in Pending :
    /\ \A reply \in Replies(RequestOf(call)) : reply.key # Nil =>
         /\ reply.key = <<call.ns, IF call.method = "Create" THEN call.network.name ELSE call.name>>
         /\ call.method = "Delete" /\ call.options # Nil =>
              objects[reply.key].uid = call.options.uid
    /\ call.method = "DeleteCollection" /\ call.ns # NamespaceAll =>
         Matching(RequestOf(call)) =
           {k \in Keys : /\ objects[k] # Nil /\ k[1] = call.ns
                         /\ call.options.labels => objects[k].labels}

\* A conflict always means that somebody else, or a call this program had given
\* up on, was there since: what Create, Update and Patch return is the Network
\* as it is now ("Returns the server's representation", network.go:110), so a
\* program alone can go on writing without reading.
ConflictMeansOvertaken ==
  \A p \in Programs : Idle(p) =>
    \A call \in Calls(p) :
      call.method \in {"Update", "Delete"} /\ Reply("Conflict", Nil) \in Replies(RequestOf(call))
        => writer[<<call.ns, call.name>>] # p
=============================================================================

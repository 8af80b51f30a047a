------------------------ MODULE NetworkClientsProofs ------------------------
(***************************************************************************)
(* Proofs about NetworkClients, for any programs, namespaces and names, and *)
(* any number of writes and of calls that fail.                             *)
(***************************************************************************)
EXTENDS NetworkClients, TLAPS

USE DEF vars, serverVars, historyVars

KeyOf(o) == <<o.ns, o.name>>

AnyNetwork == [ns : Namespaces, name : Names, uid : Nat, version : Nat,
               labels : BOOLEAN, spec : Nat]

(* Nil is not a Network, nor a name, nor a key.                             *)
LEMMA NilFacts ==
  Nil \notin Names /\ Nil \notin Keys /\ Nil \notin AnyNetwork
    /\ Networks \subseteq AnyNetwork
BY NilIsNothing DEF AnyNetwork, Networks

(* A Network with another version, and what else a call may change.         *)
LEMMA Renewed ==
  ASSUME NEW o \in Networks, NEW v \in Nat, NEW b \in BOOLEAN
  PROVE  /\ [o EXCEPT !.spec = @ + 1, !.version = v] \in AnyNetwork
         /\ [o EXCEPT !.labels = b, !.version = v] \in AnyNetwork
         /\ v \in 1..MaxRev => [o EXCEPT !.spec = @ + 1, !.version = v] \in Networks
         /\ v \in 1..MaxRev => [o EXCEPT !.labels = b, !.version = v] \in Networks
<1>1. o.spec + 1 \in Nat /\ o \in AnyNetwork
  BY NilFacts DEF Networks
<1>2. /\ [o EXCEPT !.spec = @ + 1, !.version = v] \in AnyNetwork
      /\ [o EXCEPT !.labels = b, !.version = v] \in AnyNetwork
  BY <1>1 DEF AnyNetwork
<1>3. ASSUME v \in 1..MaxRev
      PROVE  /\ [o EXCEPT !.spec = @ + 1, !.version = v] \in Networks
             /\ [o EXCEPT !.labels = b, !.version = v] \in Networks
  BY <1>1, <1>3 DEF Networks
<1> QED
  BY <1>2, <1>3

\* A Network the server had: unless its version is no longer that of the
\* object, nothing has changed since.
Copies ==
  {o \in Networks :
     /\ o.version <= revision
     /\ objects[KeyOf(o)] # Nil /\ objects[KeyOf(o)].version = o.version
          => objects[KeyOf(o)] = o}

\* Only the server gives versions, and each once.
VersionsOK ==
  /\ \A k \in Keys : objects[k] # Nil => objects[k].version <= revision
  /\ \A p \in Programs : held[p] # Nil => held[p] \in Copies
  /\ late # Nil => late \in CallsWith(Copies)

\* Who wrote a Network last and holds a copy of it, holds what he wrote.
WritersOK ==
  \A p \in Programs :
    held[p] # Nil /\ objects[KeyOf(held[p])] # Nil /\ writer[KeyOf(held[p])] = p
      => held[p] = objects[KeyOf(held[p])]

ClientsInv == TypeOK /\ VersionsOK /\ WritersOK /\ NoUpdateLost

-----------------------------------------------------------------------------
(* What a call may do: one lemma for each method.                           *)

\* The reply to a call that changes nothing: an error, or a Network as it is.
Answers(reply) ==
  /\ reply.key = Nil
  /\ \/ reply.network = Nil
     \/ \E k \in Keys : objects[k] # Nil /\ reply.network = objects[k]

(* An error changes nothing.                                                *)
LEMMA Refused ==
  ASSUME NEW status
  PROVE  /\ Answers(Reply(status, Nil))
         /\ Reply(status, Nil).status = status
BY DEF Answers, Reply

(* Get changes nothing.                                                     *)
LEMMA Getting ==
  ASSUME TypeOK, NEW ns \in Clients, NEW n \in Names, NEW reply,
         reply \in Replies(RequestOf(Call("Get", ns, n, Nil, Nil)))
  PROVE  Answers(reply)
<1>1. RequestOf(Call("Get", ns, n, Nil, Nil))
        = [verb |-> "GET", ns |-> ns, name |-> n, params |-> Nil, body |-> Nil]
  BY DEF RequestOf, Call, C!Get, C!Request, C!Networks, C!newNetworks
<1>2. n # Nil
  BY NilFacts
<1>3. \/ reply = Reply("Invalid", Nil) \/ reply = Reply("NotFound", Nil)
      \/ ns # NamespaceAll /\ objects[<<ns, n>>] # Nil
           /\ reply = Reply("OK", objects[<<ns, n>>])
  BY <1>1, <1>2 DEF Replies, Invalid
<1>4. ns # NamespaceAll => <<ns, n>> \in Keys
  BY DEF Keys, Clients
<1> QED
  BY <1>3, <1>4, Refused DEF Answers, Reply

(* List changes nothing.                                                    *)
LEMMA Listing ==
  ASSUME TypeOK, NEW ns \in Clients, NEW b \in BOOLEAN, NEW reply,
         reply \in Replies(RequestOf(Call("List", ns, Nil, Nil, [labels |-> b])))
  PROVE  Answers(reply)
<1> DEFINE r == [verb |-> "GET", ns |-> ns, name |-> Nil,
                 params |-> [labels |-> b], body |-> Nil]
<1>1. RequestOf(Call("List", ns, Nil, Nil, [labels |-> b])) = r
  BY DEF RequestOf, Call, C!List, C!Request, C!Networks, C!newNetworks
<1>2. \/ reply = Reply("Invalid", Nil) \/ reply = Reply("OK", Nil)
      \/ \E k \in Matching(r) : reply = Reply("OK", objects[k])
  BY <1>1 DEF Replies, Listed
<1>3. \A k \in Matching(r) : k \in Keys /\ objects[k] # Nil
  BY DEF Matching
<1> QED
  BY <1>2, <1>3, Refused DEF Answers, Reply

(* Create makes the Network it is given, if there is none.                  *)
LEMMA Creating ==
  ASSUME TypeOK, NEW ns \in Clients, NEW n \in Names, NEW reply,
         reply \in Replies(RequestOf(Call("Create", ns, n, New(ns, n), Nil)))
  PROVE  \/ Answers(reply)
         \/ /\ <<ns, n>> \in Keys /\ objects[<<ns, n>>] = Nil
            /\ reply = Wrote(<<ns, n>>,
                             [New(ns, n) EXCEPT !.uid = Fresh, !.version = Fresh])
<1>1. RequestOf(Call("Create", ns, n, New(ns, n), Nil))
        = [verb |-> "POST", ns |-> ns, name |-> Nil, params |-> Nil,
           body |-> New(ns, n)]
  BY DEF RequestOf, Call, C!Create, C!Request, C!Networks, C!newNetworks
<1>2. New(ns, n).name = n
  BY DEF New
<1>3. \/ reply = Reply("Invalid", Nil)
      \/ ns # NamespaceAll /\ reply = Post(RequestOf(Call("Create", ns, n, New(ns, n), Nil)))
  BY <1>1 DEF Replies, Invalid
<1>4. ns # NamespaceAll => <<ns, n>> \in Keys
  BY DEF Keys, Clients
<1> QED
  <2> DEFINE body == New(ns, n)
             new == [body EXCEPT !.uid = Fresh, !.version = Fresh]
             r == RequestOf(Call("Create", ns, n, New(ns, n), Nil))
  <2>1. r.ns = ns /\ r.body = body /\ r.body.name = n
    BY <1>1, <1>2
  <2> HIDE DEF r, body
  <2>2. Post(r) = IF objects[<<ns, n>>] # Nil THEN Reply("AlreadyExists", Nil)
                  ELSE Wrote(<<ns, n>>, new)
    BY <2>1 DEF Post
  <2> HIDE DEF new
  <2>3. /\ objects[<<ns, n>>] # Nil => Post(r) = Reply("AlreadyExists", Nil)
        /\ objects[<<ns, n>>] = Nil => Post(r) = Wrote(<<ns, n>>, new)
    BY <2>2
  <2> QED
    BY <1>3, <1>4, <2>3, Refused DEF new, body, r

(* Update replaces a Network by the one it is given, which has the identity *)
(* and the version of the one replaced; else it is refused.                 *)
LEMMA Updating ==
  ASSUME TypeOK, NEW ns \in Clients, NEW o \in Networks, NEW reply,
         reply \in Replies(RequestOf(
           Call("Update", ns, o.name, Counted(o), Nil)))
  PROVE  \/ Answers(reply) /\ reply.status # "OK"
         \/ /\ ns = o.ns /\ KeyOf(o) \in Keys /\ objects[KeyOf(o)] # Nil
            /\ o.uid = objects[KeyOf(o)].uid
            /\ o.version = objects[KeyOf(o)].version
            /\ reply = Wrote(KeyOf(o),
                             [o EXCEPT !.spec = @ + 1, !.version = Fresh])
<1> DEFINE body == Counted(o)
           r == [verb |-> "PUT", ns |-> ns, name |-> o.name, params |-> Nil,
                 body |-> body]
<1>1. /\ o.name \in Names /\ o.name # Nil /\ o.ns \in Namespaces
      /\ body.name = o.name /\ body.ns = o.ns /\ body.uid = o.uid
      /\ body.version = o.version
  BY NilFacts DEF Networks, Counted
<1>2. RequestOf(Call("Update", ns, o.name, body, Nil)) = r
  BY <1>1 DEF RequestOf, Call, C!Update, C!Request, C!Networks, C!newNetworks
<1>3. [body EXCEPT !.version = Fresh] = [o EXCEPT !.spec = @ + 1, !.version = Fresh]
  BY DEF Networks, Counted
<1> HIDE DEF body
<1>4. \/ reply = Reply("Invalid", Nil) \/ reply = Reply("NotFound", Nil)
      \/ ns = o.ns /\ objects[<<ns, o.name>>] # Nil
           /\ reply = Put(<<ns, o.name>>, body)
  <2> HIDE DEF r
  <2>1. /\ r.verb = "PUT" /\ r.ns = ns /\ r.name = o.name /\ r.body = body
    BY DEF r
  <2>2. reply \in Replies(r)
    BY <1>2 DEF body
  <2> QED
    BY <1>1, <2>1, <2>2 DEF Replies, Invalid
<1>5. KeyOf(o) \in Keys
  BY <1>1 DEF Keys, KeyOf
<1> QED
  BY <1>1, <1>3, <1>4, <1>5, Refused DEF Put, KeyOf

(* Patch changes the labels of the Network, and nothing else.               *)
LEMMA Patching ==
  ASSUME TypeOK, NEW ns \in Clients, NEW n \in Names, NEW b \in BOOLEAN, NEW reply,
         reply \in Replies(RequestOf(Call("Patch", ns, n, [labels |-> b], Nil)))
  PROVE  \/ Answers(reply)
         \/ /\ <<ns, n>> \in Keys /\ objects[<<ns, n>>] # Nil
            /\ reply = Wrote(<<ns, n>>, [objects[<<ns, n>>] EXCEPT
                               !.labels = b, !.version = Fresh])
<1> DEFINE k == <<ns, n>>
           r == [verb |-> "PATCH", ns |-> ns, name |-> n, params |-> Merge,
                 body |-> [labels |-> b]]
<1>1. RequestOf(Call("Patch", ns, n, [labels |-> b], Nil)) = r
  BY DEF RequestOf, Call, C!Patch, C!Request, C!Networks, C!newNetworks
<1>2. n # Nil
  BY NilFacts
<1>3. \/ reply = Reply("Invalid", Nil) \/ reply = Reply("NotFound", Nil)
      \/ ns # NamespaceAll /\ objects[k] # Nil /\ reply = Patched(k, [labels |-> b])
  BY <1>1, <1>2 DEF Replies, Invalid
<1>4. ns # NamespaceAll => k \in Keys
  BY DEF Keys, Clients
<1>5. ASSUME k \in Keys, objects[k] # Nil, reply = Patched(k, [labels |-> b])
      PROVE  \/ Answers(reply)
             \/ reply = Wrote(k, [objects[k] EXCEPT !.labels = b, !.version = Fresh])
  <2> DEFINE data == [labels |-> b]
             new == [f \in DOMAIN objects[k] |->
                       IF f \in DOMAIN data THEN data[f] ELSE objects[k][f]]
  <2>1. objects[k] \in Networks
    BY <1>5 DEF TypeOK
  <2>2. new = [objects[k] EXCEPT !.labels = b]
    BY <2>1 DEF Networks
  <2>3. new = objects[k] => Answers(Reply("OK", new))
    BY <1>5 DEF Answers, Reply
  <2>4. [new EXCEPT !.version = Fresh]
          = [objects[k] EXCEPT !.labels = b, !.version = Fresh]
    BY <2>1, <2>2 DEF Networks
  <2> QED
    BY <1>5, <2>3, <2>4 DEF Patched
<1> QED
  BY <1>3, <1>4, <1>5, Refused

(* Delete deletes the Network, if it is the one that was meant.             *)
LEMMA Deleting ==
  ASSUME TypeOK, NEW ns \in Clients, NEW n \in Names, NEW options, NEW reply,
         reply \in Replies(RequestOf(Call("Delete", ns, n, Nil, options)))
  PROVE  \/ Answers(reply)
         \/ /\ <<ns, n>> \in Keys /\ objects[<<ns, n>>] # Nil
            /\ options # Nil => options.uid = objects[<<ns, n>>].uid
            /\ reply = Wrote(<<ns, n>>, Nil)
<1> DEFINE k == <<ns, n>>
           r == [verb |-> "DELETE", ns |-> ns, name |-> n, params |-> Nil,
                 body |-> options]
<1>1. RequestOf(Call("Delete", ns, n, Nil, options)) = r
  BY DEF RequestOf, Call, C!Delete, C!Request, C!Networks, C!newNetworks
<1>2. n # Nil
  BY NilFacts
<1>3. \/ reply = Reply("Invalid", Nil) \/ reply = Reply("NotFound", Nil)
      \/ ns # NamespaceAll /\ objects[k] # Nil /\ reply = Deleted(k, options)
  BY <1>1, <1>2 DEF Replies, Invalid
<1>4. ns # NamespaceAll => k \in Keys
  BY DEF Keys, Clients
<1> QED
  BY <1>3, <1>4, Refused DEF Deleted

(* DeleteCollection is refused, or answered with what it matches.           *)
LEMMA DeletingMany ==
  ASSUME TypeOK, NEW ns \in Clients, NEW b \in BOOLEAN, NEW reply,
         reply \in Replies(RequestOf(
           Call("DeleteCollection", ns, Nil, Nil, [labels |-> b])))
  PROVE  Answers(reply)
<1> DEFINE r == [verb |-> "DELETE", ns |-> ns, name |-> Nil,
                 params |-> [labels |-> b], body |-> Nil]
<1>1. RequestOf(Call("DeleteCollection", ns, Nil, Nil, [labels |-> b])) = r
  BY DEF RequestOf, Call, C!DeleteCollection, C!Request, C!Networks, C!newNetworks
<1>2. \/ reply = Reply("Invalid", Nil) \/ reply = Reply("OK", Nil)
      \/ \E k \in Matching(r) : reply = Reply("OK", objects[k])
  BY <1>1 DEF Replies, Listed
<1>3. \A k \in Matching(r) : k \in Keys /\ objects[k] # Nil
  BY DEF Matching
<1> QED
  BY <1>2, <1>3, Refused DEF Answers, Reply

-----------------------------------------------------------------------------
(* What any call may do.                                                    *)

\* The call makes, counts up, labels or deletes the Network k.
Changes(call, k, new) ==
  \/ /\ call.method = "Create" /\ objects[k] = Nil
     /\ new = [New(k[1], k[2]) EXCEPT !.uid = Fresh, !.version = Fresh]
  \/ /\ call.method = "Update" /\ objects[k] # Nil
     /\ new = [objects[k] EXCEPT !.spec = @ + 1, !.version = Fresh]
  \/ /\ call.method = "Patch" /\ objects[k] # Nil
     /\ \E b \in BOOLEAN : new = [objects[k] EXCEPT !.labels = b, !.version = Fresh]
  \/ /\ call.method = "Delete" /\ objects[k] # Nil
     /\ call.options # Nil => call.options.uid = objects[k].uid
     /\ new = Nil

\* The Network the call names.
Meant(call) ==
  <<call.ns, IF call.method = "Create" THEN call.network.name ELSE call.name>>

(* The calls there are.                                                     *)
LEMMA CallCases ==
  ASSUME NEW Has, NEW call \in CallsWith(Has)
  PROVE  \/ \E ns \in Clients, n \in Names : call = Call("Get", ns, n, Nil, Nil)
         \/ \E ns \in Clients, b \in BOOLEAN :
              call = Call("List", ns, Nil, Nil, [labels |-> b])
         \/ \E ns \in Clients, n \in Names : call = Call("Create", ns, n, New(ns, n), Nil)
         \/ \E ns \in Clients, o \in Has :
              call = Call("Update", ns, o.name, Counted(o), Nil)
         \/ \E ns \in Clients, n \in Names, b \in BOOLEAN :
              call = Call("Patch", ns, n, [labels |-> b], Nil)
         \/ \E ns \in Clients, n \in Names : call = Call("Delete", ns, n, Nil, Nil)
         \/ \E o \in Has : call = Call("Delete", o.ns, o.name, Nil, [uid |-> o.uid])
         \/ \E ns \in Clients, b \in BOOLEAN :
              call = Call("DeleteCollection", ns, Nil, Nil, [labels |-> b])
<1> DEFINE
  Gets == {Call("Get", ns, n, Nil, Nil) : ns \in Clients, n \in Names}
  Lists == {Call("List", ns, Nil, Nil, [labels |-> b]) : ns \in Clients, b \in BOOLEAN}
  Creates == {Call("Create", ns, n, New(ns, n), Nil) : ns \in Clients, n \in Names}
  Updates == {Call("Update", ns, o.name, Counted(o), Nil) :
                ns \in Clients, o \in Has}
  Patches == {Call("Patch", ns, n, [labels |-> b], Nil) :
                ns \in Clients, n \in Names, b \in BOOLEAN}
  Deletes == {Call("Delete", ns, n, Nil, Nil) : ns \in Clients, n \in Names}
  Undoes == {Call("Delete", o.ns, o.name, Nil, [uid |-> o.uid]) : o \in Has}
  Sweeps == {Call("DeleteCollection", ns, Nil, Nil, [labels |-> b]) :
               ns \in Clients, b \in BOOLEAN}
<1>1. /\ FreeCalls = Gets \cup Lists \cup Creates \cup Patches \cup Deletes \cup Sweeps
      /\ CallsWith(Has) = FreeCalls \cup Updates \cup Undoes
  <2>1. FreeCalls = Gets \cup Lists \cup Creates \cup Patches \cup Deletes \cup Sweeps
    BY DEF FreeCalls
  <2>2. CallsWith(Has) = FreeCalls \cup Updates \cup Undoes
    BY DEF CallsWith
  <2> QED
    BY <2>1, <2>2
<1>2. /\ call \in Gets => \E ns \in Clients, n \in Names :
                            call = Call("Get", ns, n, Nil, Nil)
      /\ call \in Lists => \E ns \in Clients, b \in BOOLEAN :
                             call = Call("List", ns, Nil, Nil, [labels |-> b])
      /\ call \in Creates => \E ns \in Clients, n \in Names :
                               call = Call("Create", ns, n, New(ns, n), Nil)
  OBVIOUS
<1>3. /\ call \in Updates => \E ns \in Clients, o \in Has :
           call = Call("Update", ns, o.name, Counted(o), Nil)
      /\ call \in Patches => \E ns \in Clients, n \in Names, b \in BOOLEAN :
           call = Call("Patch", ns, n, [labels |-> b], Nil)
  OBVIOUS
<1>4. /\ call \in Deletes => \E ns \in Clients, n \in Names :
                               call = Call("Delete", ns, n, Nil, Nil)
      /\ call \in Undoes => \E o \in Has :
                              call = Call("Delete", o.ns, o.name, Nil, [uid |-> o.uid])
      /\ call \in Sweeps => \E ns \in Clients, b \in BOOLEAN :
           call = Call("DeleteCollection", ns, Nil, Nil, [labels |-> b])
  OBVIOUS
<1> HIDE DEF Gets, Lists, Creates, Updates, Patches, Deletes, Undoes, Sweeps
<1> QED
  BY <1>1, <1>2, <1>3, <1>4

(* A call changes nothing, or the Network it means.                         *)
LEMMA Effects ==
  ASSUME TypeOK, NEW call \in CallsWith(Copies),
         NEW reply \in Replies(RequestOf(call))
  PROVE  \/ Answers(reply) /\ (call.method = "Update" => reply.status # "OK")
         \/ \E k \in Keys : \E new :
              k = Meant(call) /\ Changes(call, k, new) /\ reply = Wrote(k, new)
<1> Copies \subseteq Networks
  BY DEF Copies
<1>1. CASE \/ \E ns \in Clients, n \in Names : call = Call("Get", ns, n, Nil, Nil)
           \/ \E ns \in Clients, b \in BOOLEAN :
                call = Call("List", ns, Nil, Nil, [labels |-> b])
  <2>1. Answers(reply) /\ call.method # "Update"
    BY <1>1, Getting, Listing DEF Call
  <2> QED
    BY <2>1
<1>2. CASE \E ns \in Clients, n \in Names :
             call = Call("Create", ns, n, New(ns, n), Nil)
  <2>1. PICK ns \in Clients, n \in Names :
          call = Call("Create", ns, n, New(ns, n), Nil)
    BY <1>2
  <2>2. Meant(call) = <<ns, n>> /\ call.method = "Create"
    BY <2>1 DEF Meant, Call, New
  <2> QED
    BY <2>1, <2>2, Creating DEF Changes
<1>3. CASE \E ns \in Clients, o \in Copies :
             call = Call("Update", ns, o.name, Counted(o), Nil)
  <2>1. PICK ns \in Clients, o \in Copies :
          call = Call("Update", ns, o.name, Counted(o), Nil)
    BY <1>3
  <2>2. Meant(call) = <<ns, o.name>> /\ call.method = "Update"
    BY <2>1 DEF Meant, Call
  <2>3. objects[KeyOf(o)] # Nil /\ o.version = objects[KeyOf(o)].version
          => o = objects[KeyOf(o)]
    BY DEF Copies
  <2>4. ASSUME ns = o.ns, KeyOf(o) \in Keys, objects[KeyOf(o)] # Nil,
               o.version = objects[KeyOf(o)].version,
               reply = Wrote(KeyOf(o), [o EXCEPT !.spec = @ + 1, !.version = Fresh])
        PROVE  \E k \in Keys : \E new :
                 k = Meant(call) /\ Changes(call, k, new) /\ reply = Wrote(k, new)
    <3> DEFINE new == [o EXCEPT !.spec = @ + 1, !.version = Fresh]
    <3>1. new = [objects[KeyOf(o)] EXCEPT !.spec = @ + 1, !.version = Fresh]
      BY <2>3, <2>4
    <3>2. Changes(call, KeyOf(o), new)
      BY <2>2, <2>4, <3>1 DEF Changes
    <3>3. KeyOf(o) = Meant(call)
      BY <2>2, <2>4 DEF KeyOf
    <3> QED
      BY <2>4, <3>2, <3>3
  <2> QED
    BY <2>1, <2>2, <2>4, Updating
<1>4. CASE \E ns \in Clients, n \in Names, b \in BOOLEAN :
             call = Call("Patch", ns, n, [labels |-> b], Nil)
  <2>1. PICK ns \in Clients, n \in Names, b \in BOOLEAN :
          call = Call("Patch", ns, n, [labels |-> b], Nil)
    BY <1>4
  <2>2. Meant(call) = <<ns, n>> /\ call.method = "Patch"
    BY <2>1 DEF Meant, Call
  <2> QED
    BY <2>1, <2>2, Patching DEF Changes
<1>5. CASE \/ \E ns \in Clients, n \in Names : call = Call("Delete", ns, n, Nil, Nil)
           \/ \E o \in Copies : call = Call("Delete", o.ns, o.name, Nil, [uid |-> o.uid])
  <2>1. PICK ns, n, options :
          ns \in Clients /\ n \in Names /\ call = Call("Delete", ns, n, Nil, options)
    BY <1>5 DEF Networks, Clients
  <2>2. Meant(call) = <<ns, n>> /\ call.method = "Delete" /\ call.options = options
    BY <2>1 DEF Meant, Call
  <2> QED
    BY <2>1, <2>2, Deleting DEF Changes
<1>6. CASE \E ns \in Clients, b \in BOOLEAN :
             call = Call("DeleteCollection", ns, Nil, Nil, [labels |-> b])
  <2>1. Answers(reply) /\ call.method # "Update"
    BY <1>6, DeletingMany DEF Call
  <2> QED
    BY <2>1
<1> QED
  BY <1>1, <1>2, <1>3, <1>4, <1>5, <1>6, CallCases

-----------------------------------------------------------------------------
(* What the store goes through.                                             *)

\* w's request makes the Network k new; the next version is new's, if it is
\* not deleted.
Stored(w, k, new) ==
  /\ objects' = [objects EXCEPT ![k] = new]
  /\ writer' = [writer EXCEPT ![k] = IF new = Nil THEN Nil ELSE w]
  /\ \/ new = Nil /\ revision' = revision
     \/ /\ new \in Networks /\ KeyOf(new) = k
        /\ revision' = Fresh /\ revision' <= MaxRev /\ new.version = Fresh

StoreStep(w) ==
  \/ UNCHANGED <<objects, writer, revision>>
  \/ \E k \in Keys : \E new : Stored(w, k, new)

StoreTypes ==
  /\ objects \in [Keys -> Networks \cup {Nil}]
  /\ \A k \in Keys : objects[k] # Nil => k = KeyOf(objects[k])
  /\ revision \in 0..MaxRev
  /\ writer \in [Keys -> Callers \cup {Nil}]

(* The store keeps its types and gives each version once: a copy stays one. *)
LEMMA StoreKept ==
  ASSUME TypeOK, VersionsOK, NEW w \in Callers, StoreStep(w)
  PROVE  /\ StoreTypes'
         /\ \A k \in Keys : objects'[k] # Nil => objects'[k].version <= revision'
         /\ Copies \subseteq Copies'
<1>1. StoreTypes /\ MaxRev \in Nat /\ Nil \notin Networks
  BY ConstantsOK, NilFacts DEF TypeOK, StoreTypes, KeyOf
<1>2. CASE UNCHANGED <<objects, writer, revision>>
  BY <1>1, <1>2 DEF StoreTypes, VersionsOK, Copies
<1>3. ASSUME NEW k \in Keys, NEW new, Stored(w, k, new)
      PROVE  /\ StoreTypes'
             /\ \A j \in Keys : objects'[j] # Nil => objects'[j].version <= revision'
             /\ Copies \subseteq Copies'
  <2>1. /\ objects' = [objects EXCEPT ![k] = new]
        /\ revision' >= revision /\ revision' \in 0..MaxRev
        /\ new # Nil => new \in Networks /\ KeyOf(new) = k
                          /\ new.version = revision' /\ revision' = revision + 1
    BY <1>1, <1>3 DEF Stored, StoreTypes, Fresh
  <2>2. \A j \in Keys : objects[j] # Nil =>
          objects[j].version <= revision /\ objects[j].version \in Nat
    BY <1>1 DEF VersionsOK, StoreTypes, Networks
  <2>3. StoreTypes'
    <3>1. writer' \in [Keys -> Callers \cup {Nil}]
      BY <1>1, <1>3 DEF Stored, StoreTypes
    <3> QED
      BY <1>1, <2>1, <3>1 DEF StoreTypes
  <2>4. \A j \in Keys : objects'[j] # Nil => objects'[j].version <= revision'
    BY <1>1, <2>1, <2>2 DEF StoreTypes
  <2>5. ASSUME NEW o \in Copies
        PROVE  o \in Copies'
    <3>1. /\ o \in Networks /\ o.version \in Nat /\ o.version <= revision
          /\ KeyOf(o) \in Keys
          /\ objects[KeyOf(o)] # Nil /\ objects[KeyOf(o)].version = o.version
               => objects[KeyOf(o)] = o
      BY DEF Copies, Networks, KeyOf, Keys
    <3>2. objects'[KeyOf(o)] # Nil /\ objects'[KeyOf(o)].version = o.version
            => objects'[KeyOf(o)] = o
      BY <1>1, <2>1, <3>1 DEF StoreTypes
    <3> QED
      BY <1>1, <2>1, <3>1, <3>2 DEF Copies, StoreTypes
  <2> QED
    BY <2>3, <2>4, <2>5
<1> QED
  BY <1>2, <1>3 DEF StoreStep

(* What is stored is a copy.                                                *)
LEMMA StoredIsCopy ==
  ASSUME TypeOK, VersionsOK, NEW k \in Keys, objects[k] # Nil
  PROVE  objects[k] \in Copies /\ KeyOf(objects[k]) = k
BY DEF TypeOK, VersionsOK, Copies, KeyOf

(* Who has more Networks can make more calls.                               *)
LEMMA MoreCalls ==
  ASSUME NEW A, NEW B, A \subseteq B
  PROVE  CallsWith(A) \subseteq CallsWith(B)
<1> DEFINE
  Updates(X) == {Call("Update", ns, o.name, Counted(o), Nil) : ns \in Clients, o \in X}
  Undoes(X) == {Call("Delete", o.ns, o.name, Nil, [uid |-> o.uid]) : o \in X}
<1>1. Updates(A) \subseteq Updates(B) /\ Undoes(A) \subseteq Undoes(B)
  OBVIOUS
<1>2. \A X : CallsWith(X) = FreeCalls \cup Updates(X) \cup Undoes(X)
  BY DEF CallsWith
<1> HIDE DEF Updates, Undoes
<1> QED
  BY <1>1, <1>2

(* Nobody's copy is taken for what he wrote by what another one writes.     *)
LEMMA WriterKept ==
  ASSUME TypeOK, WritersOK, NEW p \in Programs, held'[p] = held[p],
         \/ UNCHANGED <<objects, writer>>
         \/ \E k \in Keys : \E w, new : Stored(w, k, new) /\ (w # p \/ new = Nil)
  PROVE  held'[p] # Nil /\ objects'[KeyOf(held'[p])] # Nil
           /\ writer'[KeyOf(held'[p])] = p => held'[p] = objects'[KeyOf(held'[p])]
<1>1. CASE UNCHANGED <<objects, writer>>
  BY <1>1 DEF WritersOK
<1>2. ASSUME NEW k \in Keys, NEW w, NEW new, Stored(w, k, new), w # p \/ new = Nil
      PROVE  held'[p] # Nil /\ objects'[KeyOf(held'[p])] # Nil
               /\ writer'[KeyOf(held'[p])] = p => held'[p] = objects'[KeyOf(held'[p])]
  <2>1. /\ objects' = [objects EXCEPT ![k] = new]
        /\ writer' = [writer EXCEPT ![k] = IF new = Nil THEN Nil ELSE w]
    BY <1>2 DEF Stored
  <2>2. held[p] # Nil => KeyOf(held[p]) \in Keys
    BY DEF TypeOK, Networks, KeyOf, Keys
  <2> QED
    BY <1>2, <2>1, <2>2 DEF WritersOK, TypeOK
<1> QED
  BY <1>1, <1>2

(* What a call makes of the Network it means, has its key and counts what   *)
(* the old one counted, and one more for an update.                         *)
LEMMA Changed ==
  ASSUME TypeOK, NEW call, NEW k \in Keys, NEW new, Changes(call, k, new),
         new # Nil => revision < MaxRev
  PROVE  /\ call.method = "Delete" <=> new = Nil
         /\ call.method \in {"Create", "Update", "Patch", "Delete"}
         /\ call.method # "Create" => objects[k] \in Networks
         /\ new # Nil =>
              /\ new \in Networks /\ KeyOf(new) = k /\ new.version = Fresh
              /\ new.spec = CASE call.method = "Create" -> 0
                              [] call.method = "Update" -> objects[k].spec + 1
                              [] call.method = "Patch" -> objects[k].spec
<1>1. /\ k[1] \in Namespaces /\ k[2] \in Names /\ k = <<k[1], k[2]>>
      /\ objects[k] # Nil => objects[k] \in Networks /\ KeyOf(objects[k]) = k
      /\ Fresh \in Nat /\ (revision < MaxRev => Fresh \in 1..MaxRev)
  BY ConstantsOK DEF TypeOK, Keys, Fresh, KeyOf
<1>2. CASE call.method = "Create"
  <2>1. new = [New(k[1], k[2]) EXCEPT !.uid = Fresh, !.version = Fresh]
    BY <1>2 DEF Changes
  <2>2. new = [ns |-> k[1], name |-> k[2], uid |-> Fresh, version |-> Fresh,
               labels |-> TRUE, spec |-> 0]
    BY <2>1 DEF New
  <2>3. new # Nil
    <3>1. new \in AnyNetwork
      BY <1>1, <2>2 DEF AnyNetwork
    <3> QED
      BY <3>1, NilFacts
  <2>4. new \in Networks /\ KeyOf(new) = k /\ new.version = Fresh /\ new.spec = 0
    BY <1>1, <2>2, <2>3 DEF Networks, KeyOf
  <2> QED
    BY <1>2, <2>3, <2>4
<1>3. CASE call.method = "Update"
  <2>1. objects[k] \in Networks /\ KeyOf(objects[k]) = k
    BY <1>1, <1>3 DEF Changes
  <2>2. new = [objects[k] EXCEPT !.spec = @ + 1, !.version = Fresh]
    BY <1>3 DEF Changes
  <2>3. new # Nil
    <3>1. new \in AnyNetwork
      BY <1>1, <2>1, <2>2, Renewed
    <3> QED
      BY <3>1, NilFacts
  <2>4. /\ new \in Networks /\ KeyOf(new) = k
        /\ new.version = Fresh /\ new.spec = objects[k].spec + 1
    <3>1. new \in Networks
      BY <1>1, <2>1, <2>2, <2>3, Renewed
    <3>2. KeyOf(new) = KeyOf(objects[k]) /\ new.version = Fresh
            /\ new.spec = objects[k].spec + 1
      BY <2>1, <2>2 DEF Networks, KeyOf
    <3> QED
      BY <2>1, <3>1, <3>2
  <2> QED
    BY <1>3, <2>1, <2>3, <2>4
<1>4. CASE call.method = "Patch"
  <2>1. objects[k] \in Networks /\ KeyOf(objects[k]) = k
    BY <1>1, <1>4 DEF Changes
  <2>2. PICK b \in BOOLEAN :
          new = [objects[k] EXCEPT !.labels = b, !.version = Fresh]
    BY <1>4 DEF Changes
  <2>3. new # Nil
    <3>1. new \in AnyNetwork
      BY <1>1, <2>1, <2>2, Renewed
    <3> QED
      BY <3>1, NilFacts
  <2>4. /\ new \in Networks /\ KeyOf(new) = k
        /\ new.version = Fresh /\ new.spec = objects[k].spec
    BY <1>1, <2>1, <2>2, <2>3 DEF Networks, KeyOf
  <2> QED
    BY <1>4, <2>1, <2>3, <2>4
<1>5. CASE call.method = "Delete"
  BY <1>1, <1>5 DEF Changes
<1> QED
  BY <1>2, <1>3, <1>4, <1>5 DEF Changes

(* The counts of a call that changes nothing, and of one that does.         *)
LEMMA Counts ==
  ASSUME NEW counts, NEW call, NEW reply, NEW n
  PROVE  /\ reply.key = Nil /\ (call.method = "Update" => reply.status # "OK")
              => Count(counts, call, reply, n) = counts
         /\ \A k \in Keys : \A new : reply = Wrote(k, new) =>
              /\ call.method \in {"Create", "Delete"}
                   => Count(counts, call, reply, n) = [counts EXCEPT ![k] = 0]
              /\ call.method = "Patch" => Count(counts, call, reply, n) = counts
              /\ call.method = "Update" /\ KeyOf(new) = k
                   => Count(counts, call, reply, n) = [counts EXCEPT ![k] = @ + n]
<1>1. reply.key = Nil /\ (call.method = "Update" => reply.status # "OK")
        => Count(counts, call, reply, n) = counts
  BY DEF Count
<1>2. ASSUME NEW k \in Keys, NEW new, reply = Wrote(k, new)
      PROVE  /\ call.method \in {"Create", "Delete"}
                   => Count(counts, call, reply, n) = [counts EXCEPT ![k] = 0]
             /\ call.method = "Patch" => Count(counts, call, reply, n) = counts
             /\ call.method = "Update" /\ KeyOf(new) = k
                   => Count(counts, call, reply, n) = [counts EXCEPT ![k] = @ + n]
  <2>1. /\ reply.status = "OK" /\ reply.key = k /\ reply.key # Nil
        /\ reply.network = new
    BY <1>2, NilFacts DEF Wrote
  <2>2. ASSUME call.method = "Update", KeyOf(new) = k
        PROVE  Count(counts, call, reply, n) = [counts EXCEPT ![k] = @ + n]
    BY <2>1, <2>2 DEF Count, KeyOf
  <2>3. ASSUME call.method \in {"Create", "Delete"}
        PROVE  Count(counts, call, reply, n) = [counts EXCEPT ![k] = 0]
    BY <2>1, <2>3 DEF Count
  <2>4. ASSUME call.method = "Patch"
        PROVE  Count(counts, call, reply, n) = counts
    BY <2>4 DEF Count
  <2> QED
    BY <2>2, <2>3, <2>4
<1> QED
  BY <1>1, <1>2

(* The server handles a call: every update it does is counted once, and no  *)
(* call undoes what another one did.                                        *)
LEMMA Served ==
  ASSUME ClientsInv, NEW w \in Callers, NEW call \in CallsWith(Copies),
         NEW reply \in Replies(RequestOf(call)), Serve(w, reply),
         NEW m \in {0, 1}, NEW n \in {0, 1}, m + n = 1,
         acked' = Count(acked, call, reply, m),
         orphaned' = Count(orphaned, call, reply, n)
  PROVE  /\ \/ UNCHANGED <<objects, writer, revision>> /\ Answers(reply)
            \/ \E k \in Keys : \E new :
                 Stored(w, k, new) /\ reply.network = new /\ reply.status = "OK"
         /\ acked' \in [Keys -> Nat] /\ orphaned' \in [Keys -> Nat]
         /\ NoUpdateLost'
<1>t. /\ objects \in [Keys -> Networks \cup {Nil}]
      /\ acked \in [Keys -> Nat] /\ orphaned \in [Keys -> Nat]
      /\ \A k \in Keys : objects[k] # Nil => objects[k].spec = acked[k] + orphaned[k]
  BY DEF ClientsInv, TypeOK, NoUpdateLost
<1>1. CASE Answers(reply) /\ (call.method = "Update" => reply.status # "OK")
  <2>1. UNCHANGED <<objects, writer, revision, acked, orphaned>>
    BY <1>1, Counts DEF Answers, Serve
  <2> QED
    BY <1>t, <1>1, <2>1 DEF NoUpdateLost
<1>2. ASSUME NEW k \in Keys, NEW new, Changes(call, k, new), reply = Wrote(k, new)
      PROVE  /\ Stored(w, k, new) /\ reply.network = new /\ reply.status = "OK"
             /\ acked' \in [Keys -> Nat] /\ orphaned' \in [Keys -> Nat]
             /\ NoUpdateLost'
  <2>1. Write(w, k, new) /\ reply.network = new /\ reply.status = "OK"
    BY <1>2, NilFacts DEF Serve, Wrote
  <2>2. /\ call.method = "Delete" <=> new = Nil
        /\ call.method \in {"Create", "Update", "Patch", "Delete"}
        /\ call.method # "Create" => objects[k] \in Networks
        /\ new # Nil =>
             /\ new \in Networks /\ KeyOf(new) = k /\ new.version = Fresh
             /\ new.spec = CASE call.method = "Create" -> 0
                             [] call.method = "Update" -> objects[k].spec + 1
                             [] call.method = "Patch" -> objects[k].spec
    BY <1>2, <2>1, Changed DEF ClientsInv, Write
  <2>3. Stored(w, k, new)
    <3>1. /\ objects' = [objects EXCEPT ![k] = new]
          /\ writer' = [writer EXCEPT ![k] = IF new = Nil THEN Nil ELSE w]
          /\ new = Nil => revision' = revision
          /\ new # Nil => revision' = Fresh /\ revision' <= MaxRev
      BY <2>1, ConstantsOK DEF Write, ClientsInv, TypeOK, Fresh
    <3> QED
      BY <2>2, <3>1 DEF Stored
  <2>4. objects' = [objects EXCEPT ![k] = new]
    BY <2>1 DEF Write
  <2>5. CASE call.method \in {"Create", "Delete"}
    <3>1. /\ acked' = [acked EXCEPT ![k] = 0] /\ orphaned' = [orphaned EXCEPT ![k] = 0]
          /\ new # Nil => new.spec = 0
      BY <1>2, <2>2, <2>5, Counts
    <3> QED
      BY <1>t, <2>1, <2>3, <2>4, <3>1 DEF NoUpdateLost
  <2>6. CASE call.method = "Patch"
    <3>1. /\ acked' = acked /\ orphaned' = orphaned
          /\ objects[k] # Nil /\ new.spec = objects[k].spec
      BY <1>2, <2>2, <2>6, Counts, NilFacts
    <3> QED
      BY <1>t, <2>1, <2>3, <2>4, <3>1 DEF NoUpdateLost
  <2>7. CASE call.method = "Update"
    <3>1. /\ acked' = [acked EXCEPT ![k] = @ + m]
          /\ orphaned' = [orphaned EXCEPT ![k] = @ + n]
          /\ objects[k] # Nil /\ new.spec = objects[k].spec + 1
      BY <1>2, <2>2, <2>7, Counts, NilFacts
    <3>2. acked' \in [Keys -> Nat] /\ orphaned' \in [Keys -> Nat]
      BY <1>t, <3>1
    <3>3. new.spec = acked'[k] + orphaned'[k]
      BY <1>t, <3>1
    <3> QED
      BY <1>t, <2>1, <2>3, <2>4, <3>1, <3>2, <3>3 DEF NoUpdateLost
  <2> QED
    BY <2>2, <2>5, <2>6, <2>7
<1> QED
  BY <1>1, <1>2, Effects DEF ClientsInv

-----------------------------------------------------------------------------
(* Every step keeps the invariant.                                          *)

(* What a program may call next, and what comes late.                       *)
LEMMA CallsKnown ==
  ASSUME ClientsInv
  PROVE  /\ \A p \in Programs : Calls(p) \subseteq CallsWith(Copies)
         /\ late # Nil => late \in CallsWith(Copies)
<1>1. ASSUME NEW p \in Programs
      PROVE  Calls(p) \subseteq CallsWith(Copies)
  <2>1. {held[p]} \ {Nil} \subseteq Copies
    BY DEF ClientsInv, VersionsOK
  <2> QED
    BY <2>1, MoreCalls DEF Calls
<1> QED
  BY <1>1 DEF ClientsInv, VersionsOK

(* A collection is deleted by a call that needs no Network.                 *)
LEMMA Collections ==
  ASSUME NEW call \in CallsWith(Copies), IsCollection(RequestOf(call))
  PROVE  call \in FreeCalls
<1>1. /\ Copies \subseteq Networks
      /\ \A o \in Copies : o.name # Nil
  BY NilFacts DEF Copies, Networks
<1>2. ASSUME NEW ns \in Clients, NEW o \in Copies,
             call = Call("Update", ns, o.name, Counted(o), Nil)
      PROVE  FALSE
  BY <1>2 DEF IsCollection, RequestOf, Call, C!Update, C!Request, C!Networks,
     C!newNetworks
<1>3. ASSUME NEW o \in Copies,
             call = Call("Delete", o.ns, o.name, Nil, [uid |-> o.uid])
      PROVE  FALSE
  BY <1>1, <1>3 DEF IsCollection, RequestOf, Call, C!Delete, C!Request,
     C!Networks, C!newNetworks
<1> QED
  <2> DEFINE
    Updates == {Call("Update", ns, o.name, Counted(o), Nil) :
                  ns \in Clients, o \in Copies}
    Undoes == {Call("Delete", o.ns, o.name, Nil, [uid |-> o.uid]) : o \in Copies}
  <2>1. CallsWith(Copies) = FreeCalls \cup Updates \cup Undoes
    BY DEF CallsWith
  <2>2. /\ call \in Updates => \E ns \in Clients, o \in Copies :
             call = Call("Update", ns, o.name, Counted(o), Nil)
        /\ call \in Undoes => \E o \in Copies :
             call = Call("Delete", o.ns, o.name, Nil, [uid |-> o.uid])
    OBVIOUS
  <2> HIDE DEF Updates, Undoes
  <2>3. call \notin Updates
    BY <1>2, <2>2
  <2>4. call \notin Undoes
    BY <1>3, <2>2
  <2> QED
    BY <2>1, <2>3, <2>4

SweepRecords == [call : FreeCalls, doomed : SUBSET Keys]

(* What comes late was known before.                                        *)
LEMMA LateKept ==
  ASSUME ClientsInv, Copies \subseteq Copies', late' \in {late, Nil}
  PROVE  late' # Nil => late' \in CallsWith(Copies)'
<1>1. \A A, B : A \subseteq B => CallsWith(A) \subseteq CallsWith(B)
  BY MoreCalls
<1>2. CallsWith(Copies') = CallsWith(Copies)'
  BY DEF CallsWith
<1> QED
  BY <1>1, <1>2, CallsKnown

(* The invariant from what a step does with the store and what it may do    *)
(* with the rest.                                                           *)
LEMMA KeptWith ==
  ASSUME ClientsInv, NEW w \in Callers, StoreStep(w),
         held' \in [Programs -> Networks \cup {Nil}],
         \A p \in Programs : held'[p] # Nil => held'[p] \in Copies',
         late' # Nil => late' \in CallsWith(Copies)',
         sweep' \in [Callers -> SweepRecords \cup {Nil}],
         faults' \in 0..MaxFaults,
         acked' \in [Keys -> Nat], orphaned' \in [Keys -> Nat],
         NoUpdateLost', WritersOK'
  PROVE  ClientsInv'
<1>1. /\ StoreTypes'
      /\ \A k \in Keys : objects'[k] # Nil => objects'[k].version <= revision'
  BY StoreKept DEF ClientsInv
<1>2. TypeOK'
  BY <1>1 DEF TypeOK, StoreTypes, SweepRecords, KeyOf
<1>3. VersionsOK'
  BY <1>1 DEF VersionsOK
<1> QED
  BY <1>2, <1>3 DEF ClientsInv

(* The same for a step that leaves alone what the programs hold.            *)
LEMMA KeptHeld ==
  ASSUME ClientsInv, NEW w \in Callers, held' = held,
         \/ UNCHANGED <<objects, writer, revision>>
         \/ \E k \in Keys : \E new :
              Stored(w, k, new) /\ (w \notin Programs \/ new = Nil),
         late' \in {late, Nil}, sweep' \in [Callers -> SweepRecords \cup {Nil}],
         faults' \in 0..MaxFaults,
         acked' \in [Keys -> Nat], orphaned' \in [Keys -> Nat],
         NoUpdateLost'
  PROVE  ClientsInv'
<1>1. StoreStep(w)
  BY DEF StoreStep
<1>2. Copies \subseteq Copies'
  BY <1>1, StoreKept DEF ClientsInv
<1>3. late' # Nil => late' \in CallsWith(Copies)'
  BY <1>2, LateKept
<1>4. WritersOK'
  <2>1. ASSUME NEW p \in Programs
        PROVE  held'[p] # Nil /\ objects'[KeyOf(held'[p])] # Nil
                 /\ writer'[KeyOf(held'[p])] = p => held'[p] = objects'[KeyOf(held'[p])]
    BY WriterKept DEF ClientsInv
  <2> QED
    BY <2>1 DEF WritersOK, KeyOf
<1>5. /\ held' \in [Programs -> Networks \cup {Nil}]
      /\ \A p \in Programs : held'[p] # Nil => held'[p] \in Copies'
  BY <1>2 DEF ClientsInv, TypeOK, VersionsOK
<1> QED
  BY <1>1, <1>3, <1>4, <1>5, KeptWith

(* A call that returns: the program holds what the server has, unless it    *)
(* was refused.                                                             *)
LEMMA ReturnsKept ==
  ASSUME ClientsInv, NEW p \in Programs, CallReturns(p)
  PROVE  ClientsInv'
<1>0. PICK call \in Calls(p) :
        \E reply \in Replies(RequestOf(call)) :
          Serve(p, reply) /\ Returns(p, call, reply)
  BY DEF CallReturns
<1>1. PICK reply \in Replies(RequestOf(call)) :
        Serve(p, reply) /\ Returns(p, call, reply)
  BY <1>0
<1>2. /\ late' = late /\ p \in Callers
      /\ sweep' \in [Callers -> SweepRecords \cup {Nil}] /\ faults' \in 0..MaxFaults
  BY <1>1 DEF CallReturns, Returns, ClientsInv, TypeOK, SweepRecords, Callers
<1>3. /\ \/ UNCHANGED <<objects, writer, revision>> /\ Answers(reply)
         \/ \E k \in Keys : \E new :
              Stored(p, k, new) /\ reply.network = new /\ reply.status = "OK"
      /\ acked' \in [Keys -> Nat] /\ orphaned' \in [Keys -> Nat]
      /\ NoUpdateLost'
  <2>1. call \in CallsWith(Copies) /\ p \in Callers
    BY CallsKnown DEF Callers
  <2>2. acked' = Count(acked, call, reply, 1) /\ orphaned' = Count(orphaned, call, reply, 0)
    BY <1>1 DEF Returns
  <2> QED
    BY <1>1, <2>1, <2>2, Served
<1>4. StoreStep(p)
  BY <1>3 DEF StoreStep
<1>5. /\ StoreTypes'
      /\ \A k \in Keys : objects'[k] # Nil => objects'[k].version <= revision'
      /\ Copies \subseteq Copies'
  BY <1>4, StoreKept DEF ClientsInv, Callers
<1>6. CASE reply.status = "OK" /\ reply.network # Nil
  <2>1. held' = [held EXCEPT ![p] = reply.network]
    BY <1>1, <1>6 DEF Returns, Result
  <2>2. \E k \in Keys : objects'[k] # Nil /\ reply.network = objects'[k]
    BY <1>3, <1>6 DEF Answers, Stored, ClientsInv, TypeOK
  <2>3. /\ reply.network \in Copies' /\ reply.network \in Networks
        /\ reply.network = objects'[KeyOf(reply.network)]
    BY <1>5, <2>2 DEF StoreTypes, Copies, KeyOf
  <2>4. held' \in [Programs -> Networks \cup {Nil}]
    BY <2>1, <2>3 DEF ClientsInv, TypeOK
  <2>5. \A q \in Programs : held'[q] # Nil => held'[q] \in Copies'
    BY <1>5, <2>1, <2>3 DEF ClientsInv, TypeOK, VersionsOK
  <2>6. WritersOK'
    <3>1. ASSUME NEW q \in Programs, q # p
          PROVE  held'[q] # Nil /\ objects'[KeyOf(held'[q])] # Nil
                   /\ writer'[KeyOf(held'[q])] = q => held'[q] = objects'[KeyOf(held'[q])]
      <4>1. held'[q] = held[q]
        BY <2>1, <3>1 DEF ClientsInv, TypeOK
      <4> QED
        BY <1>3, <3>1, <4>1, WriterKept DEF ClientsInv
    <3>2. held'[p] = objects'[KeyOf(held'[p])]
      BY <2>1, <2>3 DEF ClientsInv, TypeOK
    <3> QED
      BY <3>1, <3>2 DEF WritersOK, KeyOf
  <2> QED
    BY <1>2, <1>3, <1>4, <1>5, <2>4, <2>5, <2>6, KeptWith, LateKept
<1>7. CASE ~(reply.status = "OK" /\ reply.network # Nil)
  <2>1. held' = held
    BY <1>1, <1>7 DEF Returns, Result
  <2> QED
    BY <1>2, <1>3, <1>7, <2>1, KeptHeld
<1> QED
  BY <1>6, <1>7

(* The server handles a call nobody waits for.                              *)
LEMMA OrphanedKept ==
  ASSUME ClientsInv, NEW call \in CallsWith(Copies), Orphaned(call),
         late' \in {late, Nil}, sweep' = sweep, held' = held,
         faults' \in 0..MaxFaults
  PROVE  ClientsInv'
<1>1. PICK reply \in Replies(RequestOf(call)) :
        /\ Serve(Late, reply)
        /\ acked' = Count(acked, call, reply, 0)
        /\ orphaned' = Count(orphaned, call, reply, 1)
  BY DEF Orphaned
<1>2. Late \in Callers /\ Late \notin Programs
  BY ConstantsOK DEF Callers
<1>3. /\ \/ UNCHANGED <<objects, writer, revision>> /\ Answers(reply)
         \/ \E k \in Keys : \E new :
              Stored(Late, k, new) /\ reply.network = new /\ reply.status = "OK"
      /\ acked' \in [Keys -> Nat] /\ orphaned' \in [Keys -> Nat]
      /\ NoUpdateLost'
  BY <1>1, <1>2, Served
<1>4. sweep' \in [Callers -> SweepRecords \cup {Nil}]
  BY DEF ClientsInv, TypeOK, SweepRecords
<1> QED
  BY <1>2, <1>3, <1>4, KeptHeld

(* The server deletes the next Network of a collection.                     *)
LEMMA SweepKept ==
  ASSUME ClientsInv, NEW p \in Callers, SweepDeletes(p)
  PROVE  ClientsInv'
<1>1. PICK k \in sweep[p].doomed :
        /\ sweep' = [sweep EXCEPT ![p].doomed = @ \ {k}]
        /\ IF objects[k] = Nil THEN UNCHANGED <<serverVars, writer>> ELSE Write(p, k, Nil)
  BY DEF SweepDeletes
<1>2. /\ sweep \in [Callers -> SweepRecords \cup {Nil}] /\ sweep[p] \in SweepRecords
      /\ UNCHANGED <<held, late, acked, orphaned, faults>>
      /\ faults \in 0..MaxFaults /\ NoUpdateLost
      /\ acked \in [Keys -> Nat] /\ orphaned \in [Keys -> Nat]
      /\ objects \in [Keys -> Networks \cup {Nil}]
  BY DEF SweepDeletes, Idle, ClientsInv, TypeOK, SweepRecords
<1>3. k \in Keys /\ [sweep[p] EXCEPT !.doomed = @ \ {k}] \in SweepRecords
  BY <1>2 DEF SweepRecords
<1>4. sweep' \in [Callers -> SweepRecords \cup {Nil}]
  BY <1>1, <1>2, <1>3
<1>5. CASE objects[k] = Nil
  <2>1. UNCHANGED <<objects, writer, revision>> /\ NoUpdateLost'
    BY <1>1, <1>2, <1>5 DEF NoUpdateLost
  <2> QED
    BY <1>2, <1>4, <2>1, KeptHeld
<1>6. CASE objects[k] # Nil
  <2>1. Stored(p, k, Nil)
    BY <1>1, <1>6 DEF Write, Stored
  <2>2. NoUpdateLost'
    BY <1>2, <1>3, <2>1 DEF NoUpdateLost, Stored
  <2> QED
    BY <1>2, <1>3, <1>4, <2>1, <2>2, KeptHeld
<1> QED
  BY <1>5, <1>6

LEMMA ClientsInit == Init => ClientsInv
<1> SUFFICES ASSUME Init PROVE ClientsInv
  OBVIOUS
<1>1. TypeOK
  <2>1. revision \in 0..MaxRev /\ faults \in 0..MaxFaults
    BY ConstantsOK DEF Init
  <2> QED
    BY <2>1 DEF Init, TypeOK
<1>2. VersionsOK /\ WritersOK /\ NoUpdateLost
  BY DEF Init, VersionsOK, WritersOK, NoUpdateLost
<1> QED
  BY <1>1, <1>2 DEF ClientsInv

LEMMA ClientsStep ==
  ASSUME ClientsInv, [Next]_vars
  PROVE  ClientsInv'
<1>t. /\ sweep \in [Callers -> SweepRecords \cup {Nil}]
      /\ faults \in 0..MaxFaults
      /\ faults < MaxFaults => faults + 1 \in 0..MaxFaults
      /\ acked \in [Keys -> Nat] /\ orphaned \in [Keys -> Nat] /\ NoUpdateLost
      /\ Late \in Callers /\ Programs \subseteq Callers
  BY ConstantsOK DEF ClientsInv, TypeOK, SweepRecords, Callers
<1>m. \A call : Matching(RequestOf(call)) \subseteq Keys
  BY DEF Matching
<1>q. ASSUME UNCHANGED <<objects, writer, revision, held, acked, orphaned>>,
             late' \in {late, Nil}, sweep' \in [Callers -> SweepRecords \cup {Nil}],
             faults' \in 0..MaxFaults
      PROVE  ClientsInv'
  <2>1. NoUpdateLost'
    BY <1>t, <1>q DEF NoUpdateLost
  <2> QED
    BY <1>t, <1>q, <2>1, KeptHeld
<1>1. ASSUME NEW p \in Programs, CallReturns(p)
      PROVE  ClientsInv'
  BY <1>1, ReturnsKept
<1>2. ASSUME NEW p \in Programs, AnswerLost(p)
      PROVE  ClientsInv'
  <2>1. PICK call \in Calls(p) : Orphaned(call)
    BY <1>2 DEF AnswerLost
  <2> QED
    BY <1>t, <1>2, <2>1, CallsKnown, OrphanedKept DEF AnswerLost, Fails
<1>3. ASSUME NEW p \in Programs, RequestDelayed(p)
      PROVE  ClientsInv'
  <2>1. /\ UNCHANGED <<objects, revision, sweep, writer, acked, orphaned, held>>
        /\ late' \in CallsWith(Copies) /\ faults' \in 0..MaxFaults
    BY <1>t, <1>3, CallsKnown DEF RequestDelayed, Fails
  <2>2. Copies' = Copies /\ CallsWith(Copies)' = CallsWith(Copies)
    BY <2>1 DEF Copies, CallsWith
  <2> QED
    BY <2>1, <2>2 DEF ClientsInv, TypeOK, VersionsOK, WritersOK, NoUpdateLost
<1>4. CASE LateRequest
  BY <1>t, <1>4, CallsKnown, OrphanedKept DEF LateRequest
<1>5. CASE LateRequestLost
  BY <1>t, <1>q, <1>5 DEF LateRequestLost
<1>6. ASSUME NEW p \in Callers, NEW call \in CallsWith(Copies), Sweep(p, call)
      PROVE  sweep' \in [Callers -> SweepRecords \cup {Nil}]
  BY <1>t, <1>m, <1>6, Collections DEF Sweep, SweepRecords
<1>7. ASSUME NEW p \in Programs, SweepBegins(p)
      PROVE  ClientsInv'
  BY <1>t, <1>q, <1>6, <1>7, CallsKnown DEF SweepBegins
<1>8. CASE LateSweepBegins
  BY <1>t, <1>q, <1>6, <1>8, CallsKnown DEF LateSweepBegins
<1>9. ASSUME NEW p \in Callers, SweepDeletes(p)
      PROVE  ClientsInv'
  BY <1>9, SweepKept
<1>10. ASSUME NEW p \in Callers, SweepEnds(p)
       PROVE  ClientsInv'
  BY <1>t, <1>q, <1>10 DEF SweepEnds
<1>11. ASSUME NEW p \in Programs, SweepIsLeft(p)
       PROVE  ClientsInv'
  <2>1. sweep' \in [Callers -> SweepRecords \cup {Nil}]
    BY <1>t, <1>11 DEF SweepIsLeft
  <2> QED
    BY <1>t, <1>q, <1>11, <2>1 DEF SweepIsLeft, Fails
<1>12. CASE UNCHANGED vars
  BY <1>t, <1>q, <1>12
<1> QED
  BY <1>1, <1>2, <1>3, <1>4, <1>5, <1>7, <1>8, <1>9, <1>10, <1>11, <1>12 DEF Next

LEMMA ClientsInvAlways == Spec => []ClientsInv
BY ClientsInit, ClientsStep, PTL DEF Spec

-----------------------------------------------------------------------------
(* The theorems.                                                            *)

(* Everything has its type; what is stored is stored under its own key.     *)
THEOREM TypeCorrect == Spec => []TypeOK
<1>1. ClientsInv => TypeOK
  BY DEF ClientsInv
<1> QED
  BY <1>1, ClientsInvAlways, PTL

(* However many programs read, change and write back through the clientset, *)
(* and whatever requests come late or answers are lost, every update the    *)
(* server did counts exactly once.                                          *)
THEOREM UpdatesCount == Spec => []NoUpdateLost
<1>1. ClientsInv => NoUpdateLost
  BY DEF ClientsInv
<1> QED
  BY <1>1, ClientsInvAlways, PTL

(* The calls that may reach the server next are known.                      *)
LEMMA PendingKnown ==
  ASSUME ClientsInv
  PROVE  Pending \subseteq CallsWith(Copies)
<1> SUFFICES ASSUME NEW call \in Pending
             PROVE  call \in CallsWith(Copies)
  OBVIOUS
<1>1. (call = late /\ late # Nil) \/ \E p \in Programs : call \in Calls(p)
  <2> DEFINE All == {Calls(p) : p \in {q \in Programs : Idle(q)}}
  <2>1. Pending = (UNION All) \cup ({late} \ {Nil})
    BY DEF Pending
  <2>2. call \in UNION All => \E p \in Programs : call \in Calls(p)
    OBVIOUS
  <2> HIDE DEF All
  <2> QED
    BY <2>1, <2>2
<1> QED
  BY <1>1, CallsKnown

(* A call, however late, changes only the Network it names, a Delete for a  *)
(* Network read before only that one, and a collection what is selected.    *)
THEOREM CallsAreNarrow == Spec => []CallsChangeOnlyWhatWasMeant
<1>1. ASSUME ClientsInv
      PROVE  CallsChangeOnlyWhatWasMeant
  <2> SUFFICES ASSUME NEW call \in Pending
               PROVE
        /\ \A reply \in Replies(RequestOf(call)) : reply.key # Nil =>
             /\ reply.key = Meant(call)
             /\ call.method = "Delete" /\ call.options # Nil =>
                  objects[reply.key].uid = call.options.uid
        /\ call.method = "DeleteCollection" /\ call.ns # NamespaceAll =>
             Matching(RequestOf(call)) =
               {k \in Keys : /\ objects[k] # Nil /\ k[1] = call.ns
                             /\ call.options.labels => objects[k].labels}
    BY DEF CallsChangeOnlyWhatWasMeant, Meant
  <2>1. call \in CallsWith(Copies)
    BY <1>1, PendingKnown
  <2>2. ASSUME NEW reply \in Replies(RequestOf(call)), reply.key # Nil
        PROVE  /\ reply.key = Meant(call)
               /\ call.method = "Delete" /\ call.options # Nil =>
                    objects[reply.key].uid = call.options.uid
    <3>1. PICK k, new :
            k = Meant(call) /\ Changes(call, k, new) /\ reply = Wrote(k, new)
      BY <1>1, <2>1, <2>2, Effects DEF ClientsInv, Answers
    <3> QED
      BY <3>1 DEF Changes, Wrote
  <2>3. ASSUME call.method = "DeleteCollection", call.ns # NamespaceAll
        PROVE  Matching(RequestOf(call)) =
                 {k \in Keys : /\ objects[k] # Nil /\ k[1] = call.ns
                               /\ call.options.labels => objects[k].labels}
    <3>1. RequestOf(call)
            = [verb |-> "DELETE", ns |-> call.ns, name |-> Nil,
               params |-> call.options, body |-> Nil]
      BY <2>3 DEF RequestOf, C!DeleteCollection, C!Request, C!Networks, C!newNetworks
    <3>2. call.ns \in Clients
      BY <2>1, <2>3, CallCases DEF Call
    <3> QED
      BY <2>3, <3>1, <3>2 DEF Matching
  <2> QED
    BY <2>2, <2>3
<1> QED
  BY <1>1, ClientsInvAlways, PTL

(* An Update that meets a conflict did not have the Network as it is.       *)
LEMMA UpdateRefused ==
  ASSUME TypeOK, NEW ns \in Clients, NEW o \in Networks,
         Reply("Conflict", Nil) \in
           Replies(RequestOf(Call("Update", ns, o.name, Counted(o), Nil)))
  PROVE  ns = o.ns /\ objects[KeyOf(o)] # Nil /\ objects[KeyOf(o)] # o
<1> DEFINE body == Counted(o)
           r == [verb |-> "PUT", ns |-> ns, name |-> o.name, params |-> Nil,
                 body |-> body]
<1>1. /\ o.name # Nil /\ body.ns = o.ns /\ body.uid = o.uid
      /\ body.version = o.version /\ body.name = o.name
  BY NilFacts DEF Networks, Counted
<1>2. RequestOf(Call("Update", ns, o.name, body, Nil)) = r
  BY <1>1 DEF RequestOf, Call, C!Update, C!Request, C!Networks, C!newNetworks
<1> HIDE DEF body
<1>3. Reply("Conflict", Nil) \notin {Reply("Invalid", Nil), Reply("NotFound", Nil)}
  BY DEF Reply
<1>4. ns = o.ns /\ objects[<<ns, o.name>>] # Nil
        /\ Reply("Conflict", Nil) = Put(<<ns, o.name>>, body)
  <2> HIDE DEF r
  <2>1. r.verb = "PUT" /\ r.ns = ns /\ r.name = o.name /\ r.body = body
    BY DEF r
  <2>2. Reply("Conflict", Nil) \in Replies(r)
    BY <1>2 DEF body
  <2> QED
    BY <1>1, <1>3, <2>1, <2>2 DEF Replies, Invalid
<1>5. objects[<<ns, o.name>>] # o
  <2>1. \A k, new : Wrote(k, new) # Reply("Conflict", Nil)
    BY DEF Wrote, Reply
  <2> QED
    BY <1>1, <1>4, <2>1 DEF Put
<1> QED
  BY <1>4, <1>5 DEF KeyOf

(* Nor did a Delete that names an identity.                                 *)
LEMMA DeleteRefused ==
  ASSUME TypeOK, NEW ns \in Clients, NEW n \in Names, NEW options,
         Reply("Conflict", Nil) \in Replies(RequestOf(Call("Delete", ns, n, Nil, options)))
  PROVE  /\ objects[<<ns, n>>] # Nil /\ options # Nil
         /\ options.uid # objects[<<ns, n>>].uid
<1> DEFINE r == [verb |-> "DELETE", ns |-> ns, name |-> n, params |-> Nil,
                 body |-> options]
<1>1. RequestOf(Call("Delete", ns, n, Nil, options)) = r
  BY DEF RequestOf, Call, C!Delete, C!Request, C!Networks, C!newNetworks
<1>2. n # Nil
  BY NilFacts
<1>3. Reply("Conflict", Nil) \notin {Reply("Invalid", Nil), Reply("NotFound", Nil)}
  BY DEF Reply
<1>4. objects[<<ns, n>>] # Nil /\ Reply("Conflict", Nil) = Deleted(<<ns, n>>, options)
  BY <1>1, <1>2, <1>3 DEF Replies, Invalid
<1>5. \A k, new : Wrote(k, new) # Reply("Conflict", Nil)
  BY DEF Wrote, Reply
<1> QED
  BY <1>4, <1>5 DEF Deleted

(* A program that meets a conflict was overtaken: it did not write last what *)
(* it wants to update or delete, as its calls return the Network as stored.  *)
THEOREM ConflictsAreReal == Spec => []ConflictMeansOvertaken
<1>1. ASSUME ClientsInv
      PROVE  ConflictMeansOvertaken
  <2> SUFFICES ASSUME NEW p \in Programs, NEW call \in Calls(p),
                      call.method \in {"Update", "Delete"},
                      Reply("Conflict", Nil) \in Replies(RequestOf(call))
               PROVE  writer[<<call.ns, call.name>>] # p
    BY DEF ConflictMeansOvertaken
  <2> DEFINE Has == {held[p]} \ {Nil}
  <2>0. /\ TypeOK /\ WritersOK /\ \A o \in Has : o = held[p] /\ o # Nil /\ o \in Networks
        /\ call \in CallsWith(Has)
    BY <1>1 DEF ClientsInv, TypeOK, Calls
  <2> HIDE DEF Has
  <2>1. CASE \E ns \in Clients, o \in Has :
               call = Call("Update", ns, o.name, Counted(o), Nil)
    <3>1. PICK ns \in Clients, o \in Has :
            call = Call("Update", ns, o.name, Counted(o), Nil)
      BY <2>1
    <3>2. /\ ns = o.ns /\ objects[KeyOf(o)] # Nil /\ objects[KeyOf(o)] # o
          /\ o = held[p] /\ o # Nil
      BY <2>0, <3>1, UpdateRefused
    <3>3. <<call.ns, call.name>> = KeyOf(o)
      BY <3>1, <3>2 DEF Call, KeyOf
    <3> QED
      BY <2>0, <3>2, <3>3 DEF WritersOK
  <2>2. CASE \E o \in Has :
               call = Call("Delete", o.ns, o.name, Nil, [uid |-> o.uid])
    <3>1. PICK o \in Has : call = Call("Delete", o.ns, o.name, Nil, [uid |-> o.uid])
      BY <2>2
    <3>2. o = held[p] /\ o # Nil /\ o.ns \in Clients /\ o.name \in Names
      BY <2>0 DEF Networks, Clients
    <3>3. objects[KeyOf(o)] # Nil /\ objects[KeyOf(o)] # o
      BY <2>0, <3>1, <3>2, DeleteRefused DEF KeyOf
    <3>4. <<call.ns, call.name>> = KeyOf(o)
      BY <3>1 DEF Call, KeyOf
    <3> QED
      BY <2>0, <3>2, <3>3, <3>4 DEF WritersOK
  <2>3. ~ \E ns \in Clients, n \in Names : call = Call("Delete", ns, n, Nil, Nil)
    BY <2>0, DeleteRefused
  <2> QED
    BY <2>0, <2>1, <2>2, <2>3, CallCases DEF Call
<1> QED
  BY <1>1, ClientsInvAlways, PTL
=============================================================================

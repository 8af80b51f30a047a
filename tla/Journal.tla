------------------------------- MODULE Journal -------------------------------
(***************************************************************************)
(* What the journal server promises its clients, without Redis, commands or *)
(* callbacks.  A request sees the journal of the moment it arrives.  A POST *)
(* that is acknowledged replaces the journal by what it saw and its own     *)
(* message; what was written is saved later, in the order it was written,   *)
(* and a death of the server loses the end of what is not saved yet.        *)
(***************************************************************************)
EXTENDS Naturals, Sequences, SequencesExt

CONSTANTS
  Requests,
  Kinds              \* what a request may be

VARIABLES
  kind,              \* kind[r], chosen by the client
  phase,             \* phase[r]: new, reading, failed, done or cut
  seen,              \* seen[r]: the journal r saw, while it is read
  status,            \* status[r]: the code of the response, 0 before it
  returned,          \* returned[r]: the list in the response
  saved,             \* the journal a restart begins with
  unsaved            \* the journals written since, the oldest first

requestVars == <<phase, seen, status, returned>>
abstractVars == <<kind, requestVars, saved, unsaved>>

Init ==
  /\ kind \in [Requests -> Kinds]
  /\ phase = [r \in Requests |-> "new"]
  /\ status = [r \in Requests |-> 0]
  /\ seen = [r \in Requests |-> <<>>] /\ returned = seen
  /\ saved = <<>> /\ unsaved = <<>>

\* What is there to see: the last journal written.
Latest == IF unsaved = <<>> THEN saved ELSE Last(unsaved)

Answer(r, code, list) ==
  /\ phase' = [phase EXCEPT ![r] = "done"]
  /\ seen' = [seen EXCEPT ![r] = <<>>]
  /\ status' = [status EXCEPT ![r] = code]
  /\ returned' = [returned EXCEPT ![r] = list]

Arrive(r) ==
  /\ phase[r] = "new" /\ kind[r] \in {"GET", "POST", "badPOST"}
  /\ phase' = [phase EXCEPT ![r] = "reading"]
  /\ seen' = [seen EXCEPT ![r] = Latest]
  /\ UNCHANGED <<kind, status, returned, saved, unsaved>>

Refuse(r) ==
  /\ phase[r] = "new"
  /\ \/ kind[r] = "badPath" /\ Answer(r, 404, <<>>)
     \/ kind[r] = "badMethod" /\ Answer(r, 400, <<>>)
  /\ UNCHANGED <<kind, saved, unsaved>>

\* A journal that cannot be read is answered with 500.
Break(r) ==
  /\ phase[r] = "reading"
  /\ phase' = [phase EXCEPT ![r] = "failed"]
  /\ seen' = [seen EXCEPT ![r] = <<>>]
  /\ UNCHANGED <<kind, status, returned, saved, unsaved>>

GiveUp(r) ==
  /\ phase[r] = "failed"
  /\ Answer(r, 500, <<>>)
  /\ UNCHANGED <<kind, saved, unsaved>>

Read(r) ==
  /\ phase[r] = "reading" /\ kind[r] = "GET"
  /\ Answer(r, 200, seen[r])
  /\ UNCHANGED <<kind, saved, unsaved>>

Write(r) ==
  /\ phase[r] = "reading" /\ kind[r] = "POST"
  /\ Answer(r, 200, Append(seen[r], r))
  /\ unsaved' = Append(unsaved, Append(seen[r], r))
  /\ UNCHANGED <<kind, saved>>

Save ==
  /\ unsaved # <<>>
  /\ saved' = Head(unsaved) /\ unsaved' = Tail(unsaved)
  /\ UNCHANGED <<kind, requestVars>>

\* The storage may have refused the oldest journal that is not saved.
Die ==
  /\ phase' = [r \in Requests |->
                 IF phase[r] \in {"reading", "failed"} THEN "cut" ELSE phase[r]]
  /\ seen' = [r \in Requests |-> <<>>]
  /\ \E refused \in {0, 1}, n \in 0..Len(unsaved) :
       unsaved' = SubSeq(unsaved, refused + 1, n)
  /\ UNCHANGED <<kind, status, returned, saved>>

Next ==
  \/ \E r \in Requests :
       \/ Arrive(r) \/ Refuse(r) \/ Break(r) \/ GiveUp(r)
       \/ Read(r) \/ Write(r)
  \/ Save \/ Die

Spec == Init /\ [][Next]_abstractVars
=============================================================================

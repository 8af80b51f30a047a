------------------------------ MODULE Reconcile ------------------------------
(***************************************************************************)
(* What the Network controller promises, without queue, notifications or   *)
(* workers: it is level triggered.  A key whose desired version changed is *)
(* owed a sync; a sync reads the version desired at that moment, acts on   *)
(* it later, and is the only one for its key until it has acted.           *)
(***************************************************************************)
CONSTANTS
  Keys,
  Versions           \* what can be desired of a key, 0 for its absence

VARIABLES
  desired,           \* desired[k]: the version k should be brought to
  handled,           \* handled[k]: the version acted on last
  owed,              \* the keys that will be read again
  acting,            \* <<k, v>>: a sync of k has read v and will act on it
  failed,            \* the keys whose last sync failed
  stopped,           \* the controller was told to stop
  restarted          \* an earlier controller worked on the same keys

abstractVars == <<desired, handled, owed, acting, failed, stopped, restarted>>

Init ==
  /\ desired = [k \in Keys |-> 0]
  /\ handled = [k \in Keys |-> 0]
  /\ owed = {}
  /\ acting = {}
  /\ failed = {}
  /\ stopped = FALSE
  /\ restarted = FALSE

Change(k) ==
  /\ \E v \in Versions \ {desired[k]} :
       desired' = [desired EXCEPT ![k] = v]
  /\ owed' = owed \cup {k}
  /\ UNCHANGED <<handled, acting, failed, stopped, restarted>>

\* The key may be owed another sync already.
MaySettle(k) == owed' \in {owed, owed \ {k}}

\* One sync at a time.
MayBegin(k) == k \in owed /\ \A p \in acting : p[1] # k

Begin(k) ==
  /\ MayBegin(k)
  /\ acting' = acting \cup {<<k, desired[k]>>}
  /\ MaySettle(k)
  /\ UNCHANGED <<desired, handled, failed, stopped, restarted>>

Act(k) ==
  /\ \E v \in Versions :
       /\ <<k, v>> \in acting
       /\ acting' = acting \ {<<k, v>>}
       /\ handled' = [handled EXCEPT ![k] = v]
  /\ failed' = failed \ {k}
  /\ UNCHANGED <<desired, owed, stopped, restarted>>

Fail(k) ==
  /\ MayBegin(k)
  /\ failed' = failed \cup {k}
  /\ MaySettle(k)
  /\ UNCHANGED <<desired, handled, acting, stopped, restarted>>

Stop ==
  /\ stopped' = TRUE
  /\ UNCHANGED <<desired, handled, owed, acting, failed, restarted>>

\* A controller that was told to stop owes nothing more.
Drop ==
  /\ stopped
  /\ owed' \in SUBSET owed
  /\ UNCHANGED <<desired, handled, acting, failed, stopped, restarted>>

\* A new controller starts from what it can see, and it sees nothing yet.
Restart ==
  /\ desired' = [k \in Keys |-> 0]
  /\ owed' = {}
  /\ acting' = {}
  /\ failed' = {}
  /\ stopped' = FALSE
  /\ restarted' = TRUE
  /\ UNCHANGED handled

Next ==
  \/ \E k \in Keys : Change(k) \/ Begin(k) \/ Act(k) \/ Fail(k)
  \/ Stop \/ Drop \/ Restart

Spec == Init /\ [][Next]_abstractVars

-----------------------------------------------------------------------------
\* A sync that is about to act on a version no longer desired leaves its key
\* owed.
StaleIsOwed ==
  ~stopped => \A p \in acting : p[2] # desired[p[1]] => p[1] \in owed

\* A key not at its desired version is owed a sync or is about to be brought
\* there, except after a failure, and except one that went away while no
\* controller was there to see it.
NothingForgotten ==
  ~stopped =>
    \A k \in Keys \ failed :
      desired[k] # handled[k] =>
        \/ k \in owed
        \/ <<k, desired[k]>> \in acting
        \/ desired[k] = 0 /\ restarted
=============================================================================

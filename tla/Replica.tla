------------------------------- MODULE Replica -------------------------------
(***************************************************************************)
(* What the reader of an informer may assume, and nothing of how it works:  *)
(* each key is shown as the API server had it at some moment, in as far as  *)
(* it is what the program asked for, and that moment only moves forward,    *)
(* for each key at its own pace.                                            *)
(***************************************************************************)
EXTENDS Naturals, Sequences, FiniteSetsExt

CONSTANTS
  Keys,              \* <<namespace, name>>
  Changes,           \* what can be written: the key, whether it is still there
                     \* and has the label
  NamespaceAll       \* the empty namespace

VARIABLES
  log,               \* the changes the server has made, oldest first
  asked,             \* the namespace and the selection the program asked for
  at,                \* at[k]: how much of the log what is shown of k reflects
  shown              \* shown[k]: the version of k the reader sees, 0 for none

vars == <<log, asked, at, shown>>

\* The version of k after the first r changes: the last of them about k.
StoredAt(k, r) ==
  LET about == {i \in 1..r : log[i].key = k}
  IN IF about = {} \/ ~log[Max(about)].live THEN 0 ELSE Max(about)

Promised(k, r) ==
  LET v == StoredAt(k, r)
  IN IF /\ v # 0
        /\ asked.namespace \in {NamespaceAll, k[1]}
        /\ asked.labels => log[v].labels
       THEN v ELSE 0

Init ==
  /\ log \in Seq(Changes)
  /\ at = [k \in Keys |-> 0] /\ shown = [k \in Keys |-> 0]

Write == (\E c \in Changes : log' = Append(log, c)) /\ UNCHANGED <<asked, at, shown>>

\* Any number of keys move on.
Advance ==
  /\ at' \in [Keys -> 0..Len(log)]
  /\ \A k \in Keys : at'[k] >= at[k]
  /\ shown' = [k \in Keys |-> Promised(k, at'[k])]
  /\ UNCHANGED <<log, asked>>

Next == Write \/ Advance

Spec == Init /\ [][Next]_vars
=============================================================================

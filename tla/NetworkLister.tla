---------------------------- MODULE NetworkLister ----------------------------
(***************************************************************************)
(* The lister: reads of the informer's indexer.  An indexer is a function   *)
(* from the keys <<namespace, name>> it holds to Networks.  A lister keeps  *)
(* a reference to it, so a read is of the indexer of its moment.            *)
(***************************************************************************)

CONSTANTS
  NamespaceAll,      \* the empty namespace
  NotFound           \* what Get returns with its error

NewNetworkLister(indexer) == [indexer |-> indexer]

\* cache.ListAll: every object whose labels the selector, a set of them, has.
List(s, selector) ==
  {s.indexer[k] : k \in {l \in DOMAIN s.indexer : s.indexer[l].labels \in selector}}

Networks(s, namespace) == [indexer |-> s.indexer, namespace |-> namespace]

\* cache.ListAllByNamespace: for the empty namespace the objects of all.
NamespaceList(s, selector) ==
  {s.indexer[k] : k \in {l \in DOMAIN s.indexer :
     s.namespace \in {NamespaceAll, l[1]} /\ s.indexer[l].labels \in selector}}

\* Mutant: the key is the name alone, and matches in any namespace.
GetByName(s, name) ==
  LET found == {l \in DOMAIN s.indexer : l[2] = name}
  IN IF found = {} THEN NotFound ELSE s.indexer[CHOOSE l \in found : TRUE]

\* One look at the key namespace/name: a lister of all namespaces finds none.
Get(s, name) ==
  LET key == <<s.namespace, name>>
  IN IF key \in DOMAIN s.indexer THEN s.indexer[key] ELSE NotFound
=============================================================================

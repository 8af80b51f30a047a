SPECIFICATION FairSpec
CONSTANTS
  Namespaces = {n1, n2}
  Names = {a}
  NamespaceAll = NamespaceAll
  n1 = n1
  n2 = n2
  a = a
  Nil = Nil
  Labelled = Labelled
  MaxOptions = 3
  MaxRev = 3
  MaxBreaks = 2
INVARIANTS TypeOK QueueLeadsToRv SyncedListerIsComplete
PROPERTIES ImplementsReplica CatchesUp
CHECK_DEADLOCK FALSE

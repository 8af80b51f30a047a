SPECIFICATION Spec
CONSTANTS
  Programs = {p1, p2}
  Namespaces = {n1, n2}
  Names = {a}
  p1 = p1
  p2 = p2
  n1 = n1
  n2 = n2
  a = a
  NamespaceAll = NamespaceAll
  Nil = Nil
  Merge = Merge
  Late = Late
  MaxRev = 3
  MaxFaults = 1
SYMMETRY Symmetry
CHECK_DEADLOCK FALSE
INVARIANTS TypeOK NoUpdateLost CallsChangeOnlyWhatWasMeant ConflictMeansOvertaken

SPECIFICATION FairSpec
CONSTANTS
  Callers = {c1, c2}
  Types = {t1, t2}
  c1 = c1
  c2 = c2
  t1 = t1
  t2 = t2
  None = None
INVARIANTS
  TypeOK
  RunsOnce
  OneInformerPerType
  StartLeavesNoneBehind
PROPERTIES
  CallsReturn
  WaitReturns

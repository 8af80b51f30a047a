SPECIFICATION Spec
CONSTANTS
  Keys = {k1, k2}
  k1 = k1
  k2 = k2
  Workers = {w1, w2}
  w1 = w1
  w2 = w2
  None = None
  MaxGen = 2
  MaxNotes = 1
  MaxRestarts = 1
  ListerMayFail = TRUE
INVARIANTS
  TypeOK
  NoLostChange
PROPERTIES
  HandledNeverGoesBack
  ImplementsReconcile
CHECK_DEADLOCK FALSE

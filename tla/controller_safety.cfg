SPECIFICATION Spec
CONSTANTS
  Keys = {k1, k2}
  k1 = k1
  k2 = k2
  Workers = {w1, w2}
  w1 = w1
  w2 = w2
  None = None
  MaxGen = 3
  MaxNotes = 1
  MaxRestarts = 0
  ListerMayFail = FALSE
SYMMETRY Symmetry
INVARIANTS
  OneWorkerPerKey
  QueueConsistent
  BackoffForgotten
CHECK_DEADLOCK FALSE

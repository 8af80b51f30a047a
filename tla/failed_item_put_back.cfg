SPECIFICATION Spec
CONSTANTS
  Keys = {k1}
  k1 = k1
  Workers = {w1, w2}
  w1 = w1
  w2 = w2
  None = None
  MaxGen = 1
  MaxNotes = 1
  MaxRestarts = 0
  ListerMayFail = TRUE
PROPERTIES
  FailedItemIsPutBack
CHECK_DEADLOCK FALSE

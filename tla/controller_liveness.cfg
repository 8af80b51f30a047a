SPECIFICATION FairSpec
CONSTANTS
  Keys = {k1}
  k1 = k1
  Workers = {w1, w2}
  w1 = w1
  w2 = w2
  None = None
  MaxGen = 2
  MaxNotes = 1
  MaxRestarts = 1
  ListerMayFail = FALSE
PROPERTIES
  LiveNetworksHandled
  DeletionsHandled
CHECK_DEADLOCK FALSE

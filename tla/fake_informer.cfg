SPECIFICATION Spec
CONSTANTS
  Names = {n1, n2}
  Contents = {a, b}
  Labelled = {a}
  Versions = {none, v5}
  ChanSize = 2
  Absent = Absent
  n1 = n1
  n2 = n2
  a = a
  b = b
  none = none
  v5 = v5
INVARIANTS TypeOK CacheFollowsTracker ControllerFollowsFake

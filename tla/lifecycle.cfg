SPECIFICATION FairSpec
CONSTANT MaxSignals = 3
INVARIANTS TypeOK HandlersBeforeEvents WorkersAfterSync ExitStatusIsRight
PROPERTIES SignalEndsProcess WorkersAreLaunched

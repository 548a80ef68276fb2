SPECIFICATION Spec
CONSTANTS
  Callers = {c1, c2}
  Timer = Timer
  Messages = {"NO_ALARM", "odd"}
  KnownMessages = {"NO_ALARM"}
  Severities = {"minorAlarm"}
  None = None
  MaxUpdates = 3
  MaxPeriodic = 1
  MaxChanges = 2
INVARIANTS TypeOK OneMonitor StatusShown ConnectionFollowed
CHECK_DEADLOCK FALSE
SYMMETRY CallerSymmetry

SPECIFICATION Spec
CONSTANTS
  Callers = {c1}
  Timer = Timer
  Messages = {"STATE_ALARM"}
  KnownMessages = {"STATE_ALARM"}
  Severities = {"minorAlarm", "majorAlarm"}
  None = None
  MaxUpdates = 2
  MaxPeriodic = 0
  MaxChanges = 1
INVARIANT SeverityShown
CHECK_DEADLOCK FALSE

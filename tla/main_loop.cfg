SPECIFICATION Spec
CONSTANTS
  Senders = {w1, w2}
  Main = Main
  Messages = {m1, m2, m3}
  None = None
  QueueMax = 2
  MaxPolls = 2
  Signals = {sig1}
  Exit = Exit
  Partitions = 2
  MaxLog = 2
  Earlier = 1
INVARIANTS TypeOK FreedOnce StatsAddUp ReasonsKept OneLateRound EndsCleanly NoOldCommand
PROPERTIES AllFreed DestroyReturns ExitReturns StatusRecurs CommandsReachHandler

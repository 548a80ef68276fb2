SPECIFICATION Spec
CONSTANTS
  Workers = {w1, w2}
  Main = Main
  Status = Status
  NoOne = NoOne
  Streams = {s1, s2}
  NoStream = NoStream
  ChannelOf <- SameChannel
  Converters <- TwoConverters
  FillLimit = 3
  MaxUpdates = 2
  Stoppable = {"pv1"}
  StopAll = TRUE
  Failing = {s2}
  s1 = s1
  s2 = s2
  w1 = w1
  w2 = w2
INVARIANTS TypeOK PathAlive TransitExact NothingLost IInv
PROPERTIES ImplementsPipe
CHECK_DEADLOCK FALSE

SPECIFICATION FairSpec
CONSTANTS
  Workers = {w1}
  Main = Main
  Status = Status
  NoOne = NoOne
  Streams = {s1}
  NoStream = NoStream
  ChannelOf <- OneChannel
  Converters <- TwoForOne
  FillLimit = 100
  MaxUpdates = 1
  Stoppable = {"pv1"}
  StopAll = FALSE
  Failing = {}
  s1 = s1
  s2 = s2
  w1 = w1
  w2 = w2
PROPERTY StopReturns
CHECK_DEADLOCK FALSE

SPECIFICATION FairSpec
CONSTANTS
  Workers = {w1}
  Main = Main
  Status = Status
  NoOne = NoOne
  Streams = {s1, s2}
  NoStream = NoStream
  ChannelOf <- TwoChannels
  Converters <- TwoConverters
  FillLimit = 3
  MaxUpdates = 2
  Stoppable = {}
  StopAll = FALSE
  Failing = {}
  s1 = s1
  s2 = s2
  w1 = w1
  w2 = w2
INVARIANTS NothingLost NoTerminate
PROPERTIES ImplementsFifoPipe UpdatesForwarded ExitCompletes

SPECIFICATION Spec
CONSTANTS
  Config <- NoStreams
  Commands <- TwoServers
  Channels = {"pv1", "pv2", "pv3"}
  Schemas = {"f142", "TdcTime"}
  Topics = {"t1", "t2", "long"}
  Creatable = {"t1", "t2"}
  Unnamed = Unnamed
  NoName = NoName
  Providers = {"pva"}
  TimerChoices <- NoTimer
  MaxCommands = 2
INVARIANT ServersServed
CHECK_DEADLOCK FALSE

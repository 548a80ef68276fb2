SPECIFICATION Spec
CONSTANTS
  Config <- FileStreams
  Commands <- GoodCommands
  Channels = {"pv1", "pv2", "pv3"}
  Schemas = {"f142", "TdcTime"}
  Topics = {"t1", "t2", "long"}
  Creatable = {"t1", "t2"}
  Unnamed = Unnamed
  NoName = NoName
  Providers = {"pva"}
  TimerChoices <- AnyTimers
  MaxCommands = 2
INVARIANTS OneStreamPerChannel SharedByName SchemaHonoured DestinationsServed FactoriesServe WalkUndisturbed
CHECK_DEADLOCK FALSE

SPECIFICATION ConvertersSpec
CONSTANTS
  Workers = {w1, w2}
  Arrays <- SomeArrays
  Second = 3
  Width = 32
  MaxUpdates = 3
  Strings = {"", "on"}
  NoMessage = NoMessage
INVARIANTS NoGaps TimesOrdered ValueKept TimeKept
CHECK_DEADLOCK FALSE

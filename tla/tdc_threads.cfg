SPECIFICATION ConvertersSpec
CONSTANTS
  Workers = {w1, w2}
  Arrays <- OneArray
  Second = 3
  Width = 32
  MaxUpdates = 3
  Strings = {"", "on"}
  NoMessage = NoMessage
INVARIANT Consecutive
CHECK_DEADLOCK FALSE

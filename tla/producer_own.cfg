SPECIFICATION ProducerSpec
CONSTANTS
  Senders = {w1}
  Main = Main
  Messages = {m1, m2, m3}
  None = None
  QueueMax = 2
  MaxPolls = 2
INVARIANT AliveWhileUsed

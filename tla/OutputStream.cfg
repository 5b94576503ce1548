\* Three actions; a buffer of two chunks.  The stream may stop for good.
CONSTANTS
  MaxActions = 3
  Callers = {c1}
  Chunk = 2
  Buffer = 4
  Fifo = 2
  RampLen = 2
  Slack = 1
  Keep = 3
  MaxSamples = 12
CHECK_DEADLOCK FALSE
SPECIFICATION Spec
INVARIANTS
  KeepTimeIsPlayed
  RampIsPlayed
PROPERTIES
  PlaysInOrder

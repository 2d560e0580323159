SPECIFICATION Spec
CONSTANTS
  MaxConns = 3
  MaxSessions = 2
  MaxOutput = 1
  Sizes = {1}
  BufferLimit = 2
PROPERTY
  RefusedMeansExpired
CHECK_DEADLOCK FALSE

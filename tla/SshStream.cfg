SPECIFICATION FairSpec
CONSTANTS
  MaxConns = 3
  MaxSessions = 2
  MaxOutput = 3
  Sizes = {1}
  BufferLimit = 2
INVARIANTS
  TypeOK
  NoHoleInStream
  GapNoticeIsTrue
PROPERTIES
  ImplementsTerminal
  OutputArrives
CHECK_DEADLOCK FALSE

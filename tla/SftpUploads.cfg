SPECIFICATION FairSpec
CONSTANTS
  Uploads = {u1, u2}
  FileChunks = 2
  Parallel = 2
  HostLimit = 1
  MaxDuplicates = 1
INVARIANTS
  TypeOK
  HeldOnce
  ConnectionsBounded
PROPERTIES
  AnsweredIsStored
  WorkersEnd
  QueuedIsAnswered
CHECK_DEADLOCK FALSE

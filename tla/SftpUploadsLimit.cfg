SPECIFICATION Spec
CONSTANTS
  Uploads = {u1, u2, u3}
  FileChunks = 1
  Parallel = 2
  HostLimit = 2
  MaxDuplicates = 0
INVARIANT
  WithinLimitIsAccepted
CHECK_DEADLOCK FALSE

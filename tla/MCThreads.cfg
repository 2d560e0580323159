SPECIFICATION Spec
CONSTANTS
  Viewers = {v1, v2}
  PortOptions = {"fast", "slow"}
  None = none
  MaxSessions = 2
  MaxPieces = 1
  BacklogSize = 1
  MaxQueued = 1
  Sizes = {1, 2}
  MaxCommands = 3
  Settings = {"one", "two"}
  Sockets = {1, 2}
  MaxServers = 2
  MaxWorkers = 2
INVARIANTS
  TypeOK
  SharedIsSafe
PROPERTIES
  PortIsReleased
  RetriesTheSameWrite
  StopEndsWorker
  SweptMeansStopped
\* A worker, a server or a port that has ended has no step left.
CHECK_DEADLOCK FALSE

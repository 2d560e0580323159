SPECIFICATION FairSpec
CONSTANTS
  Sessions = {s1}
  Shared = {}
  Callers = {}
  Manifests = {"enabled"}
  None = none
  MaxConcurrent = 1
  MaxHttp = 0
  MaxOutputs = 1
  MaxJobs = 0
PROPERTY
  StopReturns
CHECK_DEADLOCK FALSE

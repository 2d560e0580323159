SPECIFICATION Spec
CONSTANTS
  Sessions = {s1, s2}
  Shared = {s2}
  Callers = {}
  Manifests = {"enabled"}
  None = none
  MaxConcurrent = 1
  MaxHttp = 0
  MaxOutputs = 2
  MaxJobs = 1
INVARIANT
  WritesToOwnTerminal
CHECK_DEADLOCK FALSE

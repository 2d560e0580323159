SPECIFICATION MCSpec
CONSTANTS
  Sessions = {s1, s2}
  Shared = {s2}
  Callers = {c1, c2}
  Manifests = {"enabled"}
  None = none
  MaxConcurrent = 1
  MaxHttp = 2
  MaxOutputs = 2
  MaxJobs = 0
INVARIANTS
  TypeOK
  AnnouncedFirst
  ClosedIsOver
  ResponseMeetsItsRequest
  SlotsAreFreed
  SaveTakesEffect
PROPERTY
  EverySessionAnnounced
CHECK_DEADLOCK FALSE

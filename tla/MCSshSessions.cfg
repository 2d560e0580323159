SPECIFICATION Spec
SYMMETRY Symmetry
CONSTANTS
  Conns = {c1, c2}
  Sessions = {s1, s2}
  Tokens = {t1, t2, t3}
  Http = http
  MainLoop = mainLoop
  NoSession = noSession
  NoConn = noConn
  NoToken = noToken
  NoActor = noActor
  Requests = {"connect", "resume", "terminate", "http"}
INVARIANTS
  TypeOK
  WorkersOwned
  OneTokenPerSession
  ExpiredMeansAbandoned
  ShutdownJoinsAll
PROPERTY
  SupersededCloseIsHarmless
CHECK_DEADLOCK FALSE

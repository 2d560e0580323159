SPECIFICATION FairSpec
CONSTANTS
  Conns = {c1}
  Sessions = {s1}
  Tokens = {t1, t2, t3}
  Http = http
  MainLoop = mainLoop
  NoSession = noSession
  NoConn = noConn
  NoToken = noToken
  NoActor = noActor
  Requests = {"connect", "resume", "terminate", "http"}
PROPERTY
  DetachedSessionIsStopped
CHECK_DEADLOCK FALSE

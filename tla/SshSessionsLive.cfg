SPECIFICATION FairSpec
CONSTANTS
  Conns = {c1, c2, c3}
  Sessions = {s1}
  Tokens = {t1, t2, t3}
  Http = http
  MainLoop = mainLoop
  NoSession = noSession
  NoConn = noConn
  NoToken = noToken
  NoActor = noActor
  Requests = {"connect", "resume", "http"}
PROPERTIES
  StopCompletes
  AbandonedIsStopped
CHECK_DEADLOCK FALSE

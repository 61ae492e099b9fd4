SPECIFICATION FairSpec
CONSTANTS
  a = a
  b = b
  p1 = p1
  p2 = p2
  Conn = {a}
  Pid = {p1}
  NoConn = NoConn
  NoPid = NoPid
  LastFd = 6
  Plan <- PipelinedPlan
  Timed = {}
  MayReset = {}
  MayShut = {}
  Pipelines = {a}
  MayDeafen = FALSE
  ForkMayFail = FALSE
  PipeSize = 1
  MaxOut = 1
PROPERTIES RequestsAnswered
CHECK_DEADLOCK FALSE

SPECIFICATION Spec
CONSTANTS
  a = a
  b = b
  p1 = p1
  p2 = p2
  Conn = {a, b}
  Pid = {p1}
  NoConn = NoConn
  NoPid = NoPid
  LastFd = 6
  Plan <- CgiPlan
  Timed = {}
  MayReset = {a}
  MayShut = {}
  Pipelines = {}
  MayDeafen = FALSE
  ForkMayFail = FALSE
  PipeSize = 1
  MaxOut = 1
INVARIANTS StaysUp
CHECK_DEADLOCK FALSE

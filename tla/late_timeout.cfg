SPECIFICATION Spec
CONSTANTS
  a = a
  b = b
  p1 = p1
  p2 = p2
  Conn = {a}
  Pid = {p1}
  NoConn = NoConn
  NoPid = NoPid
  LastFd = 6
  Plan <- OneFeedPlan
  Timed = {}
  MayReset = {}
  MayShut = {}
  Pipelines = {}
  MayDeafen = TRUE
  ForkMayFail = FALSE
  PipeSize = 1
  MaxOut = 1
INVARIANTS AnswersInOrder
CHECK_DEADLOCK FALSE

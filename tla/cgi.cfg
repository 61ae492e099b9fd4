SPECIFICATION Spec
CONSTANTS
  a = a
  b = b
  p1 = p1
  p2 = p2
  Conn = {a, b}
  Pid = {p1}
  NoConn = NoConn
  NoPid = NoPid
  LastFd = 5
  Plan <- TwoBodiesPlan
  Timed = {}
  MayReset = {a}
  MayShut = {a}
  Pipelines = {}
  MayDeafen = TRUE
  ForkMayFail = TRUE
  PipeSize = 1
  MaxOut = 1
INVARIANTS TypeOK TablesAgree NothingStale NothingElseEndsIt IsolatedBody
PROPERTIES ReadySteady AnswerHasWholeOutput
CHECK_DEADLOCK FALSE

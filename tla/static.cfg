SPECIFICATION FairSpec
CONSTANTS
  a = a
  b = b
  p1 = p1
  p2 = p2
  Conn = {a, b}
  Pid = {p1}
  NoConn = NoConn
  NoPid = NoPid
  LastFd = 2
  Plan <- StaticPlan
  Timed = {a}
  MayReset = {b}
  MayShut = {a}
  Pipelines = {a}
  MayDeafen = FALSE
  ForkMayFail = FALSE
  PipeSize = 1
  MaxOut = 1
INVARIANTS AnswersInOrder
PROPERTIES PatientAnswered AbortedIsClosed SilentIsClosed

SPECIFICATION Spec
CONSTANTS
  a = a
  b = b
  p1 = p1
  p2 = p2
  Conn = {a, b}
  Script = {p1, p2}
  ClientMs <- OneTimed
  CgiMs <- CgiTimes
  Fallback = 2
  IntMax = 15
  Modulus = 64
  LastTime = 6
INVARIANTS TypeOK AlwaysATimeout Punctual
PROPERTY ClosedWhenSilent

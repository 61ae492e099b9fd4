SPECIFICATION Spec
CONSTANTS
  Heads <- HeadTable
  DigitValue <- DigitTable
  Radix = 4
  SizeMax = 15
  MaxBody = 3
  Wires <- TheWires
INVARIANTS TypeOK SplitsDoNotMatter BodiesDecoded StartsAtItsHead AnsweredAsAlone
CHECK_DEADLOCK FALSE

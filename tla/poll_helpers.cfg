SPECIFICATION Spec
CONSTANTS
  Fd = {3, 4, 5, 6}
  Event = {"in", "out"}
INVARIANTS TypeOK IndexCoherent
PROPERTY ImplementsPollSet

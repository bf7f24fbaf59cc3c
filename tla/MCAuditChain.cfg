SPECIFICATION Spec
CONSTANTS
  Contents = {c1, c2}
  Writers = {w1, w2}
  Nobody = Nobody
  MaxSequence = 3
  MaxClock = 2
SYMMETRY Symmetry
INVARIANTS NothingLost VerdictCorrect BoundariesTrue
PROPERTY HeldRecordsKept
CHECK_DEADLOCK FALSE

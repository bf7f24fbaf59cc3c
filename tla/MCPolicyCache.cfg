SPECIFICATION Spec
CONSTANTS
  Writers = {w1, w2}
  Readers = {e1, e2}
  MaxWrites = 2
  MaxVersion = 2
  TTL = 1
  Delay = 1
SYMMETRY Symmetry
PROPERTIES InvalidatedIsEnforced StalenessBounded
CHECK_DEADLOCK FALSE

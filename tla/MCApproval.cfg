SPECIFICATION Spec
CONSTANTS
  c1 = c1
  c2 = c2
  p1 = p1
  p2 = p2
  Calls = {c1, c2}
  Gates = {p1, p2}
  Gated <- GatedCalls
  Requests = {r1}
  Issues = {i1}
  Workers = {w1, w2}
  MaxVersion = 2
  MaxCounts = 2
SYMMETRY Symmetry
INVARIANTS TypeOK SingleUse ExecutionAuthorized DecisionsAudited
PROPERTY OneDecision
CHECK_DEADLOCK FALSE

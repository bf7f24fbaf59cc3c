SPECIFICATION Spec
CONSTANTS
  Agents = {a1}
  Installs = {i1}
  Bootstrap = Bootstrap
  Operator = Operator
  Portal = Portal
  NoKey = NoKey
  Requests = {r1, r2}
  Portals = {p1}
  Ttls = {1, 2}
  Lifetime = 3
  Grace = 1
  MaxUses = 2
  MaxRows = 2
  MaxTime = 3
SYMMETRY Symmetry
ACTION_CONSTRAINT SavedWithinTick
INVARIANTS TypeOK KeyOfOwner DisconnectStopsAll KeyBounded
PROPERTY StopStands
CHECK_DEADLOCK FALSE

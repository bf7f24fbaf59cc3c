SPECIFICATION Spec
CONSTANTS
  Policies = {p1, p2}
  Requests = {r1, r2}
  Months = {1, 2}
  Limits = {2, 4}
  Amounts = {2}
  Costs = {0, 1, 3}
  Spends = {0, 1}
SYMMETRY Symmetry
INVARIANTS TypeOK LedgerBalance NoOverspend
PROPERTIES SettlementFinal OnlyEarlyReleaseLetsBillsRaise

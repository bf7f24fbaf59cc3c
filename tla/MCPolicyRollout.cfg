SPECIFICATION Spec
CONSTANTS
  p1 = p1
  p2 = p2
  c1 = c1
  c2 = c2
  Policies = {p1, p2}
  Changes = {c1, c2}
  Items <- EitherOrder
  Creates = {c1}
  Required = {c2}
  Editors = {e1}
  Reviewers = {r1, r2}
  Rollouts = {t1, t2}
  Nobody = Nobody
  Edits = {edit1}
  edit1 = edit1
  Target <- OnePolicy
  Origin = Origin
SYMMETRY Symmetry
INVARIANTS HistoryFaithful AppliedOnce
PROPERTIES PromotionBindsDraft AtomicRollouts
CHECK_DEADLOCK FALSE

SPECIFICATION Spec
CONSTANTS
  Calls = {c1, c2, c3}
  MaxAmount = 2
  Limit = 3
  RuleAction = 2
  Repeat <- Ladder
  RequireApproval = 5
  MaxCalls = 6
  MaxWindows = 2
SYMMETRY Symmetry
INVARIANTS RateLimitHolds TokensAccounted QuotaOvershootBounded HeldNotCounted
PROPERTY EscalationNeverRelaxes
CHECK_DEADLOCK FALSE

SPECIFICATION Spec
CONSTANTS
  e1 = e1
  e2 = e2
  call = call
  Events = {e1, e2}
  Keys = {call}
  Key <- OneCall
  Count <- Tokens
  Slots = {w1, w2}
  Nobody = Nobody
  MaxRetries = 1
  MaxAttempts = 1
  MaxCrashes = 1
  MaxReprocess = 0
SYMMETRY Symmetry
INVARIANTS TypeOK MeteredExactlyOnce ProcessedIsMetered

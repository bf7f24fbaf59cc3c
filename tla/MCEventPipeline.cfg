SPECIFICATION Spec
CONSTANTS
  e1 = e1
  e2 = e2
  call = call
  Events = {e1}
  Keys = {call}
  Key <- OneCall
  Count <- Tokens
  Slots = {w1, w2}
  Nobody = Nobody
  MaxRetries = 2
  MaxAttempts = 2
  MaxCrashes = 1
  MaxReprocess = 1
PROPERTY Settles

SPECIFICATION FairSpec
CONSTANTS
  s = s
  z = z
  e = e
  f = f
  Script <- TwoTimeouts
  Event = {e, f}
  NoEvent = NoEvent
  Worker = {w1}
  MaxAttempts = 1
  Failures = FALSE
PROPERTIES TimeoutsAreThrown
CHECK_DEADLOCK FALSE

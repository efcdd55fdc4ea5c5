SPECIFICATION FairSpec
CONSTANTS
  s = s
  z = z
  e = e
  f = f
  Script <- Loop
  Event = {e}
  NoEvent = NoEvent
  Worker = {w1, w2}
  MaxAttempts = 2
  Failures = TRUE
INVARIANTS TypeOK OwnValues
PROPERTIES ValuesAreSticky ImplementsLifecycle Finishes
CHECK_DEADLOCK FALSE

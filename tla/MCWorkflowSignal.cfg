SPECIFICATION Spec
CONSTANTS
  d = d
  clk = clk
  ch = ch
  act = act
  Deferred = {d}
  Clock = {}
  Child = {}
  Activity = {}
  Script <- OneSignal
  Interrupt = Interrupt
  Poll = Poll
  Worker = {w1}
  MaxAttempts = 2
  Bell = {b1, b2, b3, b4, b5}
  NoBell = NoBell
INVARIANTS NoLostSignal
CHECK_DEADLOCK FALSE

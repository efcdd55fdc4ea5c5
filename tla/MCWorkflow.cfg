SPECIFICATION FairSpec
CONSTANTS
  d = d
  clk = clk
  ch = ch
  act = act
  Deferred = {d}
  Clock = {clk}
  Child = {ch}
  Activity = {act}
  Script <- Handler
  Interrupt = Interrupt
  Poll = Poll
  Worker = {w1}
  MaxAttempts = 2
  Bell = {b1, b2, b3, b4, b5}
  NoBell = NoBell
INVARIANTS TypeOK HandshakeHolds
PROPERTIES ImplementsLifecycle Finishes InterruptEnds
CHECK_DEADLOCK FALSE

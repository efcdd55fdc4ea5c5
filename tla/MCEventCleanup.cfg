SPECIFICATION Spec
CONSTANTS
  Null = Null
  Run = {r1, r2}
  Worker = {w1, w2}
  Client = {c1}
  Cleaner = {k1, k2}
  Payload = {p1}
SYMMETRY Symmetry
INVARIANTS NoDeadlock
CHECK_DEADLOCK FALSE

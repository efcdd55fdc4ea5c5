SPECIFICATION Spec
CONSTANTS
  Null = Null
  Run = {r1, r2, r3}
  Worker = {w1, w2, w3}
  Client = {c1, c2}
  Cleaner = {}
  Payload = {p1, p2}
SYMMETRY Symmetry
INVARIANTS NoLostWakeup
PROPERTIES FunctionsAreAtomic
CHECK_DEADLOCK FALSE

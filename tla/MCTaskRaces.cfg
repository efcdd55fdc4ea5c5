SPECIFICATION Spec
CONSTANTS
  Null = Null
  MaxAttempts = 3
  Session = {s1, s2, s3}
SYMMETRY Symmetry
INVARIANTS OneLiveRun TaskMirrorsLastRun
PROPERTIES FunctionsAreAtomic KeepsLifecycle CheckpointsAreKept
CHECK_DEADLOCK FALSE

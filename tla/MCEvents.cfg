SPECIFICATION Spec
CONSTANTS
  Null = Null
  Infinity = Infinity
  TaskId = {t1}
  RunId = {r1, r2}
  StepName = {s1}
  EventName = {e1, e2}
  Payload = {p1, p2}
  IdempotencyKey = {}
  SpawnOptions <- EventOptions
  LegacyOptions = {}
  ClaimTimeouts = {1}
  ClaimQuantities = {1}
  WakeDelays = {1}
  AwaitTimeouts = {Null, 1}
  RetryAfters = {Null}
  RetryLimits = {Null}
  ExtendBys = {1}
  CleanupTTLs = {0}
  CleanupLimit = 1
  MaxTime = 2
SYMMETRY Symmetry
INVARIANTS TypeOK WaitsAreOfParkedRuns NoLostWakeup EmittedEventHasNoLiveWait CheckpointsHaveOwners
PROPERTIES FirstEmissionWins
CHECK_DEADLOCK FALSE

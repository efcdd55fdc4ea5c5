SPECIFICATION Spec
CONSTANTS
  Null = Null
  Infinity = Infinity
  TaskId = {t1, t2}
  RunId = {r1, r2, r3}
  StepName = {}
  EventName = {}
  Payload = {}
  IdempotencyKey = {k}
  SpawnOptions <- ClaimOptions
  LegacyOptions = {}
  ClaimTimeouts = {1}
  ClaimQuantities = {1, 2}
  WakeDelays = {}
  AwaitTimeouts = {Null}
  RetryAfters = {Null}
  RetryLimits = {Null}
  ExtendBys = {1}
  CleanupTTLs = {0}
  CleanupLimit = 1
  MaxTime = 2
SYMMETRY Symmetry
INVARIANTS OneLiveRun
PROPERTIES ClaimsAreHonoured ImplementsLifecycle
CHECK_DEADLOCK FALSE

SPECIFICATION FairSpec
CONSTANTS
  Null = Null
  Infinity = Infinity
  TaskId = {t1, t2}
  RunId = {r1, r2}
  StepName = {}
  EventName = {}
  Payload = {}
  IdempotencyKey = {}
  SpawnOptions <- LivenessOptions
  LegacyOptions = {}
  ClaimTimeouts = {1}
  ClaimQuantities = {1}
  WakeDelays = {0, 1}
  AwaitTimeouts = {Null}
  RetryAfters = {}
  RetryLimits = {}
  ExtendBys = {1}
  CleanupTTLs = {}
  CleanupLimit = 1
  MaxTime = 2
PROPERTIES ExpiredClaimsAreReclaimed DueRunsAreTaken
CHECK_DEADLOCK FALSE

SPECIFICATION Spec
CONSTANTS
  Null = Null
  Infinity = Infinity
  TaskId = {t1}
  RunId = {r1, r2, r3}
  StepName = {}
  EventName = {}
  Payload = {}
  IdempotencyKey = {}
  SpawnOptions <- AttemptOptions
  LegacyOptions <- AttemptLegacy
  ClaimTimeouts = {0, 1}
  ClaimQuantities = {1}
  WakeDelays = {1}
  AwaitTimeouts = {Null}
  RetryAfters = {Null, 0}
  RetryLimits = {Null, 3}
  ExtendBys = {1}
  CleanupTTLs = {0}
  CleanupLimit = 1
  MaxTime = 4
SYMMETRY Symmetry
INVARIANTS LastRunMirrorsTask AttemptHistory AttemptsWithinLimit TerminalTasksAreDated
PROPERTIES FinishedRunsAreFinal RunsStartInTime
CHECK_DEADLOCK FALSE

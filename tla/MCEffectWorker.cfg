SPECIFICATION FairSpec
CONSTANTS
  t1 = t1
  p1 = p1
  p2 = p2
  Task = {t1}
  Process = {p1, p2}
  Versions <- Rolling
  Steps = 1
  Lease = 1
  Concurrency <- MixedConcurrency
  BatchSize = 2
  MaxAttempts = 3
INVARIANTS TwoHandlersAtMost ResultRestsOnSteps
PROPERTIES KeepsLifecycle CloseEnds TasksEnd
CHECK_DEADLOCK FALSE

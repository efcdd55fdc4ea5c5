---------------------------- MODULE AbsurdQueue ----------------------------
(***************************************************************************)
(* One unpartitioned Absurd queue, as the stored functions of              *)
(* sql/absurd.sql keep it.  The tables of the queue are the variables:     *)
(*                                                                         *)
(*     task        t_<queue>   one row per task                            *)
(*     run         r_<queue>   one row per attempt at a task               *)
(*     checkpoint  c_<queue>   one row per task and completed step         *)
(*     wait        w_<queue>   runs parked on an event                     *)
(*     event       e_<queue>   event payloads, first write wins            *)
(*     now         absurd.current_time()                                   *)
(*                                                                         *)
(* Every stored function is one transaction and one action.  A call that   *)
(* raises is rolled back, so it is no step.  The callers (workers,         *)
(* clients, cron) are the most general ones: any call may come at any      *)
(* time with any run, which covers crashed workers, stale workers, lost    *)
(* answers and repeated calls.  claimed_by is left out: no function reads  *)
(* it except to describe an expired claim in a failure reason.             *)
(***************************************************************************)
EXTENDS Integers, FiniteSets, Sequences

CONSTANTS
  TaskId, RunId,       \* ids handed out by portable_uuidv7()
  StepName,            \* checkpoint names
  EventName, Payload,  \* event names and the JSON values they carry
  IdempotencyKey,
  SpawnOptions,        \* option records spawn_task is called with
  LegacyOptions,       \* those stored before retry strategies were validated
  Null, Infinity       \* SQL NULL and 'infinity'::timestamptz

\* The arguments callers pass, and the bound on the clock.
CONSTANTS
  ClaimTimeouts, ClaimQuantities,  \* claim_task(p_claim_timeout, p_qty)
  WakeDelays,                      \* schedule_run(now + d)
  AwaitTimeouts,                   \* await_event(p_timeout), Null for none
  RetryAfters,                     \* fail_run(now + d), Null for no p_retry_at
  RetryLimits,                     \* retry_task(max_attempts), Null for none
  ExtendBys,                       \* extend_claim / p_extend_claim_by
  CleanupTTLs, CleanupLimit,       \* cleanup_tasks, cleanup_events
  MaxTime

NatOrNull == Nat \union {Null}

OptionRecord ==
  [maxAttempts : (Nat \ {0}) \union {Null}, strategy : Seq(Nat),
   maxDelay : NatOrNull, maxDuration : NatOrNull]

ASSUME NullAssumption ==
  /\ Null \notin Nat \union TaskId \union RunId \union EventName
                     \union Payload \union IdempotencyKey \union SpawnOptions
  /\ Null \notin [value : Payload, owner : RunId]
  /\ Infinity \notin Nat \union {Null}

ASSUME OptionAssumption ==
  /\ SpawnOptions \subseteq OptionRecord
  /\ LegacyOptions \subseteq SpawnOptions

ASSUME ArgumentAssumption ==
  /\ ClaimTimeouts \subseteq Nat
  /\ ClaimQuantities \subseteq Nat \ {0}
  /\ WakeDelays \subseteq Nat
  /\ AwaitTimeouts \subseteq NatOrNull
  /\ RetryAfters \subseteq NatOrNull
  /\ RetryLimits \subseteq (Nat \ {0}) \union {Null}
  /\ ExtendBys \subseteq Nat \ {0}
  /\ CleanupTTLs \subseteq Nat
  /\ CleanupLimit \in Nat
  /\ MaxTime \in Nat

VARIABLES task, run, checkpoint, wait, event, now

vars == <<task, run, checkpoint, wait, event, now>>

-----------------------------------------------------------------------------
(* Rows.  A row that is not in its table has the state "absent".           *)

LiveState == {"pending", "running", "sleeping"}
TerminalState == {"completed", "failed", "cancelled"}
RowState == LiveState \union TerminalState \union {"absent"}

TaskRow ==
  [state : RowState, key : IdempotencyKey \union {Null},
   options : SpawnOptions \union {Null},
   maxAttempts : (Nat \ {0}) \union {Null}, attempts : Nat,
   lastRun : RunId \union {Null}, enqueueAt : Nat,
   firstStarted : NatOrNull, cancelledAt : NatOrNull]

RunRow ==
  [state : RowState, task : TaskId \union {Null}, attempt : Nat,
   claimExpires : NatOrNull, availableAt : Nat \union {Infinity},
   wakeEvent : EventName \union {Null}, eventPayload : Payload \union {Null},
   completedAt : NatOrNull, failedAt : NatOrNull]

CheckpointRow == [value : Payload, owner : RunId] \union {Null}

WaitRow ==
  [task : TaskId, run : RunId, step : StepName, event : EventName,
   timeoutAt : NatOrNull]

\* payload is NULL in the sentinel row await_event creates.
EventRow ==
  [state : {"absent", "sentinel", "emitted"}, payload : Payload \union {Null},
   emittedAt : Nat]

NoTask ==
  [state |-> "absent", key |-> Null, options |-> Null, maxAttempts |-> Null,
   attempts |-> 0, lastRun |-> Null, enqueueAt |-> 0, firstStarted |-> Null,
   cancelledAt |-> Null]

NoRun ==
  [state |-> "absent", task |-> Null, attempt |-> 0, claimExpires |-> Null,
   availableAt |-> 0, wakeEvent |-> Null, eventPayload |-> Null,
   completedAt |-> Null, failedAt |-> Null]

NoEvent == [state |-> "absent", payload |-> Null, emittedAt |-> 0]

\* Mutant: the attempt column keeps its default.
NewRunUnnumbered(t, n, state, at) ==
  [NoRun EXCEPT !.state = state, !.task = t, !.attempt = 1, !.availableAt = at]

NewRun(t, n, state, at) ==
  [NoRun EXCEPT !.state = state, !.task = t, !.attempt = n, !.availableAt = at]

Larger(m, n) == IF m >= n THEN m ELSE n

\* Mutant: the second argument is forgotten.
CoalesceFirst(a, b) == a

Coalesce(a, b) == IF a # Null THEN a ELSE b

\* A timestamp that is neither null nor infinite and has been reached.
Reached(at) == at \notin {Null, Infinity} /\ at <= now

Absent(rn) == {r \in RunId : rn[r].state = "absent"}

\* Mutant: "order by at desc".
FirstOfNewest(S, at, n) ==
  {C \in SUBSET S :
     /\ Cardinality(C) = IF Cardinality(S) <= n THEN Cardinality(S) ELSE n
     /\ \A c \in C, d \in S \ C : at[c] >= at[d]}

\* "order by at limit n": ties are broken by ids, here in any way.
FirstOf(S, at, n) ==
  {C \in SUBSET S :
     /\ Cardinality(C) = IF Cardinality(S) <= n THEN Cardinality(S) ELSE n
     /\ \A c \in C, d \in S \ C : at[c] <= at[d]}

\* The run of the set R that belongs to task t.
RunOf(rn, R, t) == CHOOSE r \in R : rn[r].task = t

TasksOf(rn, R) == {rn[r].task : r \in R}

\* retry_delay_seconds.  A strategy is the sequence of its delays, of which
\* the last stands for all later attempts (a fixed delay, or an exponential
\* one at its cap); the empty one is a strategy it rejects with AB003.
RetryDelay(strategy, attempt) ==
  IF strategy = <<>> THEN Null
  ELSE strategy[IF attempt <= Len(strategy) THEN attempt ELSE Len(strategy)]

-----------------------------------------------------------------------------
(* cancel_task: for every task of the set T, the task and its live runs    *)
(* are cancelled and its waits dropped; a terminal task is left alone.     *)

Live(rn, r) == rn[r].state \in LiveState

\* Mutant: cancelled_at is not written.
CancelTasksUndated(tk, T) ==
  [t \in TaskId |->
     IF t \in T /\ tk[t].state \in LiveState
     THEN [tk[t] EXCEPT !.state = "cancelled"]
     ELSE tk[t]]

CancelTasks(tk, T) ==
  [t \in TaskId |->
     IF t \in T /\ tk[t].state \in LiveState
     THEN [tk[t] EXCEPT !.state = "cancelled",
                        !.cancelledAt = Coalesce(tk[t].cancelledAt, now)]
     ELSE tk[t]]

\* Mutant: only the run a worker holds is cancelled.
CancelRunningRuns(tk, rn, T) ==
  [r \in RunId |->
     IF rn[r].state = "running" /\ rn[r].task \in T
     THEN [rn[r] EXCEPT !.state = "cancelled", !.claimExpires = Null]
     ELSE rn[r]]

CancelRuns(tk, rn, T) ==
  [r \in RunId |->
     IF Live(rn, r) /\ rn[r].task \in T /\ tk[rn[r].task].state \in LiveState
     THEN [rn[r] EXCEPT !.state = "cancelled", !.claimExpires = Null]
     ELSE rn[r]]

CancelWaits(tk, T) ==
  {w \in wait : ~(w.task \in T /\ tk[w.task].state \in LiveState)}

-----------------------------------------------------------------------------
(* fail_run, for every run of the set R (no two of one task); retryAt is   *)
(* p_retry_at, fresh gives each run that is retried the id of its          *)
(* successor.                                                              *)

\* Mutant: the failed attempt itself is compared with the limit.
AttemptsLeftOffByOne(row, attempt) ==
  row.maxAttempts = Null \/ attempt <= row.maxAttempts

AttemptsLeft(row, attempt) ==
  row.maxAttempts = Null \/ attempt + 1 <= row.maxAttempts

\* When the next attempt may start; Null for an invalid legacy strategy.
NextAvailable(row, attempt, retryAt) ==
  LET delay == RetryDelay(row.options.strategy, attempt)
  IN  IF retryAt # Null THEN Larger(retryAt, now)
      ELSE IF delay # Null THEN now + delay
      ELSE Null

OutlivesMaxDuration(row, at) ==
  /\ row.options.maxDuration # Null
  /\ row.firstStarted # Null
  /\ at - row.firstStarted >= row.options.maxDuration

\* What becomes of the task when an attempt at it fails.
FailOutcome(row, attempt, retryAt) ==
  LET at == NextAvailable(row, attempt, retryAt)
  IN  IF ~AttemptsLeft(row, attempt) \/ at = Null THEN "failed"
      ELSE IF OutlivesMaxDuration(row, at) THEN "cancelled"
      ELSE IF at > now THEN "sleeping"
      ELSE "pending"

OutcomeOf(tk, rn, r, retryAt) ==
  FailOutcome(tk[rn[r].task], rn[r].attempt, retryAt)

Retried(tk, rn, R, retryAt) ==
  {r \in R : OutcomeOf(tk, rn, r, retryAt) \in LiveState}

FreshRuns(rn, R) ==
  {f \in [R -> Absent(rn)] : \A r, s \in R : f[r] = f[s] => r = s}

FailTasks(tk, rn, R, retryAt, fresh) ==
  [t \in TaskId |->
     IF t \notin TasksOf(rn, R) THEN tk[t]
     ELSE LET r == RunOf(rn, R, t)
              outcome == OutcomeOf(tk, rn, r, retryAt)
              retried == outcome \in LiveState
              attempt == rn[r].attempt + (IF retried THEN 1 ELSE 0)
          IN  [tk[t] EXCEPT
                 !.state = outcome,
                 !.attempts = Larger(tk[t].attempts, attempt),
                 !.lastRun = IF retried THEN fresh[r] ELSE r,
                 !.cancelledAt = IF outcome = "cancelled"
                                 THEN Coalesce(tk[t].cancelledAt, now)
                                 ELSE tk[t].cancelledAt]]

FailRuns(tk, rn, R, retryAt, fresh) ==
  LET retried == Retried(tk, rn, R, retryAt)
  IN  [x \in RunId |->
         IF x \in R
         THEN [rn[x] EXCEPT !.state = "failed", !.wakeEvent = Null,
                            !.failedAt = now]
         ELSE IF \E r \in retried : fresh[r] = x
         THEN LET r == CHOOSE r \in retried : fresh[r] = x
                  row == tk[rn[r].task]
              IN  NewRun(rn[r].task, rn[r].attempt + 1,
                         FailOutcome(row, rn[r].attempt, retryAt),
                         NextAvailable(row, rn[r].attempt, retryAt))
         ELSE rn[x]]

-----------------------------------------------------------------------------
(* claim_task applies the cancellation rules, then sweeps expired leases,  *)
(* then claims due runs.  "skip locked" passes over the rows that other    *)
(* transactions hold.                                                      *)

\* Mutant: the rules are applied to running tasks only.
OverdueRunning(tk) ==
  {t \in TaskId :
     /\ tk[t].state = "running"
     /\ \/ /\ tk[t].options.maxDelay # Null
           /\ tk[t].firstStarted = Null
           /\ now - tk[t].enqueueAt >= tk[t].options.maxDelay
        \/ OutlivesMaxDuration(tk[t], now)}

Overdue(tk) ==
  {t \in TaskId :
     /\ tk[t].state \in LiveState
     /\ \/ /\ tk[t].options.maxDelay # Null
           /\ tk[t].firstStarted = Null
           /\ now - tk[t].enqueueAt >= tk[t].options.maxDelay
        \/ OutlivesMaxDuration(tk[t], now)}

\* Mutant: any claim with a deadline is swept.
ExpiredClaimsEarly(rn) ==
  {r \in RunId : rn[r].state = "running" /\ rn[r].claimExpires # Null}

\* Mutant: the sweep looks at runs that have given their claim back.
ExpiredClaimsAsleep(rn) ==
  {r \in RunId : rn[r].state = "sleeping" /\ Reached(rn[r].claimExpires)}

ExpiredClaims(rn) ==
  {r \in RunId : rn[r].state = "running" /\ Reached(rn[r].claimExpires)}

Claimable(tk, rn) ==
  {r \in RunId : /\ rn[r].state \in {"pending", "sleeping"}
                 /\ tk[rn[r].task].state \in LiveState
                 /\ Reached(rn[r].availableAt)}

ClaimTasks(tk, rn, R) ==
  [t \in TaskId |->
     IF t \notin TasksOf(rn, R) THEN tk[t]
     ELSE LET r == RunOf(rn, R, t)
          IN  [tk[t] EXCEPT
                 !.state = "running",
                 !.attempts = Larger(tk[t].attempts, rn[r].attempt),
                 !.firstStarted = Coalesce(tk[t].firstStarted, now),
                 !.lastRun = r]]

ClaimRuns(rn, R, timeout) ==
  [r \in RunId |->
     IF r \in R
     THEN [rn[r] EXCEPT
             !.state = "running",
             !.claimExpires = IF timeout > 0 THEN now + timeout ELSE Null,
             !.availableAt = now]
     ELSE rn[r]]

\* Mutant: claim_task leaves the waits that timed out.
NoTimedOutWaits(W, R) == {}

TimedOutWaits(W, R) == {w \in W : w.run \in R /\ Reached(w.timeoutAt)}

ClaimTask(timeout, qty, locked) ==
  LET overdue == Overdue(task)
      tk1 == CancelTasks(task, overdue)
      rn1 == CancelRuns(task, run, overdue)
      expired == ExpiredClaims(rn1) \ locked
      leases == [r \in RunId |-> rn1[r].claimExpires]
  IN  \E R \in FirstOf(expired, leases, qty) :
      \E fresh \in FreshRuns(rn1, Retried(tk1, rn1, R, Null)) :
        LET tk2 == FailTasks(tk1, rn1, R, Null, fresh)
            rn2 == FailRuns(tk1, rn1, R, Null, fresh)
            due == Claimable(tk2, rn2) \ locked
            times == [r \in RunId |-> rn2[r].availableAt]
        IN  \E C \in FirstOf(due, times, qty) :
              /\ task' = ClaimTasks(tk2, rn2, C)
              /\ run' = ClaimRuns(rn2, C, timeout)
              /\ LET W == {w \in CancelWaits(task, overdue) : w.run \notin R}
                 IN  wait' = W \ TimedOutWaits(W, C)
              /\ UNCHANGED <<checkpoint, event, now>>

-----------------------------------------------------------------------------
(* The remaining stored functions.                                         *)

\* spawn_task.  A known idempotency key returns the existing task: no step.
SpawnTask(t, r, key, options) ==
  /\ options \in LegacyOptions \/ RetryDelay(options.strategy, 1) # Null
  /\ key # Null => \A u \in TaskId : task[u].key # key
  /\ task[t].state = "absent" /\ run[r].state = "absent"
  /\ task' = [task EXCEPT ![t] =
       [NoTask EXCEPT !.state = "pending", !.key = key, !.options = options,
                      !.maxAttempts = options.maxAttempts, !.attempts = 1,
                      !.lastRun = r, !.enqueueAt = now]]
  /\ run' = [run EXCEPT ![r] = NewRun(t, 1, "pending", now)]
  /\ UNCHANGED <<checkpoint, wait, event, now>>

\* Mutant: a late answer completes a run whatever became of it.
CompleteAnyRun(r) ==
  /\ run[r].state # "absent"
  /\ run' = [run EXCEPT ![r] =
       [run[r] EXCEPT !.state = "completed", !.completedAt = now]]
  /\ task' = [task EXCEPT ![run[r].task] =
       [task[run[r].task] EXCEPT !.state = "completed", !.lastRun = r]]
  /\ wait' = {w \in wait : w.run # r}
  /\ UNCHANGED <<checkpoint, event, now>>

CompleteRun(r) ==
  /\ run[r].state = "running"
  /\ run' = [run EXCEPT ![r] =
       [run[r] EXCEPT !.state = "completed", !.completedAt = now]]
  /\ task' = [task EXCEPT ![run[r].task] =
       [task[run[r].task] EXCEPT !.state = "completed", !.lastRun = r]]
  /\ wait' = {w \in wait : w.run # r}
  /\ UNCHANGED <<checkpoint, event, now>>

ScheduleRun(r, wakeAt) ==
  /\ run[r].state = "running"
  /\ run' = [run EXCEPT ![r] =
       [run[r] EXCEPT !.state = "sleeping", !.claimExpires = Null,
                      !.availableAt = wakeAt, !.wakeEvent = Null]]
  /\ task' = [task EXCEPT ![run[r].task] =
       [task[run[r].task] EXCEPT !.state = "sleeping"]]
  /\ UNCHANGED <<checkpoint, wait, event, now>>

FailRun(r, retryAt) ==
  /\ run[r].state \in {"running", "sleeping"}
  /\ \E fresh \in FreshRuns(run, Retried(task, run, {r}, retryAt)) :
       /\ task' = FailTasks(task, run, {r}, retryAt, fresh)
       /\ run' = FailRuns(task, run, {r}, retryAt, fresh)
  /\ wait' = {w \in wait : w.run # r}
  /\ UNCHANGED <<checkpoint, event, now>>

RetryLimit(row, requested) ==
  IF requested # Null THEN requested
  ELSE Coalesce(row.maxAttempts, row.attempts) + 1

\* Mutant: a task that has not ended may be retried.
RetryAnyTask(t, r, requested) ==
  LET limit == RetryLimit(task[t], requested)
      attempt == task[t].attempts + 1
  IN  /\ task[t].state \in LiveState \union {"failed"}
      /\ run[r].state = "absent"
      /\ limit > task[t].attempts
      /\ run' = [run EXCEPT ![r] = NewRun(t, attempt, "pending", now)]
      /\ task' = [task EXCEPT ![t] =
           [task[t] EXCEPT !.state = "pending", !.attempts = attempt,
                           !.maxAttempts = limit, !.lastRun = r,
                           !.cancelledAt = Null]]
      /\ UNCHANGED <<checkpoint, wait, event, now>>

\* retry_task in place.
RetryTask(t, r, requested) ==
  LET limit == RetryLimit(task[t], requested)
      attempt == task[t].attempts + 1
  IN  /\ task[t].state = "failed" /\ run[r].state = "absent"
      /\ limit > task[t].attempts
      /\ run' = [run EXCEPT ![r] = NewRun(t, attempt, "pending", now)]
      /\ task' = [task EXCEPT ![t] =
           [task[t] EXCEPT !.state = "pending", !.attempts = attempt,
                           !.maxAttempts = limit, !.lastRun = r,
                           !.cancelledAt = Null]]
      /\ UNCHANGED <<checkpoint, wait, event, now>>

\* retry_task with spawn_new: a new task from the inputs of the failed one.
RetryAsNewTask(t, u, r, requested) ==
  LET limit == Coalesce(requested, task[t].maxAttempts)
  IN  /\ task[t].state = "failed"
      /\ RetryDelay(task[t].options.strategy, 1) # Null
      /\ task[u].state = "absent" /\ run[r].state = "absent"
      /\ task' = [task EXCEPT ![u] =
           [NoTask EXCEPT !.state = "pending", !.options = task[t].options,
                          !.maxAttempts = limit, !.attempts = 1,
                          !.lastRun = r, !.enqueueAt = now]]
      /\ run' = [run EXCEPT ![r] = NewRun(u, 1, "pending", now)]
      /\ UNCHANGED <<checkpoint, wait, event, now>>

\* set_task_checkpoint_state's extension of the claim.
ExtendedRuns(r, by) ==
  IF by # Null /\ run[r].state = "running" /\ run[r].claimExpires # Null
  THEN [run EXCEPT ![r] = [run[r] EXCEPT !.claimExpires = now + by]]
  ELSE run

\* The owner of the stored checkpoint is not of a later attempt than run r.
MayOverwrite(r, row) ==
  \/ row = Null
  \/ run[row.owner].state = "absent"
  \/ run[r].attempt >= run[row.owner].attempt

\* The run need not be running: any run that is neither failed nor of a
\* cancelled task may write.  That the state, the stored attempt and the write
\* are one step is an abstraction: the code locks nothing between them, and
\* TaskTransactions takes them apart (BeginCheckpoint to WriteCheckpoint).
SetTaskCheckpointState(r, step, value, extendBy) ==
  LET t == run[r].task
  IN  /\ run[r].state \notin {"absent", "failed"}
      /\ task[t].state # "cancelled"
      /\ run' = ExtendedRuns(r, extendBy)
      /\ checkpoint' =
           IF MayOverwrite(r, checkpoint[<<t, step>>])
           THEN [checkpoint EXCEPT ![<<t, step>>] =
                   [value |-> value, owner |-> r]]
           ELSE checkpoint
      /\ UNCHANGED <<task, wait, event, now>>

ExtendClaim(r, by) ==
  /\ run[r].state = "running"
  /\ task[run[r].task].state # "cancelled"
  /\ run[r].claimExpires # Null
  /\ run' = [run EXCEPT ![r] = [run[r] EXCEPT !.claimExpires = now + by]]
  /\ UNCHANGED <<task, checkpoint, wait, event, now>>

CancelTask(t) ==
  /\ task[t].state \in LiveState
  /\ task' = CancelTasks(task, {t})
  /\ run' = CancelRuns(task, run, {t})
  /\ wait' = CancelWaits(task, {t})
  /\ UNCHANGED <<checkpoint, event, now>>

\* Mutant: the sentinel replaces the row ("do update" for "do nothing").
WithEventRowReset(e) ==
  [event EXCEPT ![e] = [NoEvent EXCEPT !.state = "sentinel"]]

\* The sentinel row (payload null, emitted_at epoch) await_event inserts.
WithEventRow(e) ==
  IF event[e].state # "absent" THEN event
  ELSE [event EXCEPT ![e] = [NoEvent EXCEPT !.state = "sentinel"]]

\* Mutant: a run parks without looking at the event it has locked.
UnemittedUnread(e) == TRUE

Unemitted(e) == event[e].state # "emitted"

\* await_event gets past its checkpoint lookup and its state checks.
MayAwait(r, step) ==
  /\ run[r].state = "running"
  /\ task[run[r].task].state # "cancelled"
  /\ checkpoint[<<run[r].task, step>>] = Null

\* The event was emitted: its payload becomes the step's checkpoint.
AwaitResolves(r, step, e) ==
  /\ MayAwait(r, step)
  /\ event[e].state = "emitted"
  /\ event' = WithEventRow(e)
  /\ run' = [run EXCEPT ![r] = [run[r] EXCEPT !.eventPayload = Null]]
  /\ checkpoint' = [checkpoint EXCEPT ![<<run[r].task, step>>] =
                      [value |-> event[e].payload, owner |-> r]]
  /\ UNCHANGED <<task, wait, now>>

\* The run was resumed by a timeout.
ResumedByTimeout(r, e) == run[r].wakeEvent = e /\ run[r].eventPayload = Null

\* A timeout is reported once and leaves no checkpoint.
AwaitTimesOut(r, step, e) ==
  /\ MayAwait(r, step)
  /\ Unemitted(e)
  /\ ResumedByTimeout(r, e)
  /\ event' = WithEventRow(e)
  /\ run' = [run EXCEPT ![r] = [run[r] EXCEPT !.wakeEvent = Null]]
  /\ UNCHANGED <<task, checkpoint, wait, now>>

\* The run is parked until the event or the timeout.
AwaitParks(r, step, e, timeout) ==
  LET t == run[r].task
      timeoutAt == IF timeout = Null THEN Null ELSE now + timeout
  IN  /\ MayAwait(r, step)
      /\ Unemitted(e)
      /\ ~ResumedByTimeout(r, e)
      /\ event' = WithEventRow(e)
      /\ wait' = {w \in wait : ~(w.run = r /\ w.step = step)} \union
                 {[task |-> t, run |-> r, step |-> step, event |-> e,
                   timeoutAt |-> timeoutAt]}
      /\ run' = [run EXCEPT ![r] =
           [run[r] EXCEPT !.state = "sleeping", !.claimExpires = Null,
                          !.availableAt = Coalesce(timeoutAt, Infinity),
                          !.wakeEvent = e, !.eventPayload = Null]]
      /\ task' = [task EXCEPT ![t] = [task[t] EXCEPT !.state = "sleeping"]]
      /\ UNCHANGED <<checkpoint, now>>

AwaitEvent(r, step, e, timeout) ==
  \/ AwaitResolves(r, step, e)
  \/ AwaitTimesOut(r, step, e)
  \/ AwaitParks(r, step, e, timeout)

\* The waits an emission serves: those that have not timed out.
AffectedWaits(e) ==
  {w \in wait : w.event = e /\ ~Reached(w.timeoutAt)}

\* Mutant: only runs that wait without a timeout are woken.
WokenUntimedRuns(e) ==
  {r \in RunId : /\ run[r].availableAt = Infinity
                 /\ run[r].state = "sleeping"
                 /\ \E w \in AffectedWaits(e) : w.run = r}

WokenRuns(e) ==
  {r \in RunId : /\ run[r].state = "sleeping"
                 /\ \E w \in AffectedWaits(e) : w.run = r}

\* emit_event: only the first emission of a name has any effect.
EmitEvent(e, payload) ==
  LET woken == WokenRuns(e)
      served == {w \in AffectedWaits(e) : w.run \in woken}
  IN  /\ event[e].state # "emitted"
      /\ event' = [event EXCEPT ![e] =
           [state |-> "emitted", payload |-> payload, emittedAt |-> now]]
      /\ wait' = {w \in wait : w.event # e} \union (AffectedWaits(e) \ served)
      /\ run' = [r \in RunId |->
           IF r \in woken
           THEN [run[r] EXCEPT !.state = "pending", !.availableAt = now,
                               !.wakeEvent = Null, !.eventPayload = payload,
                               !.claimExpires = Null]
           ELSE run[r]]
      /\ checkpoint' = [c \in TaskId \X StepName |->
           IF \E w \in served : w.task = c[1] /\ w.step = c[2]
           THEN [value |-> payload,
                 owner |-> (CHOOSE w \in served :
                              w.task = c[1] /\ w.step = c[2]).run]
           ELSE checkpoint[c]]
      /\ task' = [t \in TaskId |->
           IF t \in TasksOf(run, woken)
           THEN [task[t] EXCEPT !.state = "pending"]
           ELSE task[t]]
      /\ UNCHANGED now

\* Mutant: a task is as old as its enqueueing, whatever its state.
EnqueuedAt(t) == IF task[t].state = "absent" THEN Null ELSE task[t].enqueueAt

\* When a terminal task ended, by its last run or its own cancelled_at.
TerminalAt(t) ==
  LET last == task[t].lastRun
  IN  CASE task[t].state = "completed" -> run[last].completedAt
        [] task[t].state = "failed"    -> run[last].failedAt
        [] task[t].state = "cancelled" -> task[t].cancelledAt
        [] OTHER                       -> Null

\* Mutant: the checkpoints of the deleted tasks are left behind.
DeleteOldTaskRows(ttl) ==
  LET endedAt == [t \in TaskId |-> TerminalAt(t)]
      old == {t \in TaskId : endedAt[t] # Null /\ endedAt[t] < now - ttl}
  IN  \E D \in FirstOf(old, endedAt, CleanupLimit) :
        /\ task' = [t \in TaskId |-> IF t \in D THEN NoTask ELSE task[t]]
        /\ run' = [r \in RunId |-> IF run[r].task \in D THEN NoRun ELSE run[r]]
        /\ wait' = {w \in wait : w.task \notin D}
        /\ UNCHANGED checkpoint

DeleteOldTasks(ttl) ==
  LET endedAt == [t \in TaskId |-> TerminalAt(t)]
      old == {t \in TaskId : endedAt[t] # Null /\ endedAt[t] < now - ttl}
  IN  \E D \in FirstOf(old, endedAt, CleanupLimit) :
        /\ task' = [t \in TaskId |-> IF t \in D THEN NoTask ELSE task[t]]
        /\ run' = [r \in RunId |-> IF run[r].task \in D THEN NoRun ELSE run[r]]
        /\ checkpoint' = [c \in TaskId \X StepName |->
                            IF c[1] \in D THEN Null ELSE checkpoint[c]]
        /\ wait' = {w \in wait : w.task \notin D}

\* A sentinel's emitted_at is the epoch, which is older than any cutoff.
DeleteOldEvents(ttl) ==
  LET emittedAt == [e \in EventName |->
                      IF event[e].state = "sentinel" THEN -1
                      ELSE event[e].emittedAt]
      old == {e \in EventName :
                \/ event[e].state = "sentinel"
                \/ event[e].state = "emitted" /\ emittedAt[e] < now - ttl}
  IN  \E D \in FirstOf(old, emittedAt, CleanupLimit) :
        event' = [e \in EventName |-> IF e \in D THEN NoEvent ELSE event[e]]

CleanupTasks(ttl) == DeleteOldTasks(ttl) /\ UNCHANGED <<event, now>>

CleanupEvents(ttl) ==
  DeleteOldEvents(ttl) /\ UNCHANGED <<task, run, checkpoint, wait, now>>

\* cleanup_all_queues: both, in one transaction, with the queue's policy.
CleanupQueue(ttl) ==
  DeleteOldTasks(ttl) /\ DeleteOldEvents(ttl) /\ UNCHANGED now

Tick ==
  /\ now < MaxTime
  /\ now' = now + 1
  /\ UNCHANGED <<task, run, checkpoint, wait, event>>

-----------------------------------------------------------------------------

Init ==
  /\ task = [t \in TaskId |-> NoTask]
  /\ run = [r \in RunId |-> NoRun]
  /\ checkpoint = [c \in TaskId \X StepName |-> Null]
  /\ wait = {}
  /\ event = [e \in EventName |-> NoEvent]
  /\ now = 0

\* now + d, or Null for no time at all.
After(d) == IF d = Null THEN Null ELSE now + d

LiveRuns == {r \in RunId : Live(run, r)}

\* Calls of clients: spawn_task, retry_task, cancel_task, emit_event.
ClientStep ==
  \/ \E t \in TaskId, r \in RunId, k \in IdempotencyKey \union {Null},
        o \in SpawnOptions : SpawnTask(t, r, k, o)
  \/ \E t \in TaskId, r \in RunId, m \in RetryLimits : RetryTask(t, r, m)
  \/ \E t, u \in TaskId, r \in RunId, m \in RetryLimits :
        RetryAsNewTask(t, u, r, m)
  \/ \E t \in TaskId : CancelTask(t)
  \/ \E e \in EventName, p \in Payload : EmitEvent(e, p)

\* Calls of workers polling the queue.
PollStep ==
  \E c \in ClaimTimeouts, q \in ClaimQuantities, locked \in SUBSET LiveRuns :
    ClaimTask(c, q, locked)

\* Calls of workers executing a run, or believing they do.
WorkerStep ==
  \/ \E r \in RunId : CompleteRun(r)
  \/ \E r \in RunId, d \in WakeDelays : ScheduleRun(r, now + d)
  \/ \E r \in RunId, d \in RetryAfters : FailRun(r, After(d))
  \/ \E r \in RunId, s \in StepName, p \in Payload,
        by \in ExtendBys \union {Null} : SetTaskCheckpointState(r, s, p, by)
  \/ \E r \in RunId, by \in ExtendBys : ExtendClaim(r, by)
  \/ \E r \in RunId, s \in StepName, e \in EventName, d \in AwaitTimeouts :
        AwaitEvent(r, s, e, d)

\* Calls of the cleanup job, cleanup_all_queues.
CleanupStep ==
  \E ttl \in CleanupTTLs :
    CleanupTasks(ttl) \/ CleanupEvents(ttl) \/ CleanupQueue(ttl)

Next == ClientStep \/ PollStep \/ WorkerStep \/ CleanupStep \/ Tick

Spec == Init /\ [][Next]_vars

-----------------------------------------------------------------------------
(* Invariants.                                                             *)

\* Every table holds rows of its type.
TypeOK ==
  /\ task \in [TaskId -> TaskRow]
  /\ run \in [RunId -> RunRow]
  /\ checkpoint \in [TaskId \X StepName -> CheckpointRow]
  /\ wait \in SUBSET WaitRow
  /\ event \in [EventName -> EventRow]
  /\ now \in Nat

\* A task never has two runs that are pending, running or sleeping at once:
\* claim_task, fail_run, retry_task and emit_event between them never hand
\* one task to two workers as two attempts.
OneLiveRun ==
  \A r, s \in RunId :
    Live(run, r) /\ Live(run, s) /\ run[r].task = run[s].task => r = s

\* The task row and the row of its last attempt, which different statements
\* write, never disagree.  A cancelled task's last attempt may have failed:
\* fail_run cancels a task that outlives max_duration.
LastRunMirrorsTask ==
  \A t \in TaskId : task[t].state # "absent" =>
    LET last == task[t].lastRun
    IN  /\ last \in RunId
        /\ run[last].task = t
        /\ run[last].attempt = task[t].attempts
        /\ \/ run[last].state = task[t].state
           \/ run[last].state = "failed" /\ task[t].state = "cancelled"

\* The attempts at a task are numbered 1, 2, ... without a gap or a repeat,
\* and every attempt before the last one has failed.
AttemptHistory ==
  /\ \A r \in RunId : run[r].state # "absent" =>
       /\ run[r].task \in TaskId
       /\ task[run[r].task].state # "absent"
       /\ run[r].attempt \in 1 .. task[run[r].task].attempts
       /\ run[r].attempt < task[run[r].task].attempts => run[r].state = "failed"
  /\ \A r, s \in RunId :
       /\ run[r].state # "absent" /\ run[s].state # "absent"
       /\ run[r].task = run[s].task /\ run[r].attempt = run[s].attempt
       => r = s

\* No task is attempted more often than max_attempts allows, whatever mix of
\* failures, expired claims and retry_task calls it goes through.
AttemptsWithinLimit ==
  \A t \in TaskId :
    task[t].maxAttempts # Null => task[t].attempts <= task[t].maxAttempts

\* Every wait belongs to a run that is parked on that very event, so that an
\* emission can never wake a run that has moved on.
WaitsAreOfParkedRuns ==
  \A w \in wait :
    /\ run[w.run].state = "sleeping"
    /\ run[w.run].task = w.task
    /\ run[w.run].wakeEvent = w.event
    /\ run[w.run].availableAt = Coalesce(w.timeoutAt, Infinity)

\* No wakeup is lost: a run that sleeps with no time to wake has a wait, for
\* an event that is not emitted yet.
NoLostWakeup ==
  \A r \in RunId :
    Live(run, r) /\ run[r].availableAt = Infinity =>
      \E w \in wait : /\ w.run = r /\ w.timeoutAt = Null
                      /\ event[w.event].state # "emitted"

\* A parked run whose event has been emitted does not sleep on until the
\* timeout: the emission has made it pending.
EmittedEventHasNoLiveWait ==
  \A w \in wait : event[w.event].state # "emitted"

\* cleanup_tasks finds the end of every terminal task, so that none stays
\* in the tables for ever.
TerminalTasksAreDated ==
  \A t \in TaskId : task[t].state \in TerminalState => TerminalAt(t) # Null

\* A checkpoint belongs to a task that still exists and was written by one
\* of its own runs, so that get_task_checkpoint_states shows it to every
\* later attempt.
CheckpointsHaveOwners ==
  \A c \in TaskId \X StepName : checkpoint[c] # Null =>
    LET owner == checkpoint[c].owner
    IN  run[owner].state # "absent" /\ run[owner].task = c[1]

-----------------------------------------------------------------------------
(* Action properties.                                                      *)

\* A run that has completed, failed or been cancelled is final: no late call
\* of a worker that lost its claim changes it.  Only cleanup removes it, with
\* its terminal task.
FinishedRunsAreFinal ==
  [][\A r \in RunId : run[r].state \in TerminalState =>
       \/ run'[r] = run[r]
       \/ /\ run'[r] = NoRun
          /\ task[run[r].task].state \in TerminalState
          /\ task'[run[r].task].state = "absent"]_vars

\* claim_task takes a running run away from its worker only if the claim has
\* expired or the task's cancellation rules ask for it.
ClaimsAreHonoured ==
  [][PollStep => \A r \in RunId :
       run[r].state = "running" /\ run'[r].state # "running" =>
         Reached(run[r].claimExpires) \/ run[r].task \in Overdue(task)]_vars

\* The first emission of an event wins: its payload stays until the event is
\* cleaned up.
FirstEmissionWins ==
  [][\A e \in EventName : event[e].state = "emitted" =>
       event'[e] = event[e] \/ event'[e].state = "absent"]_vars

\* The cancellation rules hold on every way back to a worker: no attempt of
\* a task starts when the task was first started max_duration ago or, if it
\* was never started, was spawned max_delay ago, whether it comes from a
\* sleep, from a retry by fail_run in the same call or from retry_task.
RunsStartInTime ==
  [][\A r \in RunId : run[r].state # "running" /\ run'[r].state = "running" =>
       LET row == task[run'[r].task]
           since == IF row.firstStarted = Null THEN row.enqueueAt
                    ELSE row.firstStarted
           limit == IF row.firstStarted = Null THEN row.options.maxDelay
                    ELSE row.options.maxDuration
       IN  limit # Null => now - since < limit]_vars

-----------------------------------------------------------------------------
(* The queue implements the task lifecycle its clients rely on.            *)

StatusOf(row) == IF row.state \in LiveState THEN "live" ELSE row.state

Lifecycle == INSTANCE TaskLifecycle WITH
  status <- [t \in TaskId |-> StatusOf(task[t])],
  attempts <- [t \in TaskId |-> task[t].attempts]

\* Whatever calls arrive in whatever order, each task goes through the
\* lifecycle of TaskLifecycle.
ImplementsLifecycle == Lifecycle!Spec

-----------------------------------------------------------------------------
(* Liveness.  Workers poll in a loop for as long as they run, and the      *)
(* clock advances; nothing else is certain to happen.  In particular       *)
(* workers may never finish, extend or give back what they claimed.        *)

PollUnhindered ==
  \E c \in ClaimTimeouts, q \in ClaimQuantities : ClaimTask(c, q, {})

FairSpec == Spec /\ WF_vars(Tick) /\ WF_vars(PollUnhindered)

\* A worker that stops for ever with a claim does not keep the task: once
\* the claim has expired, some poll takes the run away, however many other
\* claims expire and however small the polls are.
ExpiredClaimsAreReclaimed ==
  \A r \in RunId :
    (run[r].state = "running" /\ Reached(run[r].claimExpires))
      ~> ~(run[r].state = "running" /\ Reached(run[r].claimExpires))

\* No run that is due is passed over for ever, though other runs are put back
\* by schedule_run to be claimed at once, again and again: claim_task takes
\* the longest due first.  Here the clock stops at MaxTime, and runs put back
\* at that moment are due as of now as long as they like; so this is about
\* runs that became due before, as every run does while time goes on.
DueRunsAreTaken ==
  \A r \in RunId :
    (/\ run[r].state \in {"pending", "sleeping"}
     /\ Reached(run[r].availableAt) /\ run[r].availableAt # now)
      ~> run[r].state \notin {"pending", "sleeping"}

=============================================================================

# A TLA+ model of Absurd

Absurd is a durable workflow system that lives in PostgreSQL: `sql/absurd.sql` holds the
stored functions that keep the queues, and the SDKs (TypeScript, Python, Effect) are
workers that call them. This directory models the queue as those functions keep it, the
workers of the Effect SDK that claim from it, the Effect workflow engine that parks and
wakes executions on it, and the replay of a handler by the TypeScript SDK. TLC checks
small instances, and TLAPS proves the safety properties for every instance.

All paths below are relative to the repository; the queue's functions are in
`sql/absurd.sql` and are named without it, and `AbsurdWorkflowEngine.ts` is in
`sdks/effect/src/unstable/workflow/`.

## 1. Inventory

| Part | State it keeps | Operations | What makes it correct |
|---|---|---|---|
| Queue core | `t_` tasks, `r_` runs | `spawn_task`, `claim_task`, `complete_run`, `schedule_run`, `fail_run`, `retry_task`, `extend_claim`, `cancel_task`, `get_task_result` | one live run a task; task and last run agree; attempts numbered and bounded; a finished run is final; expired claims are taken back and others are not |
| Checkpoints | `c_` | `set_task_checkpoint_state`, `get_task_checkpoint_state(s)` | a stored step is lost only with its task; an older attempt replaces it only through one known window |
| Events | `e_`, `w_` | `await_event`, `emit_event` | first emission wins; no lost wakeup; nobody is woken who has moved on |
| Cleanup | all tables | `cleanup_tasks`, `cleanup_events`, `cleanup_all_queues` | only ended tasks go, every ended task can go, nothing of a task is left behind |
| Queue management | `absurd.queues` | `create_queue`, `drop_queue`, `set_queue_policy` | tables and policy agree |
| Partitions and cron | weekly partitions of the tables | `ensure_partitions`, detach planner, detach and drop jobs, `enable_cron` | no partition with rows is detached; no insert without a partition |
| Effect worker | claims in progress | `Absurd.ts`, `Worker.ts`, `Task.ts` | steps run once per checkpoint; a worker that loses its lease stops |
| Effect task store | none | `internal/AbsurdSql.ts` | one stored function per call |
| Effect workflow engine | doorbell events, deferreds, clocks as checkpoints and events | `unstable/workflow/AbsurdWorkflowEngine.ts` | a parked workflow is woken by every completion, clock and interrupt |
| TypeScript, Python SDKs | claimed runs, step caches | `sdks/typescript/src/index.ts`, `sdks/python/.../__init__.py` | a replayed handler sees its checkpoints in order |
| absurdctl, habitat | none | command line and web views | they call the stored functions |
| Migrations | none | DDL scripts | each runs once |

**How the parts interact.** Everything goes through the tables. Clients call
`spawn_task`, `emit_event`, `cancel_task` and `retry_task`; workers poll `claim_task`,
then report with checkpoints, awaits and `complete_run`, `fail_run` or `schedule_run`;
cron calls the cleanup and partition functions. No function calls back: a worker learns
that its claim is lost when its next call raises AB001 (cancelled) or AB002 (failed).
Inside the database `claim_task` calls `cancel_task` and `fail_run`, `retry_task` calls
`spawn_task`, and `cleanup_all_queues` calls both cleanups.

**What is hard.** Claims are leases: a worker may crash, stall past its lease and answer
late, or have its answer lost and repeat it. An expired lease is swept by whoever polls
next. A handler is replayed from its start after every sleep, wait and failure, so what it
has done must be recorded under names that the replay finds again. Waiting on an event races with its emission, the wait's timeout, the task's
cancellation and the cleanup of the event. Retries come from four places (a reported
failure, a swept lease, `retry_task` in place, `retry_task` as a new task) and share two
counters. The cleanup deletes from tables that other transactions are using. The
complete list of hazards, each at its line, is under `hazards` in `PROJECT.json`.

## 2. Modules

- `TaskLifecycle` is the abstract specification: what a queue promises a client about
  each task, without runs, claims or waits. Its status is what `get_task_result` tells.
- `AbsurdQueue` is one unpartitioned queue, with a variable for each of its tables and
  an action for each stored function. Its last part states the invariants, the action
  properties, the refinement of `TaskLifecycle` and the liveness properties.
- `AbsurdQueueProofs` proves its state invariants, `AbsurdQueueStepProofs` that finished
  runs are final and the refinement, `AbsurdQueueEventProofs` the rest of its safety.
- `EventTransactions` takes `await_event`, `emit_event` and `cleanup_events` apart into
  their statements and lets them run at the same time on one event. `AtomicEvent` is what
  the first two promise: the same calls, one at a time. `EventTransactionsProofs` has the
  theorems.
- `TaskTransactions` does the same for the functions that change one task:
  `complete_run`, `fail_run`, the functions that suspend a run, `claim_task`,
  `retry_task`, `cancel_task`, `emit_event` as far as it wakes a run of the task,
  `set_task_checkpoint_state` and `cleanup_tasks`.
  `AtomicTask` is a task and its runs under the same calls, one at a time.
  `TaskTransactionsProofs` has the theorems.
- `EffectWorker` is the worker loop of the Effect SDK in several processes: claims, lease
  watchdogs, recorded steps, tasks without a handler, lost calls, crashes and closing.
  `EffectWorkerProofs` has its theorems.
- `WorkflowDoorbell` is the Effect workflow engine executing one workflow: replay, park,
  doorbell, deferreds, clocks, activities, children, interrupt, cancel and resume.
  `WorkflowDoorbellProofs` has its theorems.
- `StepReplay` is the TypeScript SDK's replay of a handler: checkpoint names, the cache,
  steps, waits with timeouts, sleeps, and what becomes of failures. `StepReplayProofs` has
  its theorems.
- `MCAbsurdQueue`, `MCEventTransactions`, `MCTaskTransactions`, `MCEffectWorker`,
  `MCWorkflowDoorbell` and `MCStepReplay`, with the `MC*.cfg` files, are the TLC instances.

`AbsurdQueue`, `EventTransactions` and `TaskTransactions` are views of the same code:
`AbsurdQueue` has all the data and takes every function for one step; the two others keep
little data and show what happens between the statements. Whether the functions behave as
if they were one step is what those two ask, and `AtomicEvent` and `AtomicTask` say what
that means: their actions are calls that see and change the committed rows at one moment,
and `FunctionsAreAtomic` is the refinement. It holds with these exceptions:

- `cleanup_events` is left out of `AtomicEvent`: with it an await can park on an event that
  is there (section 3);
- `cleanup_tasks` is in `AtomicTask` as it is: it chooses ended tasks and deletes by id what
  it has chosen, whatever has become of the task. `KeepsLifecycle` says what that does to
  clients: every other step is one of `TaskLifecycle`, and the task so deleted leaves its
  new run behind, live and without a task;
- the checkpoints of `TaskTransactions` are not in `AtomicTask`, because the comparison of
  attempts in `set_task_checkpoint_state` is not atomic. `CheckpointsAreKept` says what is
  left of it: an earlier attempt replaces a later one's checkpoint only if its call read
  what was stored before the later one wrote, and does not hold its run, because the run
  ended before the call came to extend the claim, or no extension was asked for.

The other three are written over what `AbsurdQueue` promises: each has a `run`, the last
run of a task with the states and the attempt numbers of `AbsurdQueue`, and in place of
the stored functions their effect on it: a claim starts a pending or due run, a call for
an attempt that is over is refused, a failed or expired run is succeeded up to
`MaxAttempts`. They do not include each other. `WorkflowDoorbell` and
`StepReplay` take from `EffectWorker` that any number of executions of one task may be at
work, of which one holds the claim. `EffectWorker` and `StepReplay` take a
recorded step, with the refusal that may prevent it, for one step; the window inside
`set_task_checkpoint_state` is an exception to `ResultRestsOnSteps` and `ValuesAreSticky`
that only `TaskTransactions` shows. `WorkflowDoorbell` and `StepReplay` refine `TaskLifecycle`, and so does
`EffectWorker` from the moment at which its tasks are spawned (`KeepsLifecycle`).

### AbsurdQueue and the code

| Variable | Table | Left out |
|---|---|---|
| `task` | `t_<queue>` | name, params, headers, completed payload |
| `run` | `r_<queue>` | `claimed_by`, `started_at`, result, failure reason |
| `checkpoint` | `c_<queue>` | `status` (always `committed`), `updated_at` |
| `wait` | `w_<queue>` | `created_at` |
| `event` | `e_<queue>` | |
| `now` | `absurd.current_time()` | sub-second time |

A stored function is one transaction, and a call is one action. Where it raises, the
transaction is rolled back and the model has no step; where it returns without change
(a known idempotency key, a second emission, a terminal task cancelled), it stutters.

- `ClaimTask` has the three stages of the function in their order: `Overdue` tasks are
  cancelled (through `cancel_task`), up to `p_qty` `ExpiredClaims` are failed (through
  `fail_run`, which makes the successors that the third stage may already take), and up
  to `p_qty` `Claimable` runs are claimed. Rows that `skip locked` passes over are the
  set `locked`, any set of live runs. "order by ... limit" is `FirstOf`, which breaks
  ties in any way, since the tie is broken by random ids.
- `FailOutcome` is the decision at the heart of `fail_run`: failed, cancelled, sleeping
  or pending, from the attempt limit, the retry time and `max_duration`. A stored
  strategy that `retry_delay_seconds` rejects (AB003) fails the task; such a task can
  only have been stored before validation, which is what `LegacyOptions` says.
- `RetryDelay` abstracts the delay arithmetic to the sequence of delays it yields.
- `AwaitEvent` is the function's three ways out: the payload is there, the run has been
  resumed by its timeout, or it parks. All of them first make sure that the event has a
  row (`WithEventRow`, the sentinel). A timeout leaves no checkpoint, as in the code.
- `EmitEvent` serves the waits that have not timed out and writes the payload into the
  runs and as checkpoints.
- `MayOverwrite` compares attempts as the code does. At the level of whole transactions
  the comparison never refuses: earlier attempts have failed, and failed runs may not
  write. The interleaving it is there for, and the one it does not see, are in
  `TaskTransactions`.
- The task a worker names in a checkpoint or an await is the task of its run.
- `DeleteOldEvents` treats a sentinel as older than any cutoff, because its
  `emitted_at` is the epoch.

**The environment** is the most general caller. Any function may be called at any time
with any run or task, so that stale workers, crashed workers, repeated and lost calls are
included without a model of a worker; a worker that crashes is one that stops calling.
`claimed_by` is not modelled because no function compares it.

### EventTransactions, TaskTransactions and the code

Both modules assume what PostgreSQL documents of READ COMMITTED, the default isolation
level, which the functions do not change:

- Each statement reads what was committed when it began, and the transaction's own
  writes. In the models a transaction's writes are seen by the others when it commits
  (`Commit`, `End`), and what a statement has read for a later one, or a subquery's result, is kept in the session until the statement
  has used it (`affected`, `todo`, `saw`).
- `for update`, `for share`, `update`, `delete` and `on conflict` wait for a transaction
  that holds the row in a conflicting way. A statement that has waited tests its
  condition again on the new version of the row, but does not run its subqueries again.
  So `LockAffectedRun` looks at the run's state again, because `emit_event` has it in the
  `where` of the update, while `DeleteSelected` and `Delete` delete whatever has the
  selected name or id, because theirs says `in (select ...)`.
- `on conflict do nothing` waits for a transaction that is inserting the key, but locks
  nothing when the row exists. That is why `await_event` has a `for share` after it.
- A transaction ends by committing or rolling back, and gives its locks back. `Abort`
  stands for raised exceptions, lost connections and PostgreSQL's choice of a victim
  in a deadlock.

A function's statements are joined into one action as long as only the rows it has
locked, or will lock without waiting, are read. In `EventTransactions` the parts of
`await_event` follow `AwaitOrder`, the order of its statements. It has one event and no
timeouts. `TaskTransactions` has one task and no clock: claims may expire, retries be
due and tasks be old at any time, and `spawn_task` has happened. `claim_task` takes
single rows and skips locked ones; its sweep is `LockRun` and `Fail`, since `fail_run`
is what it calls. `cancel_task` locks rows in three statements (`CancelScan` with
`CancelLockRun`, `CancelLockTask`, and `CancelLockRun` again for the update of the runs).

### EffectWorker and the code

`sdks/effect/src/Absurd.ts` (`startWorker`, `executeClaimedTask`, `leaseWatchdog`,
`deferUnknownTask`, `completeRun`, `failRun`), `Worker.ts` and `internal/Checkpoint.ts`.

- `exec[p]` is the set of executions that process `p` has forked; `HasRoom` and `Quantity`
  are the loop's condition and its batch; `Close` and `Closed` are `close`, which claims no
  more and waits for the executions.
- An execution is at `unknown` (no handler: `deferUnknownTask` puts the task away), at
  `handler` between two steps, in the `body` of a step, or at `complete` or `fail` with its
  last call ahead. `used` is what the steps have returned to it.
- `dog` is the time until the watchdog, which warns after one claim timeout, ends the
  process after a second one; `heartbeat` and every recorded step begin it anew.
  `WatchdogExits` is `process.exit(1)`: it takes every execution of the process with it,
  also those that are well, and each of them loses an attempt.
- `ClaimLost`, `CompleteStepLost`, `CallLost` and `DeferFails` are calls that fail, or
  whose answers are lost, at each place where the code handles or ignores that.
- `known`, a member of `Versions`, lets a process come back with other handlers.

Assumed: a call takes effect and is answered within one tick, timers fire when they are
due, `fatalOnLeaseTimeout` is on (the default). An answer that is late by more than the 15
seconds for which an unknown task is put away could fail a run that another worker has
claimed since, because the calls are fenced by the run's id and not by the claim; that is
outside this module and inside `AbsurdQueue`, whose callers are arbitrary.

### WorkflowDoorbell and the code

An action is one call of the engine with what follows it up to the next call. `worker[w].at`
is the place in `processClaim` and `parkSuspended`.

- `Script` is the handler as the engine sees it: a sequence of sets of things it waits for
  at once. What a replay asks for it has `got` or finds `missing`; when something is
  missing and no activity is being executed, it suspends.
- `Suspend`, `Exit`, `CheckResumes`, `CheckPasses`, `Park`, `RecheckRings` and
  `RecheckPasses` follow `onExit` and `parkSuspended`: look at the interrupt marker, the
  children and each awaited deferred, park on a fresh doorbell with the earliest clock and
  the poll of children as timeout, and look at what was unresolved once more.
- `EmitDeferred`, `ReadBell` and `RingForDeferred` are the three calls of `deferredDone`,
  which may break off between any two. `Open`, `Commit` and `Rollback` are the transactions
  in which an interrupt, or the end of a child, is written together with its ring.
- `Preempt` is the watch that `waitForActiveWake` keeps beside the handler.
- `Expire` may happen whenever the run is running. It stands for a worker that died and
  for one that stalls, so the heartbeat needs no action.
- `Crash` is a process that dies and comes back, or a call that fails inside `processClaim`,
  whose errors `workerLoop` logs. `PollFails` is a failed `claimTask`, which nothing catches:
  the fiber of the loop is `dead` until its process is started again (`Restart`).
- `call` is history for the properties once a call has returned; `parked` is history.

### StepReplay and the code

`sdks/typescript/src/index.ts`, `TaskContext` and `executeTask`.

- `Script` is a handler: a sequence of steps, waits and sleeps. `CheckpointName` is
  `getCheckpointName`, which numbers the uses of a name. The handler catches a
  `TimeoutError` and goes on. Concurrent branches (`Promise.all`) are not modelled.
- `Claim` joins `claim_task` with `TaskContext.create`, which loads the checkpoints into
  the cache; its failure is `Crash`. `Lookup` is the cache or else the database, and is
  joined with the operation that it begins.
- A call takes effect when it is made; its answer arrives in a step of its own
  (`ReplyArrives`), or never (`Throws`, `Crash`).
- `TimesOut` is the SDK's own test of the claimed run's `wake_event`, which throws without
  a call; the second branch of `AwaitEvent` is what the stored function answers.
- `Complete`, `CompleteUnheard`, `Fail` are the ends of `executeTask`. `Fail` is of the run
  that was claimed, whoever holds it by now, as in the code.
- `seen`, what each position has returned to a handler last, is history.

## 3. Runs

| Run | Instance | Question |
|---|---|---|
| `attempts` | 1 task, 3 runs, time to 4; claims with and without a lease, retries with and without delay, both cancellation rules, one invalid legacy strategy | Do the task row, its runs and their numbering stay right through every mix of failures, expiries, retries, cancellations and cleanup? |
| `claims` | 2 tasks, 3 runs, time to 2; batches of 1 and 2, a shared idempotency key | Is a task ever handed out twice, is a valid lease ever taken, does the queue implement the lifecycle? |
| `events` | 1 task, 2 runs, 1 step, 2 events, 2 payloads, time to 2 | Are wakeups lost, events changed, checkpoints orphaned? |
| `liveness` | 2 tasks, 2 runs, one claimed a poll, time to 2; runs put back for 0 or 1 | Are expired claims and due runs dealt with, each in its turn? |
| `event_race` | 3 runs, 3 awaiting and 2 emitting sessions, 2 payloads, no cleanup | Does the row lock on the event keep every wakeup, and does each call act as one step? |
| `event_cleanup` | 2 runs, 2 awaiting, 1 emitting and 2 cleaning sessions | Can the functions on events deadlock? |
| `task_races` | 3 sessions of any kind, 3 attempts | Do interleaved statements keep the task and its runs right, does each call act as one step, and what do clients and checkpoints see where one does not? |
| `effect_worker` | 1 task of 1 step and 3 attempts; 2 processes, with room for 2 executions and for 1, the second rolled between two versions; lease of 1 tick, batches of 2 | What runs beside its successor, what does a task complete with, does it end once, do closing and tasks end? |
| `workflow` | 1 worker, 2 attempts; an activity, then a deferred beside a clock, then a child | Is a wakeup lost between looking, parking, ringing and looking again; does the execution end? |
| `workflow_signal` | 1 worker, 2 attempts, one deferred | Counterexample: a completion is missed, below |
| `step_replay` | 2 workers, 2 attempts; step, wait, wait, sleep, step, where steps and waits repeat their names | Do replays, stale ones included, return what was recorded; does the task end? |
| `step_timeouts` | 1 worker, 1 attempt, no failures; two waits with timeouts | Counterexample: the second never times out, below |

**Bounds.** The ids in `TaskId` and `RunId` are finite: a spawn or a retry needs an unused
one, and cleanup gives ids back. Three runs give a first, a middle and a last attempt;
two tasks give competition for a claim and batches that hold several tasks; two events
let a run park on one while the other is emitted. `MaxTime` bounds the clock: 2 lets a
claim be taken, expire and be followed by another at a later time; 4 lets a delayed
second attempt run into `max_duration`. Delays are 0 and 1, which is enough for "due
now" and "due later". A run that has used up its ids or its time may have no step left,
so TLC's deadlock check is off; the same holds of a task that has used
up `MaxAttempts` and of an event that every run has received. (`NoDeadlock` is about
sessions that wait for each other and is an invariant.) Two sessions are enough for every
race found; the third lets a claim and a sweep come between two others. Tasks and runs are symmetric in the safety runs; the
liveness run uses no symmetry. In the liveness run only `schedule_run` can go on for ever with two run
ids, so `WakeDelays` has 0: a run that is put back and taken again and again competes with
one that is due, and "newest first" starves the latter. `DueRunsAreTaken` speaks of runs
that were due before now, since at the frozen `MaxTime` all that is due at once is a tie.

In `effect_worker` three attempts are a first that is superseded, its successor and the
successor's successor, and two processes with three places let all of them be at work; one
tick to a lease makes the watchdog's two leases distinct from the claim's one. In
`workflow` five doorbells are enough for one to be on its way from each caller while the
run parks on another. `HandshakeHolds` and the refinement have also been checked once with
two workers, the script of a deferred beside a clock and three doorbells (6.4 million
states), which is too large for a run; the theorems hold for any number. In
`step_replay` two workers give a stale and a current execution, and the handler repeats a
step's name and awaits one event twice.

**Fairness.** `FairSpec` asks for weak fairness of the clock and of polling that finds no
rows locked. The loops of the task workers catch the errors of `claim_task` and poll for as
long as they run (`sdks/effect/src/Absurd.ts` `startWorker`, `sdks/typescript/src/index.ts`
`startWorker`); that of the workflow engine does not (below). Row locks last only as long as a transaction. Nothing is assumed of workers that hold
a claim, of clients or of cleanup. A claim taken with `p_claim_timeout = 0` has no
deadline, and nothing is promised about it.

- `EffectWorker`: strong fairness of each process's claims, because the loop polls for ever
  while room comes and goes; weak fairness of the last call of an execution, of the exit
  that a watchdog has decided, of closing, of the wakeup of a task put away, and of time.
  Nothing is asked of handlers: they may hang for ever, which is what the watchdog is for.
- `WorkflowDoorbell`: strong fairness of claims by a worker with the handler (one without
  it puts the run away for at least 15 seconds, one with it polls every 250 ms), weak
  fairness of what a worker does with its claim, of stored deadlines and, while a loop is
  alive, of the sweep of an expired claim. A loop that has died at a claim makes none, so
  nothing is asked of it, and it need not be started again. No client has to complete, interrupt or resume anything.
- `StepReplay`: weak fairness of claims, of each handler's next step, of stored deadlines
  and of the sweep. Nobody has to emit an event.

### What the violations show

- `workflow_signal`: the handler reads a deferred as missing and suspends. `deferredDone`
  emits the event, finds no doorbell since the run is not parked, and returns.
  `parkSuspended` now reads the deferred as available, passes over it
  (`AbsurdWorkflowEngine.ts:608`, `continue`) and parks, with neither a doorbell on its way
  nor the deferred among those it looks at again. The execution sleeps beside its result
  until something else wakes it. The comment in `parkSuspended` says that the second look
  "closes both sides of the check/register race". `HandshakeHolds`, which `workflow` checks,
  is that claim for the deferreds that `parkSuspended` itself has found missing, and holds.
- `step_timeouts`: a timeout leaves no checkpoint; only `wake_event` of the claimed run says
  that the wait has timed out. After two waits with timeouts, the claim carries the name of
  the second event, so the replay waits for the first anew, whose timeout brings a claim
  with the first name, and so on. The second `TimeoutError` is never thrown.

### Seen in the code while modelling

These were found with TLC or by reading while the modules were written. No run shows them now.

- `docs/concepts.md:228` says of `maxDuration` "cancel the task if it has been alive longer
  than N seconds"; the code measures from `first_started_at`, so a task that has waited
  in the queue past its limit is started. (`docs/concepts.md:229` says of `maxDelay` "if no
  checkpoint has been written for N seconds"; the code applies it only to tasks never
  started. `docs/patterns/deployments.md:48` describes both rules as the code has them.)
- `await_event` finds a sentinel row (`on conflict do nothing`), `cleanup_events` deletes
  it, since a sentinel is older than any cutoff, and `for share` locks nothing. An emission
  inserts the row without waiting and sees no waits; the run, which has read no payload,
  parks on an event that has been emitted. Without a cleanup session, as in `event_race`,
  this cannot happen.
- `workerLoop` of the Effect engine calls `claimTask` under `Effect.orDie`, outside the
  `catchCause` that logs what a claim does wrong, in a fiber that nobody watches
  (`AbsurdWorkflowEngine.ts:793-815`, `1182`). One poll that fails, because the connection
  was lost say, ends that loop for good, and when all loops of a queue have ended so, its
  executions stay where they are until the process is started again. The loops of the two
  task workers log such an error and poll again. `Finishes` and `InterruptEnds` except the
  case (`AllLoopsDead`).
- The subquery of `cleanup_tasks` selects a failed task, `retry_task` makes it pending and
  commits, and the delete, which waited for the row, deletes it by its id; the new run stays. `task_races` shows that
  this is the only way in which a task leaves `TaskLifecycle` (`RevivedTaskIsDeleted`).
- `set_task_checkpoint_state` compares attempts without a lock, so a checkpoint of the next
  attempt that comes in between is replaced by the stale one; `task_races` shows that this
  takes a call that does not hold its run (`CheckpointsAreKept`). In the same way a call
  that began before `cleanup_tasks` may leave a checkpoint without a task.
- `cancel_task` locks a run made by `fail_run` after its first statement only after the
  task, while `complete_run` holds that run and waits for the task. PostgreSQL ends one of
  the two; nothing is lost, and `task_races` shows that the new run is cancelled if the
  cancellation goes through.
- The interrupt marker and its ring are one transaction that reads the doorbell before it
  commits. A run that parks and looks again in between is not woken by the interrupt
  (`InterruptEnds` speaks only of runs that are awake), unlike what `docs/sdks/effect.md:511`
  and the comment at `AbsurdWorkflowEngine.ts:905` say. The end of a child has the same gap,
  which the parent's poll of children closes.
- `awaitedChildren` keeps children whose result the handler has read, so a parent that
  waits for something else afterwards is run again at once, again and again.
- A worker that dies between parking and looking again, or a caller that dies between its
  event and its ring, leaves the execution asleep until `resume` (`RecheckLost`; the caller
  may repeat its call). Deferreds awaited inside the body of an activity are neither
  looked at again nor preempting.
- The second await of an event that has timed out in the same execution returns `null`
  (`AwaitEvent` in `StepReplay`), as `sdks/typescript/test/events.test.ts:212` has it.

## 4. Proofs

### AbsurdQueue

The theorems hold for every value of the constants that satisfies the assumptions of
`AbsurdQueue` (`NullAssumption`, `OptionAssumption`, `ArgumentAssumption`): the
markers for NULL and infinity are no ids, numbers or checkpoint rows, options have their
types, and the arguments are naturals in the ranges the functions accept.

The state invariants are not inductive one by one: that a retry creates the only live run
needs the task row to agree with its last run, which needs the numbering of attempts,
which needs to know that earlier attempts have failed. `IInv` is

    TypeOK  /\  Consistent(task, run)  /\  EventsCarryPayload

where `Consistent` collects, as operators of the two tables, that rows refer to each
other, that options are kept, that the last run mirrors the task, that attempts differ and
are within the limit. Stating it over arguments lets `claim_task` be proved through
its stages: `CancelConsistent`, `FailConsistent` and `ClaimConsistent` show that each
stage maps consistent tables to consistent tables, and `ClaimStages` chains them.
The same lemmas serve `cancel_task` and `fail_run`. `EventsCarryPayload` is needed for the
type of checkpoints.

| Theorem | Says |
|---|---|
| `TypeCorrect` | `Spec => []TypeOK` |
| `TaskHasOneLiveRun` | `Spec => []OneLiveRun` |
| `TaskMirrorsLastRun` | `Spec => []LastRunMirrorsTask` |
| `AttemptsAreOrdered` | `Spec => []AttemptHistory` |
| `LimitIsRespected` | `Spec => []AttemptsWithinLimit` |
| `FinishedRunsStayFinal` | `Spec => FinishedRunsAreFinal` |
| `QueueImplementsLifecycle` | `Spec => ImplementsLifecycle` |
| `WaitsBelongToParkedRuns` | `Spec => []WaitsAreOfParkedRuns` |
| `NoWakeupIsLost` | `Spec => []NoLostWakeup` |
| `EmissionsServeEveryWait` | `Spec => []EmittedEventHasNoLiveWait` |
| `FirstEmissionStays` | `Spec => FirstEmissionWins` |
| `ClaimsAreKept` | `Spec => ClaimsAreHonoured` |
| `AttemptsStartInTime` | `Spec => RunsStartInTime` |
| `CheckpointsBelong` | `Spec => []CheckpointsHaveOwners` |
| `EndedTasksAreDated` | `Spec => []TerminalTasksAreDated` |

The last eight are in `AbsurdQueueEventProofs`.

- The three invariants about waits are inductive only together (`WaitInv`) and with
  `IInv`: that an emission reaches every sleeper needs each sleeper to have its wait, and
  that no wait outlives its run needs the waits to be of the runs' present parking.
- The hard action is one poll, which may cancel, sweep and claim any number of runs.
  `ClaimEffects` says what it does to each one: it is cancelled, or swept and failed, or
  taken, or made as a successor (and perhaps taken at once), or left as it was.
  `ClaimsAreHonoured` and `RunsStartInTime` are read off that list.
- `CheckpointMoves` says which calls may write a checkpoint and for whom (`Rewrites`);
  that checkpoints have owners follows.
- `DatedInv` says of each ended run and each cancelled task that it is dated, which is
  where `TerminalAt` finds the end of a task.

### EventTransactions

Three results, for any number of runs, sessions and payloads, from `SessionAssumption`.

`SessionsNeverDeadlock`: `Spec => []NoDeadlock`, with cleaners. `LockInv` says who can hold
what: the writer of the event row is past its insert or is an emission (`WriterIsBusy`), who
shares it is past its `for share` (`SharersAreBusy`), and a run is held by an await that
has locked it or by an emission that wakes (`RunHoldersAreBusy`), which is then the writer
of the event (`EmittersWrite`). So each session waits for sessions that are further on in
the order

    delete, insert, share, lock, wake, then settle, read, scan and idle

and the last of these wait for nobody. In any set of sessions one is furthest, and waits for
none of the set. That argument needs that every await follows `AwaitOrder`; the mutant that
locks the run first breaks it.

`NoWakeupIsLost`: if `Cleaner = {}` then `Spec => []NoLostWakeup`. With cleaners the formula
is false; section 3 tells how. That no run waits for an emitted event is not inductive: one
has to know that a worker that is about to park holds the row, so that what it read is still
so. The invariant `Protocol` says who may be doing what:

- a worker that has passed `for share` holds the event row or has inserted it
  (`AwaitersHoldEvent`, `SharersAreAtWork`), so what it has read is current when it parks
  (`ReadIsCurrent`);
- the writer of the row is one awaiting session that inserts the sentinel or one emitting
  session, and then nobody shares the row (`WriterIsAtWork`, `EmittersWrite`);
- an emission that has looked for waits knows all of them (`EmitterKnowsWaits`), and
  what it did not lock did not sleep, so did not wait (`WaitersSleep`).

`AwaitAndEmitAreAtomic`: if `Cleaner = {}` then `Spec => FunctionsAreAtomic`. `AtomicInv`
adds to `Protocol` what one needs to read a commit as a single call: a sleeping run
waits (`SleepersWait`), so that those an emission has locked are all that sleep
(`EmittersHoldSleepers`); what a session has read, and what a checkpoint holds, is the
payload of the event (`SeenIsPayload`, `CheckpointIsPayload`). `Resolve` and `Park` are then
`Await` of `AtomicEvent`, `WakeRuns` is `Emit`, and every other action but `Claim` changes
nothing that it speaks of.

### TaskTransactions

`NeverTwoLiveRuns`, `TaskAlwaysMirrorsLastRun`, `FinishedRunsStay`, `CheckpointsStay` and
`TypeCorrect` hold
for any number of attempts and sessions. The invariant `Inv` is
that whoever completes, fails or suspends a run holds it in the state it saw
(`HoldersKnowTheRun`), that only live runs are locked, that earlier runs have failed, that
the task agrees with its last run, and that a cancellation that holds the task has every
live run locked or on its list (`CancellerKnowsRuns`): no run is made without the task.
One lemma per action shows that it is kept; what an action does not concern is dealt with
in `OthersKnowTheRun` and `OthersKnowLiveRuns`. The theorems say that a cancellation may
come between any two statements of the others.

`FunctionsActAsOne` is the refinement of `AtomicTask`. The actions that commit map to its
actions: for `Complete`, `Suspend`, `Fail` and `Cancel` that is `Inv` once more, since what
the session knows of the rows is what they are when it commits. A cleanup holds nothing, so
`AtomicInv` says what is left of what it saw: a task that is there has all its runs
(`RunsHaveNoGaps`), so the runs chosen are the first ones (`CleanersKnowFirstRuns`), and
they have ended for good, because whatever makes a run makes a later one
(`ChosenRunsHaveEnded`, `FirstRunsStayEnded`). `OnlyCleanupBreaksLifecycle` follows: a step
of `AtomicTask` is one of `TaskLifecycle` or deletes a live task, and since its live run
cannot be among those chosen, that run stays.

`CheckpointsStay` is `CheckpointsAreKept`. `KeptInv` adds to `AtomicInv` that neither the
owner of the checkpoint nor a call that is about to write one is ahead of a live run or of
the task's last run (`NotAhead`, which no step undoes because runs only go forward), and that
such a call locks no run but its own and has seen no later owner. So when an attempt takes
the checkpoint from a later one, its run is not live, the call holds no run, and what it saw
is earlier than what it replaces.

### EffectWorker

`AtMostTwoHandlers`, `ResultsRestOnSteps`, `EachRunIsExecutedOnce`,
`ExecutionsKeepLifecycle` and `TypeCorrect`, from `WorkerAssumption`, for any lease and any
number of tasks, processes, steps and attempts. The invariant `Inv` says:

- no execution is of an attempt that does not exist yet (`NoneIsAhead`), a run is executed
  once, by one process (`OneOfEach`), and a run that waits or has completed is not
  executed (`OnlyClaimed`);
- the watchdog of an execution has at most one lease more to go than its claim. So it has
  at most one lease left when the claim has expired, and always less than the claim
  of its successor (`DogsOK`): the first is gone before a third can begin
  (`OneSuperseded`), and three handlers cannot be at work (`TwoOfThree`);
- what an execution has used for a step is the recorded checkpoint of that step, as long
  as it can still complete (`AllUsedOK`).

`ExecutionsKeepLifecycle` needs the types only: each action is shown to move a row in one of
three ways (`RowMoves`), of which none takes up a task that has ended. What makes that so
is the test of attempt and state in every call, `Owns` and `Refused`; the mutant that
completes a run without it breaks the property.

### WorkflowDoorbell

`NoMissedCompletion`, `ExecutionImplementsLifecycle` and `TypeCorrect`, from
`WorkflowAssumption`, for any script and any number of workers, deferreds, clocks,
children and doorbells. `HandInv` adds to the type invariant what makes the handshake
inductive:

- a deferred whose caller has begun has been emitted (`EmittedFirst`);
- a worker that is to look again has a doorbell of its own, and if the run is parked on
  that doorbell it has not looked yet (`RecheckersOK`);
- when a caller has gone past the doorbell of a parked run, the worker that parked it is
  still to look at the caller's deferred, or has died (`CallersAreSeen`).

An action either leaves the parking alone (`Quiet...`), ends it (`Unparked`), or is one
of the few that must be looked at: parking, looking again, and the caller's three steps.
The refinement needs only the types and says of each action that it moves the state of
the run as a client may see it (`Moves`).

### StepReplay

`StepsReturnTheirOwn`, `StepsReturnTheSame`, `ReplayImplementsLifecycle` and `TypeCorrect`,
from `ReplayAssumption`, for any handler and any number of workers. The first rests on
`NamesDiffer`: two positions of a handler never get one checkpoint name, because the uses
of a name up to a position are a growing set (`EarlierUsesAreFewer`). With it, rows, caches
and answers on their way keep values of their own position (`Inv`).

`StepsReturnTheSame` is about executions of one task that overlap, so it has to say what
each of them knows (`Standing`): only one is at work for the present attempt, and while it
is in the body of a step nobody can have recorded the step; an answer on its way is what is
recorded; a cache, from the current position on, has nothing or what is recorded. All
that the executions of earlier attempts know stays true because a checkpoint is never
replaced (`Grows`). So `OthersStand` deals with every execution but the one that acts.

### What is not proved

Every safety property that a passing run checks is stated by a theorem. Only model-checked
are:

- liveness, which is out of the prover's reach: `ExpiredClaimsAreReclaimed`,
  `DueRunsAreTaken`, `CloseEnds`, `TasksEnd`, `InterruptEnds`, and `Finishes` of
  `WorkflowDoorbell` and of `StepReplay`;
- the two properties that the code violates, `NoLostSignal` and `TimeoutsAreThrown`.

Conversely, `FinishedRunsAreFinal` of `TaskTransactions`, which follows from
`FunctionsAreAtomic`, and the `TypeOK` of `EffectWorker`, `EventTransactions` and
`TaskTransactions` are proved and in no run.

What a recursive definition computes for every input could not be proved either, but the
modules have none.

## 5. Not modelled

Most of the TypeScript in the repository is the source of the Effect library, kept under
`.context/effect` for reference, with its generated API clients. It is neither built nor
run by Absurd and is not modelled. Absurd's own core is `sql/absurd.sql` and the workers'
files in `sdks/`; the definitions of this project are mapped to those.

- Partitioned storage and its cron jobs, queue management, migrations.
- Values and formats: params, headers, results, failure reasons, names.
- The delay arithmetic of `retry_delay_seconds` (floating point and intervals).
- `absurdctl` and `habitat`. They call the stored functions, so are among the arbitrary
  callers of `AbsurdQueue`. The Python SDK has the protocol of the TypeScript SDK.
- Below the transaction: `spawn_task`, `extend_claim`'s clock, timeouts of awaits,
  `emit_event` and `await_event` together on one task and one event, and several tasks or events in one statement.
- That `cleanup_events` can delete an event that was emitted while it waited for the row
  (the delete tests only the name again). The steps are in `EventTransactions`; no
  property speaks of it.
- `claim_task` with `p_qty` below 1 (treated as 1) and expired runs of foreign queues.
- A claim with `p_claim_timeout = 0` has no deadline and is never swept. `AbsurdQueue` has
  such claims, and nothing is promised about them.
- Effect worker: an answer later than the 15 seconds for which an unknown task is put away;
  `fatalOnLeaseTimeout` off.
- Effect workflow engine: a task without an execution id, which fails at once
  (`failMissingExecutionId`), and compensation.
- TypeScript SDK: `Promise.all` of operations of one handler, `awaitTaskResult` (a poll
  inside a step) and `heartbeat` (`extend_claim`).

## 6. Plan

What would be next, in order:

1. `PartitionDetach`: the partitions of a queue, the detach planner that looks for
   empty ones, the cron job that detaches and drops them later, and inserts in between;
   `ensure_partitions` keeping ahead of the clock; a policy change of `default_partition`.
   Properties: no row is lost with a partition, every insert finds one, an empty old
   partition is dropped in the end.
2. `TaskTransactions` with `spawn_task`'s idempotency key against cleanup, and with the
   clock of `extend_claim`; `EventTransactions` with timeouts and a second event.
3. `RetryDelay` as a numeric operator against a reference definition over bounded inputs.
4. A standing run of `WorkflowDoorbell` with two workers.
5. A proof that each task of `AbsurdQueue`, with its runs by attempt, moves by steps of
   `AtomicTask` (one poll may make several: a sweep, a new attempt, its claim), so that
   the two views of a task meet in one specification.

---------------------------- MODULE EffectWorker ----------------------------
(***************************************************************************)
(* The workers of the Effect SDK (sdks/effect/src/Absurd.ts, Worker.ts,    *)
(* internal/Checkpoint.ts) serving one queue from several processes.       *)
(*                                                                         *)
(*     run         the last run of each task: its state and attempt, and   *)
(*                 lease, the time until its claim expires                 *)
(*     checkpoint  the attempt that recorded each step of a task, or 0     *)
(*     result      the steps as the attempt that completed has seen them   *)
(*     mode        whether a process claims tasks                          *)
(*     exec        the executions in the FiberSet of each process:         *)
(*                 where one is (at), the steps it has seen (used), and    *)
(*                 dog, the time until its watchdog ends the process       *)
(*                                                                         *)
(* Time is counted in ticks, Lease of them to a claim.  A call to the      *)
(* database takes effect and is answered, or is found to have failed, at   *)
(* one moment of it, and timers fire when they are due; handlers take as   *)
(* long as they like.  fatalOnLeaseTimeout is on, its default.             *)
(***************************************************************************)
EXTENDS Naturals, Sequences, FiniteSets

CONSTANTS
  Task, Process,
  Versions,       \* of a process: each the set of tasks it has handlers of
  Steps,          \* how many steps a handler has
  Concurrency,    \* how many executions a process may have
  Lease, BatchSize, MaxAttempts

ASSUME WorkerAssumption ==
  /\ Versions \in [Process -> SUBSET SUBSET Task]
  /\ Steps \in Nat
  /\ Concurrency \in [Process -> Nat \ {0}]
  /\ {Lease, BatchSize, MaxAttempts} \subseteq Nat \ {0}

VARIABLES run, checkpoint, result, mode, exec

vars == <<run, checkpoint, result, mode, exec>>

Attempt == 1 .. MaxAttempts

Recorded == [1 .. Steps -> 0 .. MaxAttempts]

RunRow ==
  [state : {"pending", "running", "sleeping", "completed", "failed", "cancelled"},
   attempt : Attempt, lease : 0 .. Lease]

Execution ==
  [task : Task, attempt : Attempt,
   at : {"unknown", "handler", "body", "complete", "fail"},
   used : UNION {[1 .. n -> Attempt] : n \in 0 .. Steps},
   dog : 0 .. 2 * Lease]

Init ==
  /\ run = [t \in Task |-> [state |-> "pending", attempt |-> 1, lease |-> 0]]
  /\ checkpoint = [t \in Task |-> [s \in 1 .. Steps |-> 0]]
  /\ result = [t \in Task |-> <<>>]
  /\ mode = [p \in Process |-> "serving"]
  /\ exec = [p \in Process |-> {}]

-----------------------------------------------------------------------------
(* The queue, as far as the workers use it.                                *)

Live(t) == run[t].state \in {"pending", "running", "sleeping"}

\* fail_run: the next attempt at once, or none.
Failed(row) ==
  IF row.attempt < MaxAttempts
  THEN [state |-> "pending", attempt |-> row.attempt + 1, lease |-> 0]
  ELSE [row EXCEPT !.state = "failed", !.lease = 0]

\* Calls on behalf of an attempt that is over are refused.
Refused(e) ==
  \/ run[e.task].attempt # e.attempt
  \/ run[e.task].state \in {"failed", "cancelled"}

Owns(e) == run[e.task].state = "running" /\ run[e.task].attempt = e.attempt

\* fail_run fails a sleeping run, too.
AfterFail(e) ==
  IF ~Refused(e) /\ run[e.task].state \in {"running", "sleeping"}
  THEN [run EXCEPT ![e.task] = Failed(@)] ELSE run

Expired == {t \in Task : run[t].state = "running" /\ run[t].lease = 0}

AtMost(n, S) ==
  {T \in SUBSET S : Cardinality(T) = n \/ (Cardinality(T) < n /\ T = S)}

\* claim_task fails up to n expired runs, and takes up to n that are due.
AfterSweep(swept) ==
  [t \in Task |-> IF t \in swept THEN Failed(run[t]) ELSE run[t]]

ClaimTasks(n, taken) ==
  \E swept \in AtMost(n, Expired) :
    LET rows == AfterSweep(swept)
    IN /\ taken \in AtMost(n, {t \in Task : rows[t].state = "pending"})
       /\ run' = [t \in Task |->
                    IF t \in taken
                    THEN [rows[t] EXCEPT !.state = "running", !.lease = Lease]
                    ELSE rows[t]]

-----------------------------------------------------------------------------
(* The loop of a worker (startWorker).                                     *)

\* Mutant: the watchdog gives a handler three leases.
PatienceLonger == 3 * Lease

\* The watchdog warns after one lease and ends the process after another.
Patience == 2 * Lease

Started(t, known) ==
  [task |-> t, attempt |-> run'[t].attempt,
   at |-> IF t \in known THEN "handler" ELSE "unknown",
   used |-> <<>>, dog |-> Patience]

Quantity(p) ==
  LET room == Concurrency[p] - Cardinality(exec[p])
  IN IF BatchSize < room THEN BatchSize ELSE room

\* Mutant: tasks are claimed only if more than a batch has room.
HasRoomForBatch(p) ==
  mode[p] = "serving" /\ Cardinality(exec[p]) + BatchSize < Concurrency[p]

HasRoom(p) == mode[p] = "serving" /\ Cardinality(exec[p]) < Concurrency[p]

\* A process may have been restarted with another version meanwhile.
Claim(p) ==
  /\ HasRoom(p)
  /\ \E taken \in SUBSET Task, known \in Versions[p] :
       /\ ClaimTasks(Quantity(p), taken)
       /\ exec' = [exec EXCEPT ![p] = @ \union {Started(t, known) : t \in taken}]
  /\ UNCHANGED <<checkpoint, result, mode>>

\* The answer is lost: the tasks are claimed and nobody executes them.
ClaimLost(p) ==
  /\ HasRoom(p)
  /\ \E taken \in (SUBSET Task) \ {{}} : ClaimTasks(Quantity(p), taken)
  /\ UNCHANGED <<checkpoint, result, mode, exec>>

\* close: no more claims; the executions of the process go on.
Close(p) ==
  /\ mode[p] = "serving"
  /\ mode' = [mode EXCEPT ![p] = "closing"]
  /\ UNCHANGED <<run, checkpoint, result, exec>>

Closed(p) ==
  /\ mode[p] = "closing" /\ exec[p] = {}
  /\ mode' = [mode EXCEPT ![p] = "closed"]
  /\ UNCHANGED <<run, checkpoint, result, exec>>

-----------------------------------------------------------------------------
(* An execution (executeClaimedTask).                                      *)

Drop(p, e) == exec' = [exec EXCEPT ![p] = @ \ {e}]
Go(p, e, f) == exec' = [exec EXCEPT ![p] = (@ \ {e}) \union {f}]

\* deferUnknownTask.  If scheduling fails, or only its answer is lost, the
\* run is failed.
DeferUnknown(p, e) ==
  /\ e.at = "unknown"
  /\ run' = IF Owns(e)
            THEN [run EXCEPT ![e.task].state = "sleeping", ![e.task].lease = 0]
            ELSE run
  /\ Drop(p, e)
  /\ UNCHANGED <<checkpoint, result, mode>>

DeferFails(p, e) ==
  /\ e.at = "unknown"
  /\ run' = AfterFail(e)
  /\ Drop(p, e)
  /\ UNCHANGED <<checkpoint, result, mode>>

NextStep(e) == Len(e.used) + 1

\* beginStep: a recorded step is replayed, another one is executed.
BeginStep(p, e) ==
  /\ e.at = "handler" /\ NextStep(e) <= Steps
  /\ LET by == checkpoint[e.task][NextStep(e)]
     IN Go(p, e, IF by = 0 THEN [e EXCEPT !.at = "body"]
                 ELSE [e EXCEPT !.used = Append(@, by)])
  /\ UNCHANGED <<run, checkpoint, result, mode>>

\* set_task_checkpoint_state, which extends the claim as well.
Record(e) ==
  /\ checkpoint' = [checkpoint EXCEPT ![e.task][NextStep(e)] = e.attempt]
  /\ run' = IF Owns(e) THEN [run EXCEPT ![e.task].lease = Lease] ELSE run
  /\ UNCHANGED <<result, mode>>

\* Mutant: nothing is refused.
CompleteStepUnfenced(p, e) ==
  /\ e.at = "body"
  /\ Record(e)
  /\ Go(p, e, [e EXCEPT !.at = "handler", !.dog = Patience,
                        !.used = Append(@, e.attempt)])

\* completeStep: the step is recorded, the claim extended, and then the
\* watchdog's time begins again.
CompleteStep(p, e) ==
  /\ e.at = "body" /\ ~Refused(e)
  /\ Record(e)
  /\ Go(p, e, [e EXCEPT !.at = "handler", !.dog = Patience,
                        !.used = Append(@, e.attempt)])

\* The step is recorded and the answer lost: an error for the handler.
CompleteStepLost(p, e) ==
  /\ e.at = "body" /\ ~Refused(e)
  /\ Record(e)
  /\ Go(p, e, [e EXCEPT !.at = "fail"])

\* The handler fails, by itself or because a call was refused or failed.
HandlerFails(p, e) ==
  /\ e.at \in {"handler", "body"}
  /\ Go(p, e, [e EXCEPT !.at = "fail"])
  /\ UNCHANGED <<run, checkpoint, result, mode>>

HandlerReturns(p, e) ==
  /\ e.at = "handler" /\ NextStep(e) > Steps
  /\ Go(p, e, [e EXCEPT !.at = "complete"])
  /\ UNCHANGED <<run, checkpoint, result, mode>>

\* Mutant: whatever has become of the run, it is completed.
CompleteRunUnfenced(p, e) ==
  /\ e.at = "complete"
  /\ run' = [run EXCEPT ![e.task].state = "completed", ![e.task].lease = 0]
  /\ result' = [result EXCEPT ![e.task] = e.used]
  /\ Drop(p, e)
  /\ UNCHANGED <<checkpoint, mode>>

\* completeRun: a refusal is ignored, and any other error logged.
CompleteRun(p, e) ==
  /\ e.at = "complete"
  /\ IF Owns(e)
     THEN /\ run' = [run EXCEPT ![e.task].state = "completed",
                                ![e.task].lease = 0]
          /\ result' = [result EXCEPT ![e.task] = e.used]
     ELSE UNCHANGED <<run, result>>
  /\ Drop(p, e)
  /\ UNCHANGED <<checkpoint, mode>>

FailRun(p, e) ==
  /\ e.at = "fail"
  /\ run' = AfterFail(e)
  /\ Drop(p, e)
  /\ UNCHANGED <<checkpoint, result, mode>>

\* The call does not reach the database: the run stays claimed.
CallLost(p, e) ==
  /\ e.at \in {"complete", "fail"}
  /\ Drop(p, e)
  /\ UNCHANGED <<run, checkpoint, result, mode>>

-----------------------------------------------------------------------------
(* Time, and the end of processes.                                         *)

\* The watchdog watches the handler, not the call that follows it.
Executing(e) == e.at \in {"handler", "body"}

Barks(e) == Executing(e) /\ e.dog = 0

\* A process that ends is started again, unless it was being closed.
Ends(p) ==
  /\ exec' = [exec EXCEPT ![p] = {}]
  /\ mode' = [mode EXCEPT ![p] = IF @ = "closing" THEN "closed" ELSE @]
  /\ UNCHANGED <<run, checkpoint, result>>

\* Mutant: the watchdog warns only.
WatchdogExitsNever(p) == FALSE

\* process.exit(1)
WatchdogExits(p) == (\E e \in exec[p] : Barks(e)) /\ Ends(p)

Crash(p) == exec[p] # {} /\ Ends(p)

Less(n) == IF n = 0 THEN 0 ELSE n - 1

Tick ==
  /\ \A p \in Process : \A e \in exec[p] : ~Barks(e)
  /\ run' = [t \in Task |-> [run[t] EXCEPT !.lease = Less(@)]]
  /\ exec' = [p \in Process |-> {[e EXCEPT !.dog = Less(@)] : e \in exec[p]}]
  /\ UNCHANGED <<checkpoint, result, mode>>

\* The time comes for which an unknown task was put away.
Wake(t) ==
  /\ run[t].state = "sleeping"
  /\ run' = [run EXCEPT ![t].state = "pending"]
  /\ UNCHANGED <<checkpoint, result, mode, exec>>

\* cancel_task, by anybody.
Cancel(t) ==
  /\ Live(t)
  /\ run' = [run EXCEPT ![t].state = "cancelled", ![t].lease = 0]
  /\ UNCHANGED <<checkpoint, result, mode, exec>>

-----------------------------------------------------------------------------

Handler(p, e) ==
  BeginStep(p, e) \/ CompleteStep(p, e) \/ CompleteStepLost(p, e)
  \/ HandlerFails(p, e) \/ HandlerReturns(p, e)

Finish(p, e) ==
  \/ CompleteRun(p, e) \/ FailRun(p, e) \/ CallLost(p, e)
  \/ DeferUnknown(p, e) \/ DeferFails(p, e)

Next ==
  \/ \E p \in Process :
       \/ Claim(p) \/ ClaimLost(p) \/ Close(p) \/ Closed(p)
       \/ WatchdogExits(p) \/ Crash(p)
       \/ \E e \in exec[p] : Handler(p, e) \/ Finish(p, e)
  \/ \E t \in Task : Wake(t) \/ Cancel(t)
  \/ Tick

Spec == Init /\ [][Next]_vars

\* Workers poll, their calls return, timers fire and time passes.  Nothing
\* is asked of handlers: they may never return.
Fairness ==
  /\ \A p \in Process :
       /\ SF_vars(Claim(p))
       /\ WF_vars(\E e \in exec[p] : Finish(p, e))
       /\ WF_vars(WatchdogExits(p))
       /\ WF_vars(Closed(p))
  /\ \A t \in Task : WF_vars(Wake(t))
  /\ WF_vars(Tick)

FairSpec == Spec /\ Fairness

-----------------------------------------------------------------------------
(* Properties.                                                             *)

\* Rows, processes and executions have their types.
TypeOK ==
  /\ run \in [Task -> RunRow]
  /\ checkpoint \in [Task -> Recorded]
  /\ result \in [Task -> UNION {[1 .. n -> Attempt] : n \in 0 .. Steps}]
  /\ mode \in [Process -> {"serving", "closing", "closed"}]
  /\ exec \in [Process -> SUBSET Execution]

\* The handlers at work on a task.  One whose watchdog is due is about to
\* go with its process.
AtWork(t) ==
  UNION {{<<p, e.attempt>> : e \in {f \in exec[p] : /\ f.task = t
                                                    /\ Executing(f)
                                                    /\ f.dog > 0}}
           : p \in Process}

\* A claim expires after one lease and the watchdog ends its process after
\* two, so a handler that was superseded works beside its successor only,
\* never beside the successor's successor.
TwoHandlersAtMost == \A t \in Task : Cardinality(AtWork(t)) <= 2

\* A task completes with the values of its recorded steps: an attempt that
\* was superseded while it executed a step neither replaces the value that
\* its successor has used nor completes with a value of its own.  The one
\* exception in the code is outside this module, where Record is one step with
\* its refusal: a run that fails while set_task_checkpoint_state is at work may
\* still replace the checkpoint (CheckpointsAreKept of TaskTransactions).
ResultRestsOnSteps ==
  \A t \in Task : run[t].state = "completed" =>
    /\ Len(result[t]) = Steps
    /\ \A s \in 1 .. Steps : result[t][s] = checkpoint[t][s]

\* To its clients a task that was spawned is one that TaskLifecycle
\* describes: executions that are late, repeated or not answered neither end
\* it twice nor take up what has ended.
Lifecycle == INSTANCE TaskLifecycle WITH
  TaskId <- Task,
  status <- [t \in Task |-> IF Live(t) THEN "live" ELSE run[t].state],
  attempts <- [t \in Task |-> run[t].attempt]

KeepsLifecycle == [][Lifecycle!Next]_run

\* Closing a worker ends: the executions that it waits for return, or their
\* watchdogs end the process.
CloseEnds == \A p \in Process : mode[p] = "closing" ~> mode[p] = "closed"

\* A task is not orphaned by handlers that hang, processes that die or
\* answers that are lost: it ends, unless no process serves any longer
\* that has its handler in every version.
Serves(p, t) == mode[p] = "serving" /\ \A known \in Versions[p] : t \in known

TasksEnd == \A t \in Task : Live(t) ~> ~Live(t) \/ \A p \in Process : ~Serves(p, t)
=============================================================================

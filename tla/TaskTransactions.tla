------------------------- MODULE TaskTransactions -------------------------
(***************************************************************************)
(* The functions of sql/absurd.sql that change the state of one task, as   *)
(* transactions under READ COMMITTED that run at the same time.            *)
(* AbsurdQueue takes each of them for one step; here an action is what a   *)
(* function does between two points at which it reads committed rows or    *)
(* waits for a row lock.  The rows a transaction writes are locked by it,  *)
(* so all its writes are made by the action that commits.                  *)
(*                                                                         *)
(*     task       the committed state of the task, "deleted" in the end    *)
(*     lastRun    t.last_attempt_run, which is also t.attempts             *)
(*     run        the committed states of its runs, by attempt             *)
(*     owner      the attempt whose run owns the checkpoint of one step,   *)
(*                0 for no checkpoint                                      *)
(*     taskLock, runLock   who holds the rows FOR UPDATE                   *)
(*     session    where each session is in its transaction                 *)
(*                                                                         *)
(* Clocks are left out: a claim may expire, a retry be due and a task be   *)
(* old enough for cleanup at any time.                                     *)
(***************************************************************************)
EXTENDS Naturals, FiniteSetsExt

CONSTANTS MaxAttempts, Session, Null

ASSUME TransactionAssumption == MaxAttempts \in Nat \ {0} /\ Null \notin Session

VARIABLES task, lastRun, run, owner, taskLock, runLock, session

rows == <<task, lastRun, run, owner>>
locks == <<taskLock, runLock>>
vars == <<task, lastRun, run, owner, taskLock, runLock, session>>

Run == 1 .. MaxAttempts

LiveState == {"pending", "running", "sleeping"}
TerminalState == {"completed", "failed", "cancelled"}

LiveRuns == {r \in Run : run[r] \in LiveState}

Point ==
  {"idle", "complete", "fail", "suspend", "wake",   \* holding the run
   "cancel runs", "cancel task",                 \* before and after the task
   "extend", "read owner", "write checkpoint",
   "delete"}

\* todo: the rows of its snapshot that the transaction has yet to lock;
\* saw: the attempt that it has read as the owner of the checkpoint.
SessionRow ==
  [at : Point, run : Run \union {Null}, todo : SUBSET Run, saw : 0 .. MaxAttempts]

Idle == [at |-> "idle", run |-> Null, todo |-> {}, saw |-> 0]

At(s, point) == session[s].at = point

Goto(s, point) == session' = [session EXCEPT ![s] = [@ EXCEPT !.at = point]]

Held(s) == {r \in Run : runLock[r] = s}

\* Commit and rollback: all locks are given back.
End(s) ==
  /\ taskLock' = IF taskLock = s THEN Null ELSE taskLock
  /\ runLock' = [r \in Run |-> IF runLock[r] = s THEN Null ELSE runLock[r]]
  /\ session' = [session EXCEPT ![s] = Idle]

\* The call raised, or its connection was lost.
Abort(s) == session[s].at # "idle" /\ End(s) /\ UNCHANGED rows

-----------------------------------------------------------------------------
(* complete_run, fail_run, the functions that suspend a run (schedule_run  *)
(* and await_event), and emit_event for a run that it wakes: lock the run, *)
(* look at its state, lock the task, write both.  fail_run is called by    *)
(* workers and by claim_task for expired claims.  Whether a sleeping run   *)
(* waits for an event is left to EventTransactions.                        *)

Requires(point) ==
  CASE point = "fail" -> {"running", "sleeping"}
    [] point = "wake" -> {"sleeping"}
    [] OTHER          -> {"running"}

\* Mutant: the run is read without "for update".
ReadRun(s, r, point) ==
  /\ At(s, "idle")
  /\ runLock[r] = Null
  /\ run[r] \in Requires(point)
  /\ session' = [session EXCEPT ![s] = [Idle EXCEPT !.at = point, !.run = r]]
  /\ UNCHANGED <<rows, locks>>

LockRun(s, r, point) ==
  /\ At(s, "idle")
  /\ runLock[r] = Null
  /\ run[r] \in Requires(point)
  /\ runLock' = [runLock EXCEPT ![r] = s]
  /\ session' = [session EXCEPT ![s] = [Idle EXCEPT !.at = point, !.run = r]]
  /\ UNCHANGED <<rows, taskLock>>

\* The task's row is locked last, if cleanup has not deleted it.
TaskBecomes(state, r) ==
  IF task = "deleted" THEN UNCHANGED <<task, lastRun>>
  ELSE task' = state /\ lastRun' = r

\* To suspend a run, or to wake it, does not make it the last one.
TaskMoves(state) == TaskBecomes(state, lastRun)

Complete(s) ==
  LET r == session[s].run
  IN  /\ At(s, "complete") /\ taskLock = Null
      /\ run' = [run EXCEPT ![r] = "completed"]
      /\ TaskBecomes("completed", r)
      /\ End(s)
      /\ UNCHANGED owner

Suspend(s) ==
  LET r == session[s].run
  IN  /\ At(s, "suspend") /\ taskLock = Null
      /\ run' = [run EXCEPT ![r] = "sleeping"]
      /\ TaskMoves("sleeping")
      /\ End(s)
      /\ UNCHANGED owner

\* emit_event stores the payload as the checkpoint of the step that waits,
\* which may be the one looked at here.
Wake(s) ==
  LET r == session[s].run
  IN  /\ At(s, "wake") /\ taskLock = Null
      /\ run' = [run EXCEPT ![r] = "pending"]
      /\ TaskMoves("pending")
      /\ owner' \in {owner, r}
      /\ End(s)

\* The task gets its next attempt, at once or later, is cancelled by
\* max_duration, or fails: by its own limit or, the bound, at MaxAttempts.
FailOutcomes(r) ==
  {"failed"} \union
  (IF r < MaxAttempts THEN {"pending", "sleeping", "cancelled"} ELSE {})

Fail(s) ==
  LET r == session[s].run
  IN  /\ At(s, "fail") /\ taskLock = Null
      /\ \E outcome \in FailOutcomes(r) :
           IF outcome \in LiveState
           THEN /\ run' = [run EXCEPT ![r] = "failed", ![r + 1] = outcome]
                /\ TaskBecomes(outcome, r + 1)
           ELSE /\ run' = [run EXCEPT ![r] = "failed"]
                /\ TaskBecomes(outcome, r)
      /\ End(s)
      /\ UNCHANGED owner

\* claim_task takes run and task together, passing over locked rows.
Claim(r) ==
  /\ run[r] \in {"pending", "sleeping"}
  /\ task \in LiveState
  /\ runLock[r] = Null /\ taskLock = Null
  /\ run' = [run EXCEPT ![r] = "running"]
  /\ task' = "running"
  /\ lastRun' = r
  /\ UNCHANGED <<owner, locks, session>>

\* retry_task in place: nothing it does after it has locked the task waits.
Retry ==
  /\ task = "failed" /\ taskLock = Null
  /\ lastRun < MaxAttempts
  /\ run' = [run EXCEPT ![lastRun + 1] = "pending"]
  /\ task' = "pending"
  /\ lastRun' = lastRun + 1
  /\ UNCHANGED <<owner, locks, session>>

-----------------------------------------------------------------------------
(* cancel_task: the live runs are locked, then the task, then the runs     *)
(* that are live by then.                                                  *)

CancelScan(s) ==
  /\ At(s, "idle")
  /\ session' = [session EXCEPT ![s] =
       [Idle EXCEPT !.at = "cancel runs", !.todo = LiveRuns]]
  /\ UNCHANGED <<rows, locks>>

\* In the order of run ids; a run that has ended meanwhile is not locked.
CancelLockRun(s) ==
  LET r == Min(session[s].todo)
  IN  /\ At(s, "cancel runs") \/ At(s, "cancel task")
      /\ session[s].todo # {}
      /\ runLock[r] \in {Null, s}
      /\ runLock' = IF r \in LiveRuns
                    THEN [runLock EXCEPT ![r] = s] ELSE runLock
      /\ session' = [session EXCEPT ![s] =
           [@ EXCEPT !.todo = session[s].todo \ {r}]]
      /\ UNCHANGED <<rows, taskLock>>

\* A task that has ended is left alone.
CancelLockTask(s) ==
  /\ At(s, "cancel runs") /\ session[s].todo = {}
  /\ taskLock = Null
  /\ IF task \in LiveState
     THEN /\ taskLock' = s
          /\ session' = [session EXCEPT ![s] =
               [@ EXCEPT !.at = "cancel task", !.todo = LiveRuns]]
          /\ UNCHANGED runLock
     ELSE End(s)
  /\ UNCHANGED rows

\* Mutant: only the runs that were live at first are cancelled.
CancelFirstRuns(s) ==
  /\ At(s, "cancel task")
  /\ task' = "cancelled"
  /\ run' = [r \in Run |-> IF r \in Held(s) THEN "cancelled" ELSE run[r]]
  /\ End(s)
  /\ UNCHANGED <<lastRun, owner>>

Cancel(s) ==
  /\ At(s, "cancel task") /\ session[s].todo = {}
  /\ task' = "cancelled"
  /\ run' = [r \in Run |-> IF r \in Held(s) THEN "cancelled" ELSE run[r]]
  /\ End(s)
  /\ UNCHANGED <<lastRun, owner>>

-----------------------------------------------------------------------------
(* set_task_checkpoint_state: the states are read without a lock; only the *)
(* extension of the claim locks the run.                                   *)

BeginCheckpoint(s, r) ==
  /\ At(s, "idle")
  /\ run[r] \notin {"absent", "failed"}
  /\ task \notin {"cancelled", "deleted"}
  /\ session' = [session EXCEPT ![s] = [Idle EXCEPT !.at = "extend", !.run = r]]
  /\ UNCHANGED <<rows, locks>>

\* The update affects a running run with a claim that expires, or nothing.
ExtendClaim(s) ==
  LET r == session[s].run
  IN  /\ At(s, "extend")
      /\ \/ /\ run[r] = "running" /\ runLock[r] = Null
            /\ runLock' = [runLock EXCEPT ![r] = s]
         \/ UNCHANGED runLock
      /\ Goto(s, "read owner")
      /\ UNCHANGED <<rows, taskLock>>

\* The attempt of the run that owns the checkpoint, if there are both.
OwnerAttempt == IF owner # 0 /\ run[owner] = "absent" THEN 0 ELSE owner

\* Mutant: the attempts are not compared.
ReadAnyOwner(s) ==
  /\ At(s, "read owner")
  /\ session' = [session EXCEPT ![s] =
       [@ EXCEPT !.at = "write checkpoint", !.saw = OwnerAttempt]]
  /\ UNCHANGED <<rows, locks>>

ReadOwner(s) ==
  /\ At(s, "read owner")
  /\ IF OwnerAttempt <= session[s].run
     THEN /\ session' = [session EXCEPT ![s] =
               [@ EXCEPT !.at = "write checkpoint", !.saw = OwnerAttempt]]
          /\ UNCHANGED locks
     ELSE End(s)
  /\ UNCHANGED rows

WriteCheckpoint(s) ==
  /\ At(s, "write checkpoint")
  /\ owner' = session[s].run
  /\ End(s)
  /\ UNCHANGED <<task, lastRun, run>>

-----------------------------------------------------------------------------
(* cleanup_tasks: one statement, whose subquery chooses on its snapshot.   *)

SelectOld(s) ==
  /\ At(s, "idle")
  /\ task \in TerminalState
  /\ session' = [session EXCEPT ![s] =
       [Idle EXCEPT !.at = "delete",
                    !.todo = {r \in Run : run[r] # "absent"}]]
  /\ UNCHANGED <<rows, locks>>

\* The deletes wait for the rows of the snapshot; a row that was updated is
\* tested again, but only for its id.
Delete(s) ==
  /\ At(s, "delete")
  /\ taskLock = Null /\ \A r \in session[s].todo : runLock[r] = Null
  /\ task' = "deleted"
  /\ lastRun' = 0
  /\ run' = [r \in Run |-> IF r \in session[s].todo THEN "absent" ELSE run[r]]
  /\ owner' = 0
  /\ End(s)

-----------------------------------------------------------------------------

Init ==
  /\ task = "pending" /\ lastRun = 1
  /\ run = [r \in Run |-> IF r = 1 THEN "pending" ELSE "absent"]
  /\ owner = 0
  /\ taskLock = Null /\ runLock = [r \in Run |-> Null]
  /\ session = [s \in Session |-> Idle]

WorkerStep(s) ==
  \/ \E r \in Run, point \in {"complete", "fail", "suspend", "wake"} :
       LockRun(s, r, point)
  \/ Complete(s) \/ Fail(s) \/ Suspend(s) \/ Wake(s)
  \/ \E r \in Run : BeginCheckpoint(s, r)
  \/ ExtendClaim(s) \/ ReadOwner(s) \/ WriteCheckpoint(s)

CancelStep(s) ==
  CancelScan(s) \/ CancelLockRun(s) \/ CancelLockTask(s) \/ Cancel(s)

CleanupStep(s) == SelectOld(s) \/ Delete(s)

Next ==
  \/ \E s \in Session :
       WorkerStep(s) \/ CancelStep(s) \/ CleanupStep(s) \/ Abort(s)
  \/ \E r \in Run : Claim(r)
  \/ Retry

Spec == Init /\ [][Next]_vars

-----------------------------------------------------------------------------
(* Properties.                                                             *)

\* Rows, locks and sessions have their types.
TypeOK ==
  /\ task \in LiveState \union TerminalState \union {"deleted"}
  /\ lastRun \in 0 .. MaxAttempts
  /\ run \in [Run -> LiveState \union TerminalState \union {"absent"}]
  /\ owner \in 0 .. MaxAttempts
  /\ taskLock \in Session \union {Null}
  /\ runLock \in [Run -> Session \union {Null}]
  /\ session \in [Session -> SessionRow]

\* However their statements interleave, the functions never leave the task
\* with two live runs.
OneLiveRun == \A r, q \in LiveRuns : r = q

\* Nor do they leave a task that says one thing and a last run that says
\* another.
TaskMirrorsLastRun ==
  task # "deleted" =>
    run[lastRun] = task \/ (run[lastRun] = "failed" /\ task = "cancelled")

\* A run that has ended stays as it is, until cleanup deletes it.
FinishedRunsAreFinal ==
  [][\A r \in Run :
       run[r] \in TerminalState => run'[r] \in {run[r], "absent"}]_vars

\* A checkpoint stays until its task is deleted, and an earlier attempt does
\* not take it from a later one, save through the one window that
\* set_task_checkpoint_state leaves open: the call read what was stored before
\* the later attempt wrote, and does not hold its run.  A call that extends
\* the claim of its run holds it, so that there is no later attempt.
CheckpointsAreKept ==
  [][owner' < owner =>
       \/ task' = "deleted"
       \/ \E s \in Session : /\ At(s, "write checkpoint")
                             /\ session[s].run = owner' /\ session[s].saw < owner
                             /\ Held(s) = {}]_vars

Atomic == INSTANCE AtomicTask

\* However their statements interleave, the functions change the task and its
\* runs as if each call ran alone, except that cleanup_tasks may delete a task
\* that was taken up again after it was chosen.
FunctionsAreAtomic == Atomic!Spec

\* To its clients the task is one that TaskLifecycle describes, whatever
\* interleaves, except that cleanup_tasks, which finds the rows it has chosen
\* again by id only, may delete a task that retry_task took up again
\* meanwhile.  Its new run is then left behind, live and without a task.
Lifecycle == INSTANCE TaskLifecycle WITH
  TaskId <- {"task"},
  status <- [t \in {"task"} |-> IF task \in LiveState THEN "live"
                                ELSE IF task = "deleted" THEN "absent" ELSE task],
  attempts <- [t \in {"task"} |-> lastRun]

RevivedTaskIsDeleted ==
  /\ task \in LiveState /\ task' = "deleted"
  /\ lastRun > 1 /\ run[lastRun] = task /\ run'[lastRun] = run[lastRun]

KeepsLifecycle == [][Lifecycle!Next \/ RevivedTaskIsDeleted]_<<task, lastRun>>
=============================================================================

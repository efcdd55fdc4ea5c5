----------------------------- MODULE AtomicTask -----------------------------
(***************************************************************************)
(* A task and its runs as if each call of the functions of sql/absurd.sql  *)
(* ran alone.  Only cleanup_tasks is not like that: it chooses ended tasks *)
(* and deletes them by id, whatever has become of them since.              *)
(***************************************************************************)
EXTENDS Naturals

CONSTANT MaxAttempts

VARIABLES
  task,     \* its state, "deleted" in the end
  lastRun,  \* its last run
  run       \* the states of its runs, by attempt

Run == 1 .. MaxAttempts

LiveState == {"pending", "running", "sleeping"}

Init ==
  /\ task = "pending" /\ lastRun = 1
  /\ run = [r \in Run |-> IF r = 1 THEN "pending" ELSE "absent"]

\* The task follows its run, unless it was deleted and left the run behind.
Follow(state, r) ==
  IF task = "deleted" THEN UNCHANGED <<task, lastRun>>
  ELSE task' = state /\ lastRun' = r

Move(state) == Follow(state, lastRun)

Complete(r) ==
  /\ run[r] = "running"
  /\ run' = [run EXCEPT ![r] = "completed"]
  /\ Follow("completed", r)

Suspend(r) ==
  /\ run[r] = "running"
  /\ run' = [run EXCEPT ![r] = "sleeping"]
  /\ Move("sleeping")

Wake(r) ==
  /\ run[r] = "sleeping"
  /\ run' = [run EXCEPT ![r] = "pending"]
  /\ Move("pending")

\* The last attempt, or one after which the task is cancelled.
FailForGood(r) ==
  /\ run[r] \in {"running", "sleeping"}
  /\ run' = [run EXCEPT ![r] = "failed"]
  /\ \E state \in {"failed", "cancelled"} : Follow(state, r)

FailAndRetry(r) ==
  /\ run[r] \in {"running", "sleeping"}
  /\ r < MaxAttempts /\ run[r + 1] = "absent"
  /\ \E state \in {"pending", "sleeping"} :
       /\ run' = [run EXCEPT ![r] = "failed", ![r + 1] = state]
       /\ Follow(state, r + 1)

Claim(r) ==
  /\ run[r] \in {"pending", "sleeping"} /\ task = run[r] /\ lastRun = r
  /\ run' = [run EXCEPT ![r] = "running"]
  /\ task' = "running"
  /\ UNCHANGED lastRun

Retry ==
  /\ task = "failed" /\ run[lastRun] = "failed"
  /\ lastRun < MaxAttempts /\ run[lastRun + 1] = "absent"
  /\ run' = [run EXCEPT ![lastRun + 1] = "pending"]
  /\ task' = "pending"
  /\ lastRun' = lastRun + 1

Cancel ==
  /\ task \in LiveState
  /\ run' = [r \in Run |-> IF run[r] \in LiveState THEN "cancelled" ELSE run[r]]
  /\ task' = "cancelled"
  /\ UNCHANGED lastRun

\* The runs that a cleanup has seen, up to the last one.  They had ended; a
\* live run that came later is left without a task.
Delete(last) ==
  /\ \A r \in 1 .. last : run[r] \notin LiveState
  /\ run' = [r \in Run |-> IF r <= last THEN "absent" ELSE run[r]]
  /\ task' = "deleted"
  /\ lastRun' = 0

Next ==
  \/ \E r \in Run : \/ Complete(r) \/ Suspend(r) \/ Wake(r) \/ Claim(r)
                    \/ FailForGood(r) \/ FailAndRetry(r)
  \/ Retry
  \/ Cancel
  \/ \E last \in Run : Delete(last)

Spec == Init /\ [][Next]_<<task, lastRun, run>>
=============================================================================

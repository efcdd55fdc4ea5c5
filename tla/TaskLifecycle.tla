--------------------------- MODULE TaskLifecycle ---------------------------
(***************************************************************************)
(* What an Absurd queue promises the clients of a task, with no runs,      *)
(* claims or waits: a task is attempted again and again until it ends      *)
(* once, as completed, failed or cancelled.  Only a failed task can be     *)
(* taken up again, and only a task that has ended is forgotten.            *)
(***************************************************************************)
EXTENDS Naturals

CONSTANT TaskId

VARIABLES
  status,    \* what get_task_result tells of a task; "live" if not ended
  attempts   \* how many attempts at it there have been

Ended == {"completed", "failed", "cancelled"}

Init ==
  /\ status = [t \in TaskId |-> "absent"]
  /\ attempts = [t \in TaskId |-> 0]

Becomes(t, s, n) == status'[t] = s /\ attempts'[t] = n

Spawn(t) == status[t] = "absent" /\ Becomes(t, "live", 1)

AttemptAgain(t) == status[t] = "live" /\ Becomes(t, "live", attempts[t] + 1)

End(t) == status[t] = "live" /\ \E s \in Ended : Becomes(t, s, attempts[t])

Retry(t) == status[t] = "failed" /\ Becomes(t, "live", attempts[t] + 1)

Forget(t) == status[t] \in Ended /\ Becomes(t, "absent", 0)

Stay(t) == Becomes(t, status[t], attempts[t])

TaskStep(t) ==
  Spawn(t) \/ AttemptAgain(t) \/ End(t) \/ Retry(t) \/ Forget(t) \/ Stay(t)

\* One transaction may move several tasks, each by one step: a single
\* claim_task call cancels, fails and restarts attempts of many tasks.
Next == \A t \in TaskId : TaskStep(t)

Spec == Init /\ [][Next]_<<status, attempts>>
=============================================================================

----------------------- MODULE AbsurdQueueStepProofs -----------------------
(* Proofs about the steps of AbsurdQueue: what no step does to a finished  *)
(* run, and that every step is one of TaskLifecycle.                       *)
EXTENDS AbsurdQueueProofs

-----------------------------------------------------------------------------
(* Finished runs.                                                          *)

KeepsFinished(rn, rn2) ==
  \A r \in RunId : rn[r].state \in TerminalState => rn2[r] = rn[r]

LEMMA StatesDiffer ==
  ASSUME NEW s \in TerminalState
  PROVE  s # "absent" /\ s \notin LiveState
BY DEF TerminalState, LiveState

LEMMA CancelKeepsFinished ==
  ASSUME NEW tk, NEW rn, NEW T
  PROVE  KeepsFinished(rn, CancelRuns(tk, rn, T))
BY StatesDiffer DEF KeepsFinished, CancelRuns, Live

LEMMA FailKeepsFinished ==
  ASSUME NEW tk, NEW rn, NEW R \in SUBSET RunId, NEW at,
         \A r \in R : rn[r].state \in {"running", "sleeping"},
         NEW fresh \in FreshRuns(rn, Retried(tk, rn, R, at))
  PROVE  KeepsFinished(rn, FailRuns(tk, rn, R, at, fresh))
<1> SUFFICES ASSUME NEW x \in RunId, rn[x].state \in TerminalState
             PROVE  FailRuns(tk, rn, R, at, fresh)[x] = rn[x]
  BY DEF KeepsFinished
<1>1. x \notin R
  BY DEF TerminalState
<1>2. \A r \in Retried(tk, rn, R, at) : fresh[r] # x
  BY StatesDiffer DEF FreshRuns, Absent
<1> QED
  BY <1>1, <1>2 DEF FailRuns

LEMMA ClaimKeepsFinished ==
  ASSUME NEW rn, NEW R, NEW timeout,
         \A r \in R : rn[r].state \in {"pending", "sleeping"}
  PROVE  KeepsFinished(rn, ClaimRuns(rn, R, timeout))
<1> SUFFICES ASSUME NEW x \in RunId, rn[x].state \in TerminalState
             PROVE  ClaimRuns(rn, R, timeout)[x] = rn[x]
  BY DEF KeepsFinished
<1>1. x \notin R
  BY DEF TerminalState
<1> QED
  BY <1>1 DEF ClaimRuns

LEMMA KeepsTransitive ==
  ASSUME NEW rn, NEW rn1, NEW rn2,
         KeepsFinished(rn, rn1), KeepsFinished(rn1, rn2)
  PROVE  KeepsFinished(rn, rn2)
BY DEF KeepsFinished

LEMMA ClaimTaskKeepsFinished ==
  ASSUME NEW timeout, NEW qty, NEW locked, ClaimTask(timeout, qty, locked)
  PROVE  KeepsFinished(run, run')
<1> DEFINE tk1 == CancelTasks(task, Overdue(task))
           rn1 == CancelRuns(task, run, Overdue(task))
<1>1. PICK R \in SUBSET RunId :
        /\ \A r \in R : rn1[r].state \in {"running", "sleeping"}
        /\ \E fresh \in FreshRuns(rn1, Retried(tk1, rn1, R, Null)),
              C \in SUBSET RunId :
             LET tk2 == FailTasks(tk1, rn1, R, Null, fresh)
                 rn2 == FailRuns(tk1, rn1, R, Null, fresh)
             IN  /\ \A r \in C : rn2[r].state \in {"pending", "sleeping"}
                 /\ task' = ClaimTasks(tk2, rn2, C)
                 /\ run' = ClaimRuns(rn2, C, timeout)
  BY ClaimStages
<1>2. PICK fresh \in FreshRuns(rn1, Retried(tk1, rn1, R, Null)),
           C \in SUBSET RunId :
        LET rn2 == FailRuns(tk1, rn1, R, Null, fresh)
        IN  /\ \A r \in C : rn2[r].state \in {"pending", "sleeping"}
            /\ run' = ClaimRuns(rn2, C, timeout)
  BY <1>1
<1> DEFINE rn2 == FailRuns(tk1, rn1, R, Null, fresh)
<1>3. KeepsFinished(run, rn1)
  BY CancelKeepsFinished
<1> HIDE DEF tk1, rn1
<1>4. KeepsFinished(rn1, rn2)
  BY <1>1, FailKeepsFinished
<1>5. KeepsFinished(rn2, run')
  <2>1. \A r \in C : rn2[r].state \in {"pending", "sleeping"}
    BY <1>2
  <2> HIDE DEF rn2
  <2>2. KeepsFinished(rn2, ClaimRuns(rn2, C, timeout))
    BY <2>1, ClaimKeepsFinished
  <2> QED
    BY <1>2, <2>2 DEF rn2
<1> HIDE DEF rn2
<1> QED
  BY <1>3, <1>4, <1>5, KeepsTransitive

LEMMA ClientKeepsFinished == ClientStep => KeepsFinished(run, run')
<1> SUFFICES ASSUME ClientStep PROVE KeepsFinished(run, run')
  OBVIOUS
<1>1. ASSUME NEW r \in RunId, NEW new, run[r].state = "absent",
             run' = [run EXCEPT ![r] = new]
      PROVE  KeepsFinished(run, run')
  BY <1>1, StatesDiffer DEF KeepsFinished
<1>2. ASSUME NEW t \in TaskId, NEW r \in RunId,
             NEW k \in IdempotencyKey \union {Null}, NEW o \in SpawnOptions,
             SpawnTask(t, r, k, o)
      PROVE  KeepsFinished(run, run')
  BY <1>1, <1>2 DEF SpawnTask
<1>3. ASSUME NEW t \in TaskId, NEW r \in RunId, NEW m \in RetryLimits,
             RetryTask(t, r, m)
      PROVE  KeepsFinished(run, run')
  BY <1>1, <1>3 DEF RetryTask
<1>4. ASSUME NEW t \in TaskId, NEW u \in TaskId, NEW r \in RunId,
             NEW m \in RetryLimits, RetryAsNewTask(t, u, r, m)
      PROVE  KeepsFinished(run, run')
  BY <1>1, <1>4 DEF RetryAsNewTask
<1>5. ASSUME NEW t \in TaskId, CancelTask(t) PROVE KeepsFinished(run, run')
  BY <1>5, CancelKeepsFinished DEF CancelTask
<1>6. ASSUME NEW e \in EventName, NEW p \in Payload, EmitEvent(e, p)
      PROVE  KeepsFinished(run, run')
  <2> SUFFICES ASSUME NEW r \in RunId, run[r].state \in TerminalState
               PROVE  run'[r] = run[r]
    BY DEF KeepsFinished
  <2>1. r \notin WokenRuns(e)
    BY DEF WokenRuns, TerminalState
  <2> QED
    BY <1>6, <2>1 DEF EmitEvent
<1> QED
  BY <1>2, <1>3, <1>4, <1>5, <1>6 DEF ClientStep

LEMMA WorkerKeepsFinished == WorkerStep => KeepsFinished(run, run')
<1> SUFFICES ASSUME WorkerStep PROVE KeepsFinished(run, run')
  OBVIOUS
<1>1. ASSUME NEW r \in RunId, NEW new, run[r].state = "running",
             run' = [run EXCEPT ![r] = new]
      PROVE  KeepsFinished(run, run')
  BY <1>1, StatesDiffer DEF KeepsFinished, LiveState
<1>2. ASSUME NEW r \in RunId, CompleteRun(r) PROVE KeepsFinished(run, run')
  BY <1>1, <1>2 DEF CompleteRun
<1>3. ASSUME NEW r \in RunId, NEW at, ScheduleRun(r, at)
      PROVE  KeepsFinished(run, run')
  BY <1>1, <1>3 DEF ScheduleRun
<1>4. ASSUME NEW r \in RunId, NEW at, FailRun(r, at)
      PROVE  KeepsFinished(run, run')
  <2> DEFINE R == {r}
  <2>1. PICK fresh \in FreshRuns(run, Retried(task, run, R, at)) :
          run' = FailRuns(task, run, R, at, fresh)
    BY <1>4 DEF FailRun
  <2>2. R \in SUBSET RunId /\ \A x \in R : run[x].state \in {"running", "sleeping"}
    BY <1>4 DEF FailRun
  <2> HIDE DEF R
  <2> QED
    BY <2>1, <2>2, FailKeepsFinished
<1>5. ASSUME NEW r \in RunId, NEW s \in StepName, NEW p \in Payload, NEW by,
             SetTaskCheckpointState(r, s, p, by)
      PROVE  KeepsFinished(run, run')
  <2>1. run' = ExtendedRuns(r, by)
    BY <1>5 DEF SetTaskCheckpointState
  <2>2. CASE run' = run
    BY <2>2 DEF KeepsFinished
  <2>3. CASE run' # run
    BY <1>1, <2>1, <2>3 DEF ExtendedRuns
  <2> QED
    BY <2>2, <2>3
<1>6. ASSUME NEW r \in RunId, NEW by, ExtendClaim(r, by)
      PROVE  KeepsFinished(run, run')
  BY <1>1, <1>6 DEF ExtendClaim
<1>7. ASSUME NEW r \in RunId, NEW s \in StepName, NEW e \in EventName,
             NEW d, AwaitEvent(r, s, e, d)
      PROVE  KeepsFinished(run, run')
  BY <1>1, <1>7 DEF AwaitEvent, AwaitResolves, AwaitTimesOut, AwaitParks,
     MayAwait
<1> QED
  BY <1>2, <1>3, <1>4, <1>5, <1>6, <1>7 DEF WorkerStep

\* Only tasks that have ended are deleted.
LEMMA DeletedTasksHaveEnded ==
  ASSUME NEW ttl, DeleteOldTasks(ttl)
  PROVE  \E D \in SUBSET TaskId :
           /\ \A t \in D : task[t].state \in TerminalState
           /\ task' = [t \in TaskId |-> IF t \in D THEN NoTask ELSE task[t]]
           /\ run' = [r \in RunId |-> IF run[r].task \in D THEN NoRun ELSE run[r]]
<1> DEFINE endedAt == [t \in TaskId |-> TerminalAt(t)]
           old == {t \in TaskId : endedAt[t] # Null /\ endedAt[t] < now - ttl}
<1>1. PICK D \in FirstOf(old, endedAt, CleanupLimit) :
        /\ task' = [t \in TaskId |-> IF t \in D THEN NoTask ELSE task[t]]
        /\ run' = [r \in RunId |-> IF run[r].task \in D THEN NoRun ELSE run[r]]
  BY DEF DeleteOldTasks
<1>2. D \subseteq old
  BY DEF FirstOf
<1>3. ASSUME NEW t \in D PROVE t \in TaskId /\ TerminalAt(t) # Null
  BY <1>2
<1>4. ASSUME NEW t \in D PROVE task[t].state \in TerminalState
  BY <1>3 DEF TerminalAt, TerminalState
<1> QED
  BY <1>1, <1>3, <1>4

FinalStep ==
  \A r \in RunId : run[r].state \in TerminalState =>
    \/ run'[r] = run[r]
    \/ /\ run'[r] = NoRun
       /\ task[run[r].task].state \in TerminalState
       /\ task'[run[r].task].state = "absent"

LEMMA NextFinalStep == [Next]_vars => FinalStep
<1> SUFFICES ASSUME [Next]_vars PROVE FinalStep
  OBVIOUS
<1>1. KeepsFinished(run, run') => FinalStep
  BY DEF KeepsFinished, FinalStep
<1>2. UNCHANGED run => KeepsFinished(run, run')
  BY DEF KeepsFinished
<1>3. CASE PollStep
  BY <1>1, <1>3, ClaimTaskKeepsFinished DEF PollStep
<1>4. ASSUME NEW ttl, DeleteOldTasks(ttl) PROVE FinalStep
  <2>1. PICK D \in SUBSET TaskId :
          /\ \A t \in D : task[t].state \in TerminalState
          /\ task' = [t \in TaskId |-> IF t \in D THEN NoTask ELSE task[t]]
          /\ run' = [r \in RunId |-> IF run[r].task \in D THEN NoRun ELSE run[r]]
    BY <1>4, DeletedTasksHaveEnded
  <2>2. NoTask.state = "absent"
    BY DEF NoTask
  <2> QED
    BY <2>1, <2>2 DEF FinalStep
<1>5. CASE CleanupStep
  BY <1>1, <1>2, <1>4, <1>5 DEF CleanupStep, CleanupTasks, CleanupEvents,
     CleanupQueue
<1>6. CASE Tick \/ UNCHANGED vars
  BY <1>1, <1>2, <1>6 DEF Tick, vars
<1> QED
  BY <1>1, <1>3, <1>5, <1>6, ClientKeepsFinished, WorkerKeepsFinished DEF Next

\* A run that has completed, failed or been cancelled never changes again,
\* however late a worker's call for it arrives; it disappears only when its
\* task, which has ended, is cleaned up.
THEOREM FinishedRunsStayFinal == Spec => FinishedRunsAreFinal
<1>1. [Next]_vars => [FinalStep]_vars
  BY NextFinalStep
<1> QED
  BY <1>1, PTL DEF Spec, FinishedRunsAreFinal, FinalStep

-----------------------------------------------------------------------------
(* Every step is one of TaskLifecycle.                                     *)

LifeStep(row, new) ==
  \/ SameLife(row, new)
  \/ AttemptedAgain(row, new)
  \/ Ends(row, new)
  \/ row.state = "absent" /\ new.state \in LiveState /\ new.attempts = 1
  \/ /\ row.state = "failed" /\ new.state \in LiveState
     /\ new.attempts = row.attempts + 1
  \/ row.state \in TerminalState /\ new.state = "absent" /\ new.attempts = 0

LivesOn(tk, tk2) == \A t \in TaskId : LifeStep(tk[t], tk2[t])

LEMMA SameLivesOn ==
  ASSUME NEW tk, NEW tk2, \A t \in TaskId : SameLife(tk[t], tk2[t])
  PROVE  LivesOn(tk, tk2)
BY DEF LivesOn, LifeStep

LEMMA UnchangedLivesOn ==
  ASSUME UNCHANGED task
  PROVE  LivesOn(task, task')
BY SameLivesOn DEF SameLife

\* One task changes.
LEMMA OneLivesOn ==
  ASSUME IInv, NEW t, NEW new, LifeStep(task[t], new),
         task' = [task EXCEPT ![t] = new]
  PROVE  LivesOn(task, task')
<1> SUFFICES ASSUME NEW u \in TaskId PROVE LifeStep(task[u], task'[u])
  BY DEF LivesOn
<1>1. task \in [TaskId -> TaskRow]
  BY DEF IInv, TypeOK
<1>2. CASE u = t
  BY <1>1, <1>2
<1>3. CASE u # t
  <2>1. task'[u] = task[u]
    BY <1>1, <1>3
  <2> QED
    BY <2>1 DEF LifeStep, SameLife
<1> QED
  BY <1>2, <1>3

LEMMA CancelLivesOn ==
  ASSUME NEW tk, NEW T, tk \in [TaskId -> TaskRow], NEW t \in TaskId
  PROVE  CancelTasks(tk, T)[t] = tk[t] \/ Ends(tk[t], CancelTasks(tk, T)[t])
<1>1. tk[t] \in TaskRow
  OBVIOUS
<1> QED
  BY <1>1 DEF CancelTasks, Ends, TerminalState, TaskRow

LEMMA ClaimTaskLivesOn ==
  ASSUME IInv, NEW timeout \in Nat, NEW qty, NEW locked,
         ClaimTask(timeout, qty, locked)
  PROVE  LivesOn(task, task')
<1> DEFINE tk1 == CancelTasks(task, Overdue(task))
           rn1 == CancelRuns(task, run, Overdue(task))
<1>1. PICK R \in SUBSET RunId :
        /\ \A r \in R : rn1[r].state \in {"running", "sleeping"}
        /\ \E fresh \in FreshRuns(rn1, Retried(tk1, rn1, R, Null)),
              C \in SUBSET RunId :
             LET tk2 == FailTasks(tk1, rn1, R, Null, fresh)
                 rn2 == FailRuns(tk1, rn1, R, Null, fresh)
             IN  /\ \A r \in C : rn2[r].state \in {"pending", "sleeping"}
                 /\ task' = ClaimTasks(tk2, rn2, C)
                 /\ run' = ClaimRuns(rn2, C, timeout)
  BY ClaimStages
<1>2. PICK fresh \in FreshRuns(rn1, Retried(tk1, rn1, R, Null)),
           C \in SUBSET RunId :
        LET tk2 == FailTasks(tk1, rn1, R, Null, fresh)
            rn2 == FailRuns(tk1, rn1, R, Null, fresh)
        IN  /\ \A r \in C : rn2[r].state \in {"pending", "sleeping"}
            /\ task' = ClaimTasks(tk2, rn2, C)
  BY <1>1
<1> DEFINE tk2 == FailTasks(tk1, rn1, R, Null, fresh)
           rn2 == FailRuns(tk1, rn1, R, Null, fresh)
<1>3. now \in Nat /\ Overdue(task) \in SUBSET TaskId /\ Null \in NatOrNull
  BY DEF IInv, TypeOK, Overdue, NatOrNull
<1>4. Consistent(tk1, rn1)
  BY <1>3, CancelConsistent DEF IInv
<1>5. \A t \in TaskId : tk1[t] = task[t] \/ Ends(task[t], tk1[t])
  BY CancelLivesOn DEF IInv, TypeOK
<1> HIDE DEF tk1, rn1
<1>6. /\ Consistent(tk2, rn2)
      /\ \A t \in TaskId : \/ tk2[t] = tk1[t]
                            \/ AttemptedAgain(tk1[t], tk2[t])
                            \/ Ends(tk1[t], tk2[t])
  BY <1>1, <1>3, <1>4, FailConsistent
<1>7. (\A r \in C : rn2[r].state \in {"pending", "sleeping"})
      /\ task' = ClaimTasks(tk2, rn2, C)
  BY <1>2
<1> HIDE DEF tk2, rn2
<1>8. \A t \in TaskId : SameLife(tk2[t], task'[t])
  BY <1>3, <1>6, <1>7, ClaimConsistent
<1> SUFFICES ASSUME NEW t \in TaskId PROVE LifeStep(task[t], task'[t])
  BY DEF LivesOn
<1>9. CASE tk1[t] = task[t]
  <2>1. \/ tk2[t] = task[t] \/ AttemptedAgain(task[t], tk2[t])
        \/ Ends(task[t], tk2[t])
    BY <1>6, <1>9
  <2> QED
    BY <1>8, <2>1, StatesDiffer DEF LifeStep, SameLife, AttemptedAgain, Ends
<1>10. CASE Ends(task[t], tk1[t])
  <2>1. tk2[t] = tk1[t]
    BY <1>6, <1>10, StatesDiffer DEF AttemptedAgain, Ends
  <2> QED
    BY <1>8, <1>10, <2>1, StatesDiffer DEF LifeStep, SameLife, Ends
<1> QED
  BY <1>5, <1>9, <1>10

LEMMA ClientLivesOn == IInv /\ ClientStep => LivesOn(task, task')
<1> SUFFICES ASSUME IInv, ClientStep PROVE LivesOn(task, task')
  OBVIOUS
<1>1. ASSUME NEW t \in TaskId, NEW r \in RunId,
             NEW k \in IdempotencyKey \union {Null}, NEW o \in SpawnOptions,
             SpawnTask(t, r, k, o)
      PROVE  LivesOn(task, task')
  <2> DEFINE new ==
         [NoTask EXCEPT !.state = "pending", !.key = k, !.options = o,
                        !.maxAttempts = o.maxAttempts, !.attempts = 1,
                        !.lastRun = r, !.enqueueAt = now]
  <2>1. new.state = "pending" /\ new.attempts = 1
    BY DEF NoTask
  <2>2. task[t].state = "absent" /\ task' = [task EXCEPT ![t] = new]
    BY <1>1 DEF SpawnTask
  <2> HIDE DEF new
  <2>3. LifeStep(task[t], new)
    BY <2>1, <2>2 DEF LifeStep, LiveState
  <2> QED
    BY <2>2, <2>3, OneLivesOn
<1>2. ASSUME NEW t \in TaskId, NEW r \in RunId, NEW m \in RetryLimits,
             RetryTask(t, r, m)
      PROVE  LivesOn(task, task')
  <2> DEFINE new ==
         [task[t] EXCEPT !.state = "pending", !.attempts = task[t].attempts + 1,
                         !.maxAttempts = RetryLimit(task[t], m), !.lastRun = r,
                         !.cancelledAt = Null]
  <2>1. task[t] \in TaskRow
    BY DEF IInv, TypeOK
  <2>2. new.state = "pending" /\ new.attempts = task[t].attempts + 1
    BY <2>1 DEF TaskRow
  <2>3. task[t].state = "failed" /\ task' = [task EXCEPT ![t] = new]
    BY <1>2 DEF RetryTask
  <2> HIDE DEF new
  <2>4. LifeStep(task[t], new)
    BY <2>2, <2>3 DEF LifeStep, LiveState
  <2> QED
    BY <2>3, <2>4, OneLivesOn
<1>3. ASSUME NEW t \in TaskId, NEW u \in TaskId, NEW r \in RunId,
             NEW m \in RetryLimits, RetryAsNewTask(t, u, r, m)
      PROVE  LivesOn(task, task')
  <2> DEFINE new ==
         [NoTask EXCEPT !.state = "pending", !.options = task[t].options,
                        !.maxAttempts = Coalesce(m, task[t].maxAttempts),
                        !.attempts = 1, !.lastRun = r, !.enqueueAt = now]
  <2>1. new.state = "pending" /\ new.attempts = 1
    BY DEF NoTask
  <2>2. task[u].state = "absent" /\ task' = [task EXCEPT ![u] = new]
    BY <1>3 DEF RetryAsNewTask
  <2> HIDE DEF new
  <2>3. LifeStep(task[u], new)
    BY <2>1, <2>2 DEF LifeStep, LiveState
  <2> QED
    BY <2>2, <2>3, OneLivesOn
<1>4. ASSUME NEW t \in TaskId, CancelTask(t) PROVE LivesOn(task, task')
  <2>1. task' = CancelTasks(task, {t}) /\ task \in [TaskId -> TaskRow]
    BY <1>4 DEF CancelTask, IInv, TypeOK
  <2>2. \A u \in TaskId : task'[u] = task[u] \/ Ends(task[u], task'[u])
    BY <2>1, CancelLivesOn
  <2> QED
    BY <2>2 DEF LivesOn, LifeStep, SameLife
<1>5. ASSUME NEW e \in EventName, NEW p \in Payload, EmitEvent(e, p)
      PROVE  LivesOn(task, task')
  <2> SUFFICES ASSUME NEW t \in TaskId PROVE SameLife(task[t], task'[t])
    BY SameLivesOn
  <2>1. task' = [u \in TaskId |-> IF u \in TasksOf(run, WokenRuns(e))
                                  THEN [task[u] EXCEPT !.state = "pending"]
                                  ELSE task[u]]
    BY <1>5 DEF EmitEvent
  <2>2. task[t] \in TaskRow
    BY DEF IInv, TypeOK
  <2>3. CASE t \in TasksOf(run, WokenRuns(e))
    <3>1. PICK r \in WokenRuns(e) : t = run[r].task
      BY <2>3 DEF TasksOf
    <3>2. r \in RunId /\ Live(run, r)
      BY DEF WokenRuns, Live, LiveState
    <3>3. task[t].state \in LiveState
      BY <3>1, <3>2, RunRowOf DEF Live
    <3>4. task'[t] = [task[t] EXCEPT !.state = "pending"]
      BY <2>1, <2>3
    <3> QED
      BY <2>2, <3>3, <3>4 DEF SameLife, LiveState, TaskRow
  <2>4. CASE t \notin TasksOf(run, WokenRuns(e))
    BY <2>1, <2>4 DEF SameLife
  <2> QED
    BY <2>3, <2>4
<1> QED
  BY <1>1, <1>2, <1>3, <1>4, <1>5 DEF ClientStep

LEMMA WorkerLivesOn == IInv /\ WorkerStep => LivesOn(task, task')
<1> SUFFICES ASSUME IInv, WorkerStep PROVE LivesOn(task, task')
  OBVIOUS
<1>1. ASSUME NEW r \in RunId, run[r].state = "running"
      PROVE  task[run[r].task] \in TaskRow /\ task[run[r].task].state = "running"
  <2>1. Live(run, r)
    BY <1>1 DEF Live, LiveState
  <2> QED
    BY <1>1, <2>1, RunRowOf
<1>2. ASSUME NEW r \in RunId, CompleteRun(r) PROVE LivesOn(task, task')
  <2> DEFINE t == run[r].task
             new == [task[t] EXCEPT !.state = "completed", !.lastRun = r]
  <2>1. run[r].state = "running" /\ task' = [task EXCEPT ![t] = new]
    BY <1>2 DEF CompleteRun
  <2>2. task[t] \in TaskRow /\ task[t].state = "running"
    BY <1>1, <2>1
  <2>3. Ends(task[t], new)
    BY <2>2 DEF Ends, TaskRow, LiveState, TerminalState
  <2> HIDE DEF new
  <2> QED
    BY <2>1, <2>3, OneLivesOn DEF LifeStep
<1>3. ASSUME NEW t, task[t] \in TaskRow, task[t].state = "running",
             task' = [task EXCEPT ![t] = [task[t] EXCEPT !.state = "sleeping"]]
      PROVE  LivesOn(task, task')
  <2> DEFINE new == [task[t] EXCEPT !.state = "sleeping"]
  <2>1. SameLife(task[t], new)
    BY <1>3 DEF SameLife, TaskRow, LiveState
  <2>2. task' = [task EXCEPT ![t] = new]
    BY <1>3
  <2> HIDE DEF new
  <2> QED
    BY <2>1, <2>2, OneLivesOn DEF LifeStep
<1>4. ASSUME NEW r \in RunId, NEW at, ScheduleRun(r, at)
      PROVE  LivesOn(task, task')
  BY <1>1, <1>3, <1>4 DEF ScheduleRun
<1>5. ASSUME NEW r \in RunId, NEW d \in RetryAfters, FailRun(r, After(d))
      PROVE  LivesOn(task, task')
  <2> DEFINE R == {r}
             at == After(d)
  <2>1. PICK fresh \in FreshRuns(run, Retried(task, run, R, at)) :
          task' = FailTasks(task, run, R, at, fresh)
    BY <1>5 DEF FailRun
  <2>2. /\ R \in SUBSET RunId
        /\ \A x \in R : run[x].state \in {"running", "sleeping"}
        /\ now \in Nat
    BY <1>5 DEF FailRun, IInv, TypeOK
  <2>3. at \in NatOrNull
    BY <2>2, ArgumentAssumption, AfterType
  <2> HIDE DEF R, at
  <2>4. \A t \in TaskId : \/ task'[t] = task[t]
                          \/ AttemptedAgain(task[t], task'[t])
                          \/ Ends(task[t], task'[t])
    BY <2>1, <2>2, <2>3, FailConsistent DEF IInv
  <2> QED
    BY <2>4 DEF LivesOn, LifeStep, SameLife
<1>6. ASSUME NEW r \in RunId, NEW s \in StepName, NEW p \in Payload,
             NEW by, SetTaskCheckpointState(r, s, p, by)
      PROVE  LivesOn(task, task')
  BY <1>6, UnchangedLivesOn DEF SetTaskCheckpointState
<1>7. ASSUME NEW r \in RunId, NEW by, ExtendClaim(r, by)
      PROVE  LivesOn(task, task')
  BY <1>7, UnchangedLivesOn DEF ExtendClaim
<1>8. ASSUME NEW r \in RunId, NEW s \in StepName, NEW e \in EventName,
             NEW d, AwaitEvent(r, s, e, d)
      PROVE  LivesOn(task, task')
  <2>1. CASE AwaitResolves(r, s, e) \/ AwaitTimesOut(r, s, e)
    BY <2>1, UnchangedLivesOn DEF AwaitResolves, AwaitTimesOut
  <2>2. CASE AwaitParks(r, s, e, d)
    BY <1>1, <1>3, <2>2 DEF AwaitParks, MayAwait
  <2> QED
    BY <1>8, <2>1, <2>2 DEF AwaitEvent
<1> QED
  BY <1>2, <1>4, <1>5, <1>6, <1>7, <1>8 DEF WorkerStep

LEMMA CleanupLivesOn == IInv /\ CleanupStep => LivesOn(task, task')
<1> SUFFICES ASSUME IInv, CleanupStep PROVE LivesOn(task, task')
  OBVIOUS
<1>1. ASSUME NEW ttl, DeleteOldTasks(ttl) PROVE LivesOn(task, task')
  <2>1. PICK D \in SUBSET TaskId :
          /\ \A t \in D : task[t].state \in TerminalState
          /\ task' = [t \in TaskId |-> IF t \in D THEN NoTask ELSE task[t]]
    BY <1>1, DeletedTasksHaveEnded
  <2>2. NoTask.state = "absent" /\ NoTask.attempts = 0
    BY DEF NoTask
  <2> QED
    BY <2>1, <2>2 DEF LivesOn, LifeStep, SameLife
<1> QED
  BY <1>1, UnchangedLivesOn DEF CleanupStep, CleanupTasks, CleanupEvents,
     CleanupQueue

LEMMA NextLivesOn == IInv /\ [Next]_vars => LivesOn(task, task')
<1> SUFFICES ASSUME IInv, [Next]_vars PROVE LivesOn(task, task')
  OBVIOUS
<1>1. CASE PollStep
  <2>1. PICK c \in ClaimTimeouts, q \in ClaimQuantities,
             locked \in SUBSET LiveRuns : ClaimTask(c, q, locked)
    BY <1>1 DEF PollStep
  <2>2. c \in Nat
    BY ArgumentAssumption
  <2> QED
    BY <2>1, <2>2, ClaimTaskLivesOn
<1>2. CASE Tick \/ UNCHANGED vars
  BY <1>2, UnchangedLivesOn DEF Tick, vars
<1> QED
  BY <1>1, <1>2, ClientLivesOn, WorkerLivesOn, CleanupLivesOn DEF Next

LEMMA LifeStepRefines ==
  ASSUME NEW t \in TaskId, LifeStep(task[t], task'[t]),
         task[t] \in TaskRow, task'[t] \in TaskRow
  PROVE  Lifecycle!TaskStep(t)
<1> DEFINE status == [u \in TaskId |-> StatusOf(task[u])]
           attempts == [u \in TaskId |-> task[u].attempts]
<1>1. /\ status[t] = StatusOf(task[t]) /\ status'[t] = StatusOf(task'[t])
      /\ attempts[t] = task[t].attempts /\ attempts'[t] = task'[t].attempts
  OBVIOUS
<1> HIDE DEF status, attempts
<1> USE DEF StatusOf, LiveState, TerminalState, Lifecycle!Becomes
<1>2. CASE SameLife(task[t], task'[t])
  <2>1. Lifecycle!Stay(t)
    BY <1>1, <1>2 DEF SameLife, Lifecycle!Stay, status, attempts
  <2> QED
    BY <2>1 DEF Lifecycle!TaskStep
<1>3. CASE AttemptedAgain(task[t], task'[t])
  <2>1. Lifecycle!AttemptAgain(t)
    BY <1>1, <1>3 DEF AttemptedAgain, Lifecycle!AttemptAgain, status, attempts
  <2> QED
    BY <2>1 DEF Lifecycle!TaskStep
<1>4. CASE Ends(task[t], task'[t])
  <2>1. Lifecycle!End(t)
    BY <1>1, <1>4 DEF Ends, Lifecycle!End, Lifecycle!Ended, status, attempts
  <2> QED
    BY <2>1 DEF Lifecycle!TaskStep
<1>5. CASE /\ task[t].state = "absent" /\ task'[t].state \in LiveState
           /\ task'[t].attempts = 1
  <2>1. Lifecycle!Spawn(t)
    BY <1>1, <1>5 DEF Lifecycle!Spawn, status, attempts
  <2> QED
    BY <2>1 DEF Lifecycle!TaskStep
<1>6. CASE /\ task[t].state = "failed" /\ task'[t].state \in LiveState
           /\ task'[t].attempts = task[t].attempts + 1
  <2>1. Lifecycle!Retry(t)
    BY <1>1, <1>6 DEF Lifecycle!Retry, status, attempts
  <2> QED
    BY <2>1 DEF Lifecycle!TaskStep
<1>7. CASE /\ task[t].state \in TerminalState /\ task'[t].state = "absent"
           /\ task'[t].attempts = 0
  <2>1. Lifecycle!Forget(t)
    BY <1>1, <1>7 DEF Lifecycle!Forget, Lifecycle!Ended, status, attempts
  <2> QED
    BY <2>1 DEF Lifecycle!TaskStep
<1> QED
  BY <1>2, <1>3, <1>4, <1>5, <1>6, <1>7 DEF LifeStep

\* Whatever calls arrive, every task goes through TaskLifecycle: it is
\* spawned once, attempted again and again, ends once, is taken up again only
\* when it failed and is forgotten only when it has ended.
THEOREM QueueImplementsLifecycle == Spec => ImplementsLifecycle
<1>1. Init => Lifecycle!Init
  BY DEF Init, Lifecycle!Init, StatusOf, LiveState, NoTask
<1>2. IInv /\ IInv' /\ [Next]_vars => Lifecycle!Next
  <2> SUFFICES ASSUME IInv, IInv', [Next]_vars, NEW t \in TaskId
               PROVE  Lifecycle!TaskStep(t)
    BY DEF Lifecycle!Next
  <2>1. LifeStep(task[t], task'[t])
    BY NextLivesOn DEF LivesOn
  <2>2. task[t] \in TaskRow /\ task'[t] \in TaskRow
    BY DEF IInv, TypeOK
  <2> QED
    BY <2>1, <2>2, LifeStepRefines
<1> QED
  BY <1>1, <1>2, SpecIInv, PTL DEF Spec, ImplementsLifecycle, Lifecycle!Spec
=============================================================================

----------------------- MODULE AbsurdQueueEventProofs -----------------------
(* Proofs about AbsurdQueue: waits and events, checkpoints, claims and the *)
(* dates of ended tasks.                                                   *)
EXTENDS AbsurdQueueStepProofs

LEMMA Distinct ==
  /\ Null \notin Nat /\ Infinity \notin Nat /\ Infinity # Null
BY NullAssumption

\* What a wait says of the time its run is to wake.
LEMMA WakeTime ==
  ASSUME NEW w \in WaitRow
  PROVE  /\ w.run \in RunId /\ w.task \in TaskId /\ w.step \in StepName
         /\ w.event \in EventName /\ w.timeoutAt \in NatOrNull
         /\ Coalesce(w.timeoutAt, Infinity) = Infinity <=> w.timeoutAt = Null
         /\ w.timeoutAt # Null => Coalesce(w.timeoutAt, Infinity) = w.timeoutAt
         /\ Reached(Coalesce(w.timeoutAt, Infinity)) <=> Reached(w.timeoutAt)
BY Distinct DEF WaitRow, Coalesce, Reached, NatOrNull

-----------------------------------------------------------------------------
(* Waits.  The three invariants are inductive together.                    *)

WaitInv == WaitsAreOfParkedRuns /\ NoLostWakeup /\ EmittedEventHasNoLiveWait

NeedsWait(rn, r) == Live(rn, r) /\ rn[r].availableAt = Infinity

\* Nothing is emitted, the runs that wait are left alone, and none comes to
\* need a wait that it does not have.
LEMMA QuietKeeps ==
  ASSUME IInv, WaitInv, wait' \subseteq wait,
         \A w \in wait' : run'[w.run] = run[w.run],
         \A r \in RunId : NeedsWait(run', r) =>
           /\ NeedsWait(run, r)
           /\ \A w \in wait : w.run = r /\ w.timeoutAt = Null => w \in wait',
         \A e \in EventName : event'[e].state = "emitted" => event[e].state = "emitted"
  PROVE  WaitInv'
<1>1. \A w \in wait : w \in WaitRow
  BY DEF IInv, TypeOK
<1>2. \A w \in wait : w.event \in EventName
  BY <1>1, WakeTime
<1>3. WaitsAreOfParkedRuns'
  BY DEF WaitInv, WaitsAreOfParkedRuns
<1>4. EmittedEventHasNoLiveWait'
  BY <1>2 DEF WaitInv, EmittedEventHasNoLiveWait
<1>5. NoLostWakeup'
  <2> SUFFICES ASSUME NEW r \in RunId, NeedsWait(run', r)
               PROVE  \E w \in wait' : /\ w.run = r /\ w.timeoutAt = Null
                                       /\ event'[w.event].state # "emitted"
    BY DEF NoLostWakeup, NeedsWait
  <2>1. PICK w \in wait : /\ w.run = r /\ w.timeoutAt = Null
                          /\ event[w.event].state # "emitted"
    BY DEF NeedsWait, WaitInv, NoLostWakeup
  <2> QED
    BY <1>2, <2>1
<1> QED
  BY <1>3, <1>4, <1>5 DEF WaitInv

\* A run that is not parked is changed, or comes to be.
LEMMA OneRunKeeps ==
  ASSUME IInv, WaitInv, NEW r \in RunId, run[r].state # "sleeping", NEW row,
         run' = [run EXCEPT ![r] = row],
         row.state \in LiveState /\ row.availableAt = Infinity => NeedsWait(run, r),
         wait' \subseteq wait, \A w \in wait : w.run # r => w \in wait',
         \A e \in EventName : event'[e].state = "emitted" => event[e].state = "emitted"
  PROVE  WaitInv'
<1>1. \A w \in wait : w.run # r
  BY DEF WaitInv, WaitsAreOfParkedRuns
<1>2. run \in [RunId -> RunRow] /\ \A w \in wait : w.run \in RunId
  BY WakeTime DEF IInv, TypeOK
<1>3. \A w \in wait' : run'[w.run] = run[w.run]
  BY <1>1, <1>2
<1>4. ASSUME NEW x \in RunId, NeedsWait(run', x)
      PROVE  /\ NeedsWait(run, x)
             /\ \A w \in wait : w.run = x /\ w.timeoutAt = Null => w \in wait'
  BY <1>1, <1>2, <1>4 DEF NeedsWait, Live
<1> QED
  BY <1>3, <1>4, QuietKeeps

LEMMA NewRunNeedsNoWait ==
  ASSUME NEW t, NEW n, NEW s, NEW at \in Nat
  PROVE  /\ NewRun(t, n, s, at).availableAt # Infinity
         /\ NewRun(t, n, s, at).state = s /\ NewRun(t, n, s, at).task = t
BY Distinct DEF NewRun, NoRun

LEMMA SpawnsKeepWaits ==
  ASSUME IInv, WaitInv, NEW t \in TaskId, NEW u \in TaskId, NEW r \in RunId, NEW k, NEW o, NEW m,
         SpawnTask(t, r, k, o) \/ RetryTask(t, r, m) \/ RetryAsNewTask(t, u, r, m)
  PROVE  WaitInv'
<1>1. now \in Nat
  BY DEF IInv, TypeOK
<1>2. /\ run[r].state # "sleeping" /\ UNCHANGED <<wait, event>>
      /\ \E v \in TaskId : \E n : run' = [run EXCEPT ![r] = NewRun(v, n, "pending", now)]
  BY DEF SpawnTask, RetryTask, RetryAsNewTask
<1>3. PICK v \in TaskId : \E n : run' = [run EXCEPT ![r] = NewRun(v, n, "pending", now)]
  BY <1>2
<1>4. PICK n : run' = [run EXCEPT ![r] = NewRun(v, n, "pending", now)]
  BY <1>3
<1>5. NewRun(v, n, "pending", now).availableAt # Infinity
  BY <1>1, NewRunNeedsNoWait
<1> QED
  BY <1>2, <1>4, <1>5, OneRunKeeps

LEMMA WorkersKeepWaits ==
  ASSUME IInv, WaitInv, NEW r \in RunId,
         \/ CompleteRun(r)
         \/ \E at \in Nat : ScheduleRun(r, at)
         \/ \E by : ExtendClaim(r, by)
         \/ \E s, e : AwaitResolves(r, s, e)
         \/ \E s : \E e \in EventName : AwaitTimesOut(r, s, e)
         \/ \E s, p, by : SetTaskCheckpointState(r, s, p, by)
  PROVE  WaitInv'
<1>1. run[r] \in RunRow
  BY DEF IInv, TypeOK
<1>2. CASE CompleteRun(r)
  <2>1. [run[r] EXCEPT !.state = "completed", !.completedAt = now].state = "completed"
    BY <1>1 DEF RunRow
  <2> QED
    BY <1>2, <2>1, OneRunKeeps DEF CompleteRun, LiveState
<1>3. ASSUME NEW at \in Nat, ScheduleRun(r, at) PROVE WaitInv'
  <2>1. [run[r] EXCEPT !.state = "sleeping", !.claimExpires = Null,
                       !.availableAt = at, !.wakeEvent = Null].availableAt # Infinity
    BY <1>1, Distinct DEF RunRow
  <2> QED
    BY <1>3, <2>1, OneRunKeeps DEF ScheduleRun
<1>4. ASSUME NEW row, run[r].state = "running", run' = [run EXCEPT ![r] = row],
             row.state = run[r].state, row.availableAt = run[r].availableAt,
             UNCHANGED wait,
             \A e \in EventName : event'[e].state = "emitted" => event[e].state = "emitted"
      PROVE  WaitInv'
  BY <1>4, OneRunKeeps DEF NeedsWait, Live
<1>5. ASSUME NEW by, ExtendClaim(r, by) PROVE WaitInv'
  BY <1>1, <1>4, <1>5 DEF ExtendClaim, RunRow
<1>6. ASSUME NEW s, NEW e, AwaitResolves(r, s, e) PROVE WaitInv'
  BY <1>1, <1>4, <1>6 DEF AwaitResolves, MayAwait, WithEventRow, RunRow
<1>7. ASSUME NEW s, NEW e \in EventName, AwaitTimesOut(r, s, e) PROVE WaitInv'
  <2>1. \A x \in EventName : event'[x].state = "emitted" => event[x].state = "emitted"
    BY <1>7 DEF AwaitTimesOut, WithEventRow, NoEvent, IInv, TypeOK
  <2> QED
    BY <1>1, <1>4, <1>7, <2>1 DEF AwaitTimesOut, MayAwait, RunRow
<1>8. ASSUME NEW s, NEW p, NEW by, SetTaskCheckpointState(r, s, p, by) PROVE WaitInv'
  <2>1. CASE run' = run
    BY <1>8, <2>1, QuietKeeps DEF SetTaskCheckpointState
  <2>2. CASE run' # run
    BY <1>1, <1>4, <1>8, <2>2 DEF SetTaskCheckpointState, ExtendedRuns, RunRow
  <2> QED
    BY <2>1, <2>2
<1> QED
  BY <1>2, <1>3, <1>5, <1>6, <1>7, <1>8

\* The new wait and the parked run agree, and the event is not emitted.
LEMMA ParkKeepsWaits ==
  ASSUME IInv, WaitInv, NEW r \in RunId, NEW s \in StepName, NEW e \in EventName,
         NEW d \in NatOrNull, AwaitParks(r, s, e, d)
  PROVE  WaitInv'
<1> DEFINE at == IF d = Null THEN Null ELSE now + d
           new == [task |-> run[r].task, run |-> r, step |-> s, event |-> e,
                   timeoutAt |-> at]
           row == [run[r] EXCEPT !.state = "sleeping", !.claimExpires = Null,
                                 !.availableAt = Coalesce(at, Infinity),
                                 !.wakeEvent = e, !.eventPayload = Null]
<1>1. run[r] \in RunRow /\ run \in [RunId -> RunRow] /\ run[r].state = "running"
  BY DEF IInv, TypeOK, AwaitParks, MayAwait
<1>2. \A w \in wait : w \in WaitRow /\ w.run # r
  BY <1>1 DEF IInv, TypeOK, WaitInv, WaitsAreOfParkedRuns
<1>3. wait' = wait \union {new}
  BY <1>2 DEF AwaitParks
<1>4. run' = [run EXCEPT ![r] = row]
  BY DEF AwaitParks
<1>5. /\ row.state = "sleeping" /\ row.task = run[r].task /\ row.wakeEvent = e
      /\ row.availableAt = Coalesce(at, Infinity)
  BY <1>1 DEF RunRow
<1>6. Coalesce(at, Infinity) = Infinity => at = Null
  <2>1. now \in Nat
    BY DEF IInv, TypeOK
  <2> QED
    BY <2>1, Distinct DEF Coalesce, NatOrNull
<1>7. /\ event' = WithEventRow(e) /\ event[e].state # "emitted"
      /\ \A x \in EventName : event'[x].state = "emitted" => event[x].state = "emitted"
  BY DEF AwaitParks, Unemitted, WithEventRow, NoEvent, IInv, TypeOK
<1> HIDE DEF row, at
<1>8. new.run = r /\ new.task = run[r].task /\ new.event = e /\ new.timeoutAt = at
  OBVIOUS
<1> HIDE DEF new
<1>9. \A w \in wait : /\ w.run \in RunId /\ w.event \in EventName
                      /\ run'[w.run] = run[w.run]
  BY <1>1, <1>2, <1>4, WakeTime
<1>10. run'[r] = row
  BY <1>1, <1>4
<1>11. WaitsAreOfParkedRuns'
  <2> SUFFICES ASSUME NEW w \in wait'
               PROVE  /\ run'[w.run].state = "sleeping"
                      /\ run'[w.run].task = w.task
                      /\ run'[w.run].wakeEvent = w.event
                      /\ run'[w.run].availableAt = Coalesce(w.timeoutAt, Infinity)
    BY DEF WaitsAreOfParkedRuns
  <2>1. CASE w = new
    BY <1>5, <1>8, <1>10, <2>1
  <2>2. CASE w \in wait
    BY <1>9, <2>2 DEF WaitInv, WaitsAreOfParkedRuns
  <2> QED
    BY <1>3, <2>1, <2>2
<1>12. EmittedEventHasNoLiveWait'
  BY <1>3, <1>7, <1>8, <1>9 DEF WaitInv, EmittedEventHasNoLiveWait
<1>13. NoLostWakeup'
  <2> SUFFICES ASSUME NEW x \in RunId, Live(run', x), run'[x].availableAt = Infinity
               PROVE  \E w \in wait' : /\ w.run = x /\ w.timeoutAt = Null
                                       /\ event'[w.event].state # "emitted"
    BY DEF NoLostWakeup
  <2>1. CASE x = r
    <3>1. at = Null
      BY <1>5, <1>6, <1>10, <2>1
    <3> QED
      BY <1>3, <1>7, <1>8, <2>1, <3>1
  <2>2. CASE x # r
    <3>1. run'[x] = run[x]
      BY <1>1, <1>4, <2>2
    <3>2. PICK w \in wait : /\ w.run = x /\ w.timeoutAt = Null
                            /\ event[w.event].state # "emitted"
      BY <3>1 DEF WaitInv, NoLostWakeup, Live
    <3> QED
      BY <1>3, <1>7, <1>9, <3>2
  <2> QED
    BY <2>1, <2>2
<1> QED
  BY <1>11, <1>12, <1>13 DEF WaitInv

\* An emission serves every wait for its event that has not timed out.
LEMMA EmissionServes ==
  ASSUME WaitInv, NEW e
  PROVE  \A w \in AffectedWaits(e) : w.run \in RunId => w.run \in WokenRuns(e)
BY DEF AffectedWaits, WokenRuns, WaitInv, WaitsAreOfParkedRuns

LEMMA EmitKeepsWaits ==
  ASSUME IInv, WaitInv, NEW e \in EventName, NEW p \in Payload, EmitEvent(e, p)
  PROVE  WaitInv'
<1>1. \A w \in wait : w \in WaitRow /\ w.run \in RunId /\ w.event \in EventName
  BY WakeTime DEF IInv, TypeOK
<1>2. wait' = {w \in wait : w.event # e}
  <2>1. AffectedWaits(e) \subseteq wait
    BY DEF AffectedWaits
  <2> QED
    BY <1>1, <2>1, EmissionServes DEF EmitEvent
<1>3. /\ event' = [event EXCEPT ![e] = [state |-> "emitted", payload |-> p,
                                        emittedAt |-> now]]
      /\ event \in [EventName -> EventRow]
  BY DEF EmitEvent, IInv, TypeOK
<1>4. \A x \in EventName : x # e => event'[x] = event[x]
  BY <1>3
<1>5. \A r \in RunId : r \notin WokenRuns(e) => run'[r] = run[r]
  BY DEF EmitEvent
<1>6. \A r \in WokenRuns(e) : run'[r].availableAt # Infinity
  <2>1. now \in Nat /\ run \in [RunId -> RunRow]
    BY DEF IInv, TypeOK
  <2>2. \A r \in WokenRuns(e) : r \in RunId /\ run[r] \in RunRow
    BY <2>1 DEF WokenRuns
  <2>3. \A r \in WokenRuns(e) : run'[r].availableAt = now
    BY <2>2 DEF EmitEvent, RunRow
  <2> QED
    BY <2>1, <2>3, Distinct
<1>7. ASSUME NEW w \in wait, w.event # e PROVE w.run \notin WokenRuns(e)
  <2> SUFFICES ASSUME NEW v \in wait, v.event = e, v.run = w.run PROVE FALSE
    BY DEF WokenRuns, AffectedWaits
  <2> QED
    BY <1>7 DEF WaitInv, WaitsAreOfParkedRuns
<1>8. WaitsAreOfParkedRuns'
  BY <1>1, <1>2, <1>5, <1>7 DEF WaitInv, WaitsAreOfParkedRuns
<1>9. EmittedEventHasNoLiveWait'
  BY <1>1, <1>2, <1>4 DEF WaitInv, EmittedEventHasNoLiveWait
<1>10. NoLostWakeup'
  <2> SUFFICES ASSUME NEW r \in RunId, Live(run', r), run'[r].availableAt = Infinity
               PROVE  \E w \in wait' : /\ w.run = r /\ w.timeoutAt = Null
                                       /\ event'[w.event].state # "emitted"
    BY DEF NoLostWakeup
  <2>1. r \notin WokenRuns(e) /\ run'[r] = run[r]
    BY <1>5, <1>6
  <2>2. PICK w \in wait : /\ w.run = r /\ w.timeoutAt = Null
                          /\ event[w.event].state # "emitted"
    BY <2>1 DEF WaitInv, NoLostWakeup, Live
  <2>3. w.event # e
    <3> SUFFICES ASSUME w.event = e PROVE FALSE
      OBVIOUS
    <3>1. w \in AffectedWaits(e)
      BY <2>2 DEF AffectedWaits, Reached
    <3> QED
      BY <2>1, <2>2, <3>1, EmissionServes
  <2> QED
    BY <1>1, <1>2, <1>4, <2>2, <2>3
<1> QED
  BY <1>8, <1>9, <1>10 DEF WaitInv

-----------------------------------------------------------------------------
(* What becomes of a run when tasks are cancelled, when runs fail and when *)
(* runs are claimed.                                                       *)

IsCancelled(tk, rn, T, r) ==
  Live(rn, r) /\ rn[r].task \in T /\ tk[rn[r].task].state \in LiveState

LEMMA CancelRow ==
  ASSUME NEW tk, NEW rn, TablesOK(tk, rn), NEW T, NEW r \in RunId
  PROVE  LET new == CancelRuns(tk, rn, T)[r]
         IN  IF IsCancelled(tk, rn, T, r)
             THEN new.state = "cancelled" /\ new.task = rn[r].task
                  /\ new.attempt = rn[r].attempt
             ELSE new = rn[r]
<1>1. rn[r] \in RunRow
  BY DEF TablesOK
<1> QED
  BY <1>1 DEF CancelRuns, IsCancelled, RunRow

IsSuccessor(rn, R, old, new) ==
  /\ old.state = "absent" /\ new.state \in {"pending", "sleeping"}
  /\ new.availableAt \in Nat
  /\ \E q \in R : new.task = rn[q].task

LEMMA FailRow ==
  ASSUME NEW tk, NEW rn, Consistent(tk, rn), now \in Nat,
         NEW R \in SUBSET RunId,
         \A r \in R : rn[r].state \in {"running", "sleeping"},
         NEW at \in NatOrNull,
         NEW fresh \in FreshRuns(rn, Retried(tk, rn, R, at)),
         NEW x \in RunId
  PROVE  LET new == FailRuns(tk, rn, R, at, fresh)[x]
         IN  IF x \in R
             THEN /\ new.state = "failed" /\ new.failedAt = now
                  /\ new.task = rn[x].task /\ new.attempt = rn[x].attempt
             ELSE new = rn[x] \/ IsSuccessor(rn, R, rn[x], new)
<1> DEFINE new == FailRuns(tk, rn, R, at, fresh)[x]
           Again == Retried(tk, rn, R, at)
<1>1. rn[x] \in RunRow
  BY DEF Consistent, TablesOK
<1>2. CASE x \in R
  BY <1>1, <1>2 DEF FailRuns, RunRow
<1>3. CASE x \notin R /\ \E r \in Again : fresh[r] = x
  <2> DEFINE q == CHOOSE r \in Again : fresh[r] = x
             row == tk[rn[q].task]
             outcome == FailOutcome(row, rn[q].attempt, at)
             time == NextAvailable(row, rn[q].attempt, at)
  <2>1. q \in Again /\ fresh[q] = x
    BY <1>3
  <2>2. new = NewRun(rn[q].task, rn[q].attempt + 1, outcome, time)
    BY <1>3 DEF FailRuns
  <2>3. q \in R /\ q \in RunId /\ outcome \in LiveState
    BY <2>1 DEF Retried, OutcomeOf
  <2> HIDE DEF q
  <2>4. Live(rn, q)
    BY <2>3 DEF Live, LiveState
  <2>5. /\ row \in TaskRow /\ row.options \in SpawnOptions /\ rn[q].attempt \in Nat \ {0}
    <3>1. rn[q].task \in TaskId /\ row.state # "absent" /\ rn[q].attempt \in Nat \ {0}
      BY <2>3, <2>4, LiveRunIsLast DEF Live, LiveState
    <3> QED
      BY <3>1 DEF Consistent, TablesOK, OptionsKept
  <2>6. outcome \in {"sleeping", "pending"} /\ time \in Nat
    BY <2>3, <2>5, FailOutcomeType DEF LiveState
  <2>7. rn[x].state = "absent"
    BY <2>1 DEF FreshRuns, Absent
  <2> HIDE DEF row, outcome, time
  <2>8. new.state = outcome /\ new.task = rn[q].task /\ new.availableAt = time
    BY <2>2 DEF NewRun, NoRun
  <2> QED
    BY <1>3, <2>3, <2>6, <2>7, <2>8 DEF IsSuccessor
<1>4. CASE x \notin R /\ ~ \E r \in Again : fresh[r] = x
  BY <1>4 DEF FailRuns
<1> QED
  BY <1>2, <1>3, <1>4

LEMMA ClaimRow ==
  ASSUME NEW rn, NEW C, NEW timeout, NEW r \in RunId, rn[r] \in RunRow
  PROVE  LET new == ClaimRuns(rn, C, timeout)[r]
         IN  IF r \in C
             THEN /\ new.state = "running" /\ new.availableAt = now
                  /\ new.task = rn[r].task /\ new.attempt = rn[r].attempt
             ELSE new = rn[r]
BY DEF ClaimRuns, RunRow

\* claim_task, with all that its stages ask of the runs they choose.
LEMMA ClaimParts ==
  ASSUME NEW timeout, NEW qty, NEW locked, ClaimTask(timeout, qty, locked)
  PROVE  \E R \in SUBSET RunId :
           LET tk1 == CancelTasks(task, Overdue(task))
               rn1 == CancelRuns(task, run, Overdue(task))
           IN  /\ \A r \in R : rn1[r].state = "running" /\ Reached(rn1[r].claimExpires)
               /\ \E fresh \in FreshRuns(rn1, Retried(tk1, rn1, R, Null)),
                     C \in SUBSET RunId :
                    LET tk2 == FailTasks(tk1, rn1, R, Null, fresh)
                        rn2 == FailRuns(tk1, rn1, R, Null, fresh)
                        W == {w \in CancelWaits(task, Overdue(task)) : w.run \notin R}
                    IN  /\ \A r \in C : rn2[r].state \in {"pending", "sleeping"}
                                        /\ Reached(rn2[r].availableAt)
                        /\ task' = ClaimTasks(tk2, rn2, C)
                        /\ run' = ClaimRuns(rn2, C, timeout)
                        /\ wait' = W \ TimedOutWaits(W, C)
<1> DEFINE tk1 == CancelTasks(task, Overdue(task))
           rn1 == CancelRuns(task, run, Overdue(task))
           expired == ExpiredClaims(rn1) \ locked
           leases == [r \in RunId |-> rn1[r].claimExpires]
           tk2(R, fresh) == FailTasks(tk1, rn1, R, Null, fresh)
           rn2(R, fresh) == FailRuns(tk1, rn1, R, Null, fresh)
           due(R, fresh) == Claimable(tk2(R, fresh), rn2(R, fresh)) \ locked
           times(R, fresh) == [r \in RunId |-> rn2(R, fresh)[r].availableAt]
           W(R) == {w \in CancelWaits(task, Overdue(task)) : w.run \notin R}
           Done(R, fresh, C) ==
             /\ task' = ClaimTasks(tk2(R, fresh), rn2(R, fresh), C)
             /\ run' = ClaimRuns(rn2(R, fresh), C, timeout)
             /\ wait' = W(R) \ TimedOutWaits(W(R), C)
<1>1. PICK R \in FirstOf(expired, leases, qty) :
        \E fresh \in FreshRuns(rn1, Retried(tk1, rn1, R, Null)) :
          \E C \in FirstOf(due(R, fresh), times(R, fresh), qty) : Done(R, fresh, C)
  BY DEF ClaimTask
<1>2. PICK fresh \in FreshRuns(rn1, Retried(tk1, rn1, R, Null)) :
        \E C \in FirstOf(due(R, fresh), times(R, fresh), qty) : Done(R, fresh, C)
  BY <1>1
<1>3. PICK C \in FirstOf(due(R, fresh), times(R, fresh), qty) : Done(R, fresh, C)
  BY <1>2
<1>4. /\ R \in SUBSET RunId
      /\ \A r \in R : rn1[r].state = "running" /\ Reached(rn1[r].claimExpires)
  BY DEF FirstOf, ExpiredClaims
<1>5. /\ C \in SUBSET RunId
      /\ \A r \in C : rn2(R, fresh)[r].state \in {"pending", "sleeping"}
                      /\ Reached(rn2(R, fresh)[r].availableAt)
  BY DEF FirstOf, Claimable
<1> HIDE DEF tk1, rn1
<1> QED
  BY <1>3, <1>4, <1>5 DEF tk1, rn1

Cancels(r) == IsCancelled(task, run, Overdue(task), r)

Cancelled(r) == Cancels(r) /\ run'[r].state = "cancelled"

Swept(r) ==
  /\ ~Cancels(r) /\ run[r].state = "running" /\ Reached(run[r].claimExpires)
  /\ run'[r].state = "failed" /\ run'[r].failedAt = now

Taken(r) ==
  /\ ~Cancels(r) /\ run[r].state \in {"pending", "sleeping"}
  /\ Reached(run[r].availableAt)
  /\ run'[r].state = "running" /\ run'[r].availableAt = now

Succeeds(r, R) ==
  /\ run[r].state = "absent" /\ run'[r].state \in {"pending", "sleeping", "running"}
  /\ run'[r].availableAt \in Nat
  /\ \E q \in R : run'[r].task = run[q].task

\* What claim_task does to a run when it sweeps R and claims C.
ClaimEffect(r, R, C) ==
  /\ run[r].state # "absent" =>
       run'[r].task = run[r].task /\ run'[r].attempt = run[r].attempt
  /\ \/ Cancelled(r) /\ r \notin R
     \/ r \in R /\ Swept(r)
     \/ r \in C \ R /\ Taken(r)
     \/ r \notin R /\ Succeeds(r, R)
     \/ r \notin R \union C /\ ~Cancels(r) /\ run'[r] = run[r]

LEMMA ClaimEffects ==
  ASSUME IInv, NEW timeout \in Nat, NEW qty, NEW locked, ClaimTask(timeout, qty, locked)
  PROVE  \E R, C \in SUBSET RunId :
           /\ \A r \in RunId : ClaimEffect(r, R, C)
           /\ LET W == {w \in CancelWaits(task, Overdue(task)) : w.run \notin R}
              IN  wait' = W \ TimedOutWaits(W, C)
<1> DEFINE tk1 == CancelTasks(task, Overdue(task))
           rn1 == CancelRuns(task, run, Overdue(task))
           W(R) == {w \in CancelWaits(task, Overdue(task)) : w.run \notin R}
<1>1. PICK R \in SUBSET RunId :
        /\ \A r \in R : rn1[r].state = "running" /\ Reached(rn1[r].claimExpires)
        /\ \E fresh \in FreshRuns(rn1, Retried(tk1, rn1, R, Null)),
              C \in SUBSET RunId :
             LET tk2 == FailTasks(tk1, rn1, R, Null, fresh)
                 rn2 == FailRuns(tk1, rn1, R, Null, fresh)
             IN  /\ \A r \in C : rn2[r].state \in {"pending", "sleeping"}
                                 /\ Reached(rn2[r].availableAt)
                 /\ task' = ClaimTasks(tk2, rn2, C)
                 /\ run' = ClaimRuns(rn2, C, timeout)
                 /\ wait' = W(R) \ TimedOutWaits(W(R), C)
  BY ClaimParts
<1>2. PICK fresh \in FreshRuns(rn1, Retried(tk1, rn1, R, Null)), C \in SUBSET RunId :
        LET rn2 == FailRuns(tk1, rn1, R, Null, fresh)
        IN  /\ \A r \in C : rn2[r].state \in {"pending", "sleeping"}
                            /\ Reached(rn2[r].availableAt)
            /\ run' = ClaimRuns(rn2, C, timeout)
            /\ wait' = W(R) \ TimedOutWaits(W(R), C)
  BY <1>1
<1> DEFINE rn2 == FailRuns(tk1, rn1, R, Null, fresh)
           tk2 == FailTasks(tk1, rn1, R, Null, fresh)
<1>3. now \in Nat /\ Overdue(task) \in SUBSET TaskId /\ Null \in NatOrNull
  BY DEF IInv, TypeOK, Overdue, NatOrNull
<1>4. Consistent(tk1, rn1)
  BY <1>3, CancelConsistent DEF IInv
<1>5. \A r \in RunId : IF Cancels(r)
                       THEN rn1[r].state = "cancelled" /\ rn1[r].task = run[r].task
                            /\ rn1[r].attempt = run[r].attempt
                       ELSE rn1[r] = run[r]
  BY CancelRow DEF Cancels, IInv, Consistent
<1> HIDE DEF tk1, rn1
<1>6. \A r \in R : rn1[r].state \in {"running", "sleeping"}
  BY <1>1
<1>7. Consistent(tk2, rn2)
  BY <1>3, <1>4, <1>6, FailConsistent
<1>8. \A r \in RunId : IF r \in R
                       THEN /\ rn2[r].state = "failed" /\ rn2[r].failedAt = now
                            /\ rn2[r].task = rn1[r].task /\ rn2[r].attempt = rn1[r].attempt
                       ELSE rn2[r] = rn1[r] \/ IsSuccessor(rn1, R, rn1[r], rn2[r])
  BY <1>3, <1>4, <1>6, FailRow
<1> HIDE DEF rn2, tk2
<1>9. \A r \in RunId : rn2[r] \in RunRow
  BY <1>7 DEF Consistent, TablesOK
<1>10. run' = ClaimRuns(rn2, C, timeout)
  BY <1>2 DEF rn2
<1>11. \A r \in RunId : IF r \in C
                        THEN /\ run'[r].state = "running" /\ run'[r].availableAt = now
                             /\ run'[r].task = rn2[r].task /\ run'[r].attempt = rn2[r].attempt
                        ELSE run'[r] = rn2[r]
  BY <1>9, <1>10, ClaimRow
<1>12. \A r \in C : rn2[r].state \in {"pending", "sleeping"} /\ Reached(rn2[r].availableAt)
  BY <1>2 DEF rn2
<1>13. ASSUME NEW r \in RunId PROVE ClaimEffect(r, R, C)
  <2>1. \A q \in R : ~Cancels(q) /\ rn1[q] = run[q]
    BY <1>1, <1>5
  <2>2. CASE r \in R
    <3>1. r \notin C
      BY <1>8, <1>12, <2>2
    <3>2. ~Cancels(r) /\ rn1[r] = run[r] /\ run'[r] = rn2[r]
      BY <1>11, <2>1, <2>2, <3>1
    <3> QED
      BY <1>1, <1>8, <2>2, <3>2 DEF ClaimEffect, Swept
  <2>3. CASE r \notin R /\ IsSuccessor(rn1, R, rn1[r], rn2[r])
    <3>1. run[r].state = "absent"
      BY <1>5, <2>3 DEF IsSuccessor
    <3>2. run'[r].task = rn2[r].task /\ run'[r].availableAt \in Nat
          /\ run'[r].state \in {"pending", "sleeping", "running"}
      BY <1>3, <1>11, <2>3 DEF IsSuccessor
    <3>3. \E q \in R : rn2[r].task = run[q].task
      BY <2>1, <2>3 DEF IsSuccessor
    <3> QED
      BY <2>3, <3>1, <3>2, <3>3 DEF ClaimEffect, Succeeds
  <2>4. CASE r \notin R /\ rn2[r] = rn1[r] /\ Cancels(r)
    <3>1. r \notin C /\ run'[r] = rn1[r]
      BY <1>5, <1>11, <1>12, <2>4
    <3> QED
      BY <1>5, <2>4, <3>1 DEF ClaimEffect, Cancelled
  <2>5. CASE r \notin R /\ rn2[r] = rn1[r] /\ ~Cancels(r)
    <3>1. rn2[r] = run[r]
      BY <1>5, <2>5
    <3> QED
      BY <1>11, <1>12, <2>5, <3>1 DEF ClaimEffect, Taken
  <2> QED
    BY <1>8, <2>2, <2>3, <2>4, <2>5
<1> QED
  BY <1>2, <1>13

\* A wait survives a poll if its run does not change.
LEMMA ClaimKeepsWaits ==
  ASSUME IInv, WaitInv, NEW timeout \in Nat, NEW qty, NEW locked,
         ClaimTask(timeout, qty, locked)
  PROVE  WaitInv'
<1>1. PICK R, C \in SUBSET RunId :
        /\ \A r \in RunId : ClaimEffect(r, R, C)
        /\ LET W == {w \in CancelWaits(task, Overdue(task)) : w.run \notin R}
           IN  wait' = W \ TimedOutWaits(W, C)
  BY ClaimEffects
<1>2. \A w \in wait : w \in WaitRow /\ w.run \in RunId
  BY WakeTime DEF IInv, TypeOK
<1>3. \A w \in wait : w \in wait' <=>
        /\ ~(w.task \in Overdue(task) /\ task[w.task].state \in LiveState)
        /\ w.run \notin R /\ ~(w.run \in C /\ Reached(w.timeoutAt))
  BY <1>1 DEF CancelWaits, TimedOutWaits
<1>4. wait' \subseteq wait
  BY <1>1 DEF CancelWaits
<1>5. \A w \in wait : /\ run[w.run].state = "sleeping" /\ run[w.run].task = w.task
                      /\ run[w.run].availableAt = Coalesce(w.timeoutAt, Infinity)
  BY DEF WaitInv, WaitsAreOfParkedRuns
<1>6. now \in Nat
  BY DEF IInv, TypeOK
<1>7. ASSUME NEW w \in wait' PROVE run'[w.run] = run[w.run]
  <2>1. /\ w \in wait /\ w.run \in RunId /\ w \in WaitRow /\ w.run \notin R
        /\ ~(w.task \in Overdue(task) /\ task[w.task].state \in LiveState)
        /\ ~(w.run \in C /\ Reached(w.timeoutAt))
    BY <1>2, <1>3, <1>4
  <2>2. ~Cancels(w.run) /\ run[w.run].state = "sleeping"
    BY <1>5, <2>1 DEF Cancels, IsCancelled
  <2>3. Reached(run[w.run].availableAt) <=> Reached(w.timeoutAt)
    BY <1>5, <2>1, WakeTime
  <2> QED
    BY <1>1, <2>1, <2>2, <2>3 DEF ClaimEffect, Cancelled, Taken, Succeeds
<1>8. ASSUME NEW r \in RunId, NeedsWait(run', r)
      PROVE  /\ NeedsWait(run, r)
             /\ \A w \in wait : w.run = r /\ w.timeoutAt = Null => w \in wait'
  <2>1. run'[r].state \in LiveState /\ run'[r].availableAt = Infinity
    BY <1>8 DEF NeedsWait, Live
  <2>2. r \notin R \union C /\ ~Cancels(r) /\ run'[r] = run[r]
    BY <1>1, <1>6, <2>1, Distinct
       DEF ClaimEffect, Cancelled, Swept, Taken, Succeeds, LiveState
  <2>3. NeedsWait(run, r)
    BY <2>1, <2>2 DEF NeedsWait, Live
  <2>4. ASSUME NEW w \in wait, w.run = r, w.timeoutAt = Null PROVE w \in wait'
    <3>1. ~(w.task \in Overdue(task) /\ task[w.task].state \in LiveState)
      BY <1>5, <2>2, <2>3, <2>4 DEF Cancels, IsCancelled, NeedsWait
    <3> QED
      BY <1>3, <2>2, <2>4, <3>1
  <2> QED
    BY <2>3, <2>4
<1>9. UNCHANGED event
  BY DEF ClaimTask
<1> QED
  BY <1>4, <1>7, <1>8, <1>9, QuietKeeps

LEMMA CancelKeepsWaits ==
  ASSUME IInv, WaitInv, NEW t \in TaskId, CancelTask(t)
  PROVE  WaitInv'
<1> DEFINE Goes(r) == IsCancelled(task, run, {t}, r)
<1>1. \A r \in RunId : IF Goes(r) THEN run'[r].state = "cancelled" ELSE run'[r] = run[r]
  BY CancelRow DEF CancelTask, IInv, Consistent
<1>2. \A w \in wait : w \in WaitRow /\ w.run \in RunId
                      /\ run[w.run].state = "sleeping" /\ run[w.run].task = w.task
  BY WakeTime DEF IInv, TypeOK, WaitInv, WaitsAreOfParkedRuns
<1>3. \A w \in wait : w \in wait' <=> ~Goes(w.run)
  BY <1>2 DEF CancelTask, CancelWaits, IsCancelled, Live, LiveState
<1>4. wait' \subseteq wait /\ UNCHANGED event
  BY DEF CancelTask, CancelWaits
<1> HIDE DEF Goes
<1>5. \A w \in wait' : run'[w.run] = run[w.run]
  BY <1>1, <1>2, <1>3, <1>4
<1>6. ASSUME NEW r \in RunId, NeedsWait(run', r)
      PROVE  /\ NeedsWait(run, r)
             /\ \A w \in wait : w.run = r /\ w.timeoutAt = Null => w \in wait'
  <2>1. ~Goes(r) /\ run'[r] = run[r]
    BY <1>1, <1>6 DEF NeedsWait, Live, LiveState
  <2> QED
    BY <1>3, <1>6, <2>1 DEF NeedsWait, Live
<1> QED
  BY <1>4, <1>5, <1>6, QuietKeeps

LEMMA FailKeepsWaits ==
  ASSUME IInv, WaitInv, NEW r \in RunId, NEW at \in NatOrNull, FailRun(r, at)
  PROVE  WaitInv'
<1> DEFINE R == {r}
<1>1. PICK fresh \in FreshRuns(run, Retried(task, run, R, at)) :
        run' = FailRuns(task, run, R, at, fresh)
  BY DEF FailRun
<1>2. now \in Nat /\ R \in SUBSET RunId /\ Consistent(task, run)
  BY DEF IInv, TypeOK
<1>3. \A x \in R : run[x].state \in {"running", "sleeping"}
  BY DEF FailRun
<1>4. wait' = {w \in wait : w.run \notin R} /\ UNCHANGED event
  BY DEF FailRun
<1> HIDE DEF R
<1>5. \A x \in RunId : IF x \in R THEN run'[x].state = "failed"
                       ELSE run'[x] = run[x] \/ IsSuccessor(run, R, run[x], run'[x])
  BY <1>1, <1>2, <1>3, FailRow
<1>6. \A w \in wait : w.run \in RunId /\ run[w.run].state = "sleeping"
  BY WakeTime DEF IInv, TypeOK, WaitInv, WaitsAreOfParkedRuns
<1>7. \A w \in wait' : run'[w.run] = run[w.run]
  BY <1>4, <1>5, <1>6 DEF IsSuccessor
<1>8. ASSUME NEW x \in RunId, NeedsWait(run', x)
      PROVE  /\ NeedsWait(run, x)
             /\ \A w \in wait : w.run = x /\ w.timeoutAt = Null => w \in wait'
  <2>1. x \notin R /\ run'[x] = run[x]
    BY <1>5, <1>8, Distinct DEF NeedsWait, Live, LiveState, IsSuccessor
  <2> QED
    BY <1>4, <1>8, <2>1 DEF NeedsWait, Live
<1> QED
  BY <1>4, <1>7, <1>8, QuietKeeps

\* Deleting old tasks deletes their waits, and nobody needs them any more.
LEMMA DeleteTasksRows ==
  ASSUME NEW ttl, DeleteOldTasks(ttl)
  PROVE  \E D \in SUBSET TaskId :
           /\ \A t \in D : task[t].state \in TerminalState
           /\ task' = [t \in TaskId |-> IF t \in D THEN NoTask ELSE task[t]]
           /\ run' = [r \in RunId |-> IF run[r].task \in D THEN NoRun ELSE run[r]]
           /\ checkpoint' = [c \in TaskId \X StepName |->
                               IF c[1] \in D THEN Null ELSE checkpoint[c]]
           /\ wait' = {w \in wait : w.task \notin D}
<1> DEFINE endedAt == [t \in TaskId |-> TerminalAt(t)]
           old == {t \in TaskId : endedAt[t] # Null /\ endedAt[t] < now - ttl}
<1>1. PICK D \in FirstOf(old, endedAt, CleanupLimit) :
        /\ task' = [t \in TaskId |-> IF t \in D THEN NoTask ELSE task[t]]
        /\ run' = [r \in RunId |-> IF run[r].task \in D THEN NoRun ELSE run[r]]
        /\ checkpoint' = [c \in TaskId \X StepName |->
                            IF c[1] \in D THEN Null ELSE checkpoint[c]]
        /\ wait' = {w \in wait : w.task \notin D}
  BY DEF DeleteOldTasks
<1>2. D \subseteq old
  BY DEF FirstOf
<1>3. ASSUME NEW t \in D PROVE t \in TaskId /\ TerminalAt(t) # Null
  BY <1>2
<1>4. ASSUME NEW t \in D PROVE task[t].state \in TerminalState
  BY <1>3 DEF TerminalAt, TerminalState
<1> QED
  BY <1>1, <1>3, <1>4

LEMMA DeletedEvents ==
  ASSUME NEW ttl, DeleteOldEvents(ttl), NEW e \in EventName
  PROVE  event'[e] = event[e] \/ event'[e].state = "absent"
BY DEF DeleteOldEvents, NoEvent

LEMMA CleanupKeepsWaits ==
  ASSUME IInv, WaitInv, CleanupStep
  PROVE  WaitInv'
<1>1. PICK ttl : CleanupTasks(ttl) \/ CleanupEvents(ttl) \/ CleanupQueue(ttl)
  BY DEF CleanupStep
<1>2. \A e \in EventName : event'[e].state = "emitted" => event[e].state = "emitted"
  BY <1>1, DeletedEvents DEF CleanupTasks, CleanupEvents, CleanupQueue
<1>3. CASE CleanupEvents(ttl)
  BY <1>2, <1>3, QuietKeeps DEF CleanupEvents
<1>4. CASE DeleteOldTasks(ttl)
  <2>1. PICK D \in SUBSET TaskId :
          /\ run' = [r \in RunId |-> IF run[r].task \in D THEN NoRun ELSE run[r]]
          /\ wait' = {w \in wait : w.task \notin D}
    BY <1>4, DeleteTasksRows
  <2>2. \A w \in wait : w.run \in RunId /\ run[w.run].task = w.task
    BY WakeTime DEF IInv, TypeOK, WaitInv, WaitsAreOfParkedRuns
  <2>3. \A w \in wait' : run'[w.run] = run[w.run]
    BY <2>1, <2>2
  <2>4. ASSUME NEW r \in RunId, NeedsWait(run', r)
        PROVE  /\ NeedsWait(run, r)
               /\ \A w \in wait : w.run = r /\ w.timeoutAt = Null => w \in wait'
    <3>1. run[r].task \notin D /\ run'[r] = run[r]
      BY <2>1, <2>4 DEF NeedsWait, Live, LiveState, NoRun
    <3> QED
      BY <2>1, <2>2, <2>4, <3>1 DEF NeedsWait, Live
  <2> QED
    BY <1>2, <2>1, <2>3, <2>4, QuietKeeps
<1> QED
  BY <1>1, <1>3, <1>4 DEF CleanupTasks, CleanupQueue

LEMMA NextKeepsWaits == IInv /\ WaitInv /\ [Next]_vars => WaitInv'
<1> SUFFICES ASSUME IInv, WaitInv, [Next]_vars PROVE WaitInv'
  OBVIOUS
<1>1. now \in Nat
  BY DEF IInv, TypeOK
<1>2. CASE ClientStep
  BY <1>2, SpawnsKeepWaits, CancelKeepsWaits, EmitKeepsWaits DEF ClientStep
<1>3. CASE PollStep
  BY <1>3, ArgumentAssumption, ClaimKeepsWaits DEF PollStep
<1>4. CASE WorkerStep
  <2>1. \A d \in WakeDelays : now + d \in Nat
    BY <1>1, ArgumentAssumption
  <2>2. \A d \in RetryAfters : After(d) \in NatOrNull
    BY <1>1, ArgumentAssumption, AfterType
  <2>3. ASSUME NEW r \in RunId, NEW s \in StepName, NEW e \in EventName,
               NEW d \in AwaitTimeouts, AwaitEvent(r, s, e, d)
        PROVE  WaitInv'
    <3>1. d \in NatOrNull
      BY ArgumentAssumption
    <3>2. CASE AwaitParks(r, s, e, d)
      BY <3>1, <3>2, ParkKeepsWaits
    <3>3. CASE AwaitResolves(r, s, e)
      BY <3>3, WorkersKeepWaits
    <3>4. CASE AwaitTimesOut(r, s, e)
      BY <3>4, WorkersKeepWaits
    <3> QED
      BY <2>3, <3>2, <3>3, <3>4 DEF AwaitEvent
  <2>4. ASSUME NEW r \in RunId, NEW d \in RetryAfters, FailRun(r, After(d)) PROVE WaitInv'
    BY <2>2, <2>4, FailKeepsWaits
  <2>5. ASSUME NEW r \in RunId, NEW d \in WakeDelays, ScheduleRun(r, now + d)
        PROVE  WaitInv'
    BY <2>1, <2>5, WorkersKeepWaits
  <2>6. ASSUME NEW r \in RunId, CompleteRun(r) PROVE WaitInv'
    BY <2>6, WorkersKeepWaits
  <2>7. ASSUME NEW r \in RunId, NEW s, NEW p, NEW by, SetTaskCheckpointState(r, s, p, by)
        PROVE  WaitInv'
    BY <2>7, WorkersKeepWaits
  <2>8. ASSUME NEW r \in RunId, NEW by, ExtendClaim(r, by) PROVE WaitInv'
    BY <2>8, WorkersKeepWaits
  <2> QED
    BY <1>4, <2>3, <2>4, <2>5, <2>6, <2>7, <2>8 DEF WorkerStep
<1>5. CASE CleanupStep
  BY <1>5, CleanupKeepsWaits
<1>6. CASE Tick \/ UNCHANGED vars
  BY <1>6, QuietKeeps DEF Tick, vars
<1> QED
  BY <1>2, <1>3, <1>4, <1>5, <1>6 DEF Next

LEMMA SpecWaitInv == Spec => []WaitInv
<1>1. Init => WaitInv
  BY DEF Init, NoRun, WaitInv, WaitsAreOfParkedRuns, NoLostWakeup,
         EmittedEventHasNoLiveWait, Live, LiveState
<1>2. IInv /\ WaitInv /\ [Next]_vars => WaitInv'
  BY NextKeepsWaits
<1> QED
  BY <1>1, <1>2, SpecIInv, PTL DEF Spec

\* Every wait is of a run that is parked on that event until that time:
\* await_event, complete_run, fail_run, claim_task, cancel_task, emit_event
\* and cleanup_tasks each delete the waits of the runs that they move on.
THEOREM WaitsBelongToParkedRuns == Spec => []WaitsAreOfParkedRuns
<1>1. WaitInv => WaitsAreOfParkedRuns
  BY DEF WaitInv
<1> QED
  BY <1>1, SpecWaitInv, PTL

\* A run that sleeps without a time to wake waits for an event that is not
\* emitted: await_event does not park beside an emitted event, and
\* emit_event wakes everybody who waits.
THEOREM NoWakeupIsLost == Spec => []NoLostWakeup
<1>1. WaitInv => NoLostWakeup
  BY DEF WaitInv
<1> QED
  BY <1>1, SpecWaitInv, PTL

\* Nobody waits, with or without a timeout, for an event that is emitted.
THEOREM EmissionsServeEveryWait == Spec => []EmittedEventHasNoLiveWait
<1>1. WaitInv => EmittedEventHasNoLiveWait
  BY DEF WaitInv
<1> QED
  BY <1>1, SpecWaitInv, PTL
-----------------------------------------------------------------------------
(* Runs: who starts them, and what every call leaves of them.              *)

\* A run that exists goes on existing, as the same attempt at the same task,
\* and none starts.
MovesOn(r) ==
  /\ run[r].state # "absent" =>
       /\ run'[r].state # "absent"
       /\ run'[r].task = run[r].task /\ run'[r].attempt = run[r].attempt
  /\ run'[r].state = "running" => run[r].state = "running"

LEMMA SameMovesOn ==
  ASSUME NEW r, run'[r] = run[r]
  PROVE  MovesOn(r)
BY DEF MovesOn

\* One row is written.
LEMMA OneMovesOn ==
  ASSUME IInv, NEW r \in RunId, NEW row, run' = [run EXCEPT ![r] = row],
         run[r].state # "absent" =>
           /\ row.state # "absent"
           /\ row.task = run[r].task /\ row.attempt = run[r].attempt,
         row.state = "running" => run[r].state = "running"
  PROVE  \A x \in RunId : MovesOn(x)
BY DEF IInv, TypeOK, MovesOn

LEMMA ClientMovesOn == IInv /\ ClientStep => \A r \in RunId : MovesOn(r)
<1> SUFFICES ASSUME IInv, ClientStep PROVE \A r \in RunId : MovesOn(r)
  OBVIOUS
<1>1. ASSUME NEW r \in RunId, NEW t, NEW n, run[r].state = "absent",
             run' = [run EXCEPT ![r] = NewRun(t, n, "pending", now)]
      PROVE  \A x \in RunId : MovesOn(x)
  <2>1. NewRun(t, n, "pending", now).state = "pending"
    BY DEF NewRun, NoRun
  <2> QED
    BY <1>1, <2>1, OneMovesOn
<1>2. ASSUME NEW t \in TaskId, CancelTask(t) PROVE \A r \in RunId : MovesOn(r)
  <2> SUFFICES ASSUME NEW r \in RunId PROVE MovesOn(r)
    OBVIOUS
  <2>1. IF IsCancelled(task, run, {t}, r)
        THEN run'[r].state = "cancelled" /\ run'[r].task = run[r].task
             /\ run'[r].attempt = run[r].attempt
        ELSE run'[r] = run[r]
    BY <1>2, CancelRow DEF CancelTask, IInv, Consistent
  <2> QED
    BY <2>1 DEF MovesOn
<1>3. ASSUME NEW e, NEW p, EmitEvent(e, p), NEW r \in RunId PROVE MovesOn(r)
  <2>1. run[r] \in RunRow
    BY DEF IInv, TypeOK
  <2> QED
    BY <1>3, <2>1 DEF EmitEvent, MovesOn, RunRow
<1> QED
  BY <1>1, <1>2, <1>3 DEF ClientStep, SpawnTask, RetryTask, RetryAsNewTask

LEMMA FailMovesOn ==
  ASSUME IInv, NEW r \in RunId, NEW at \in NatOrNull, FailRun(r, at)
  PROVE  \A x \in RunId : MovesOn(x)
<1> DEFINE R == {r}
<1>1. PICK fresh \in FreshRuns(run, Retried(task, run, R, at)) :
        run' = FailRuns(task, run, R, at, fresh)
  BY DEF FailRun
<1>2. now \in Nat /\ R \in SUBSET RunId /\ Consistent(task, run)
  BY DEF IInv, TypeOK
<1>3. \A x \in R : run[x].state \in {"running", "sleeping"}
  BY DEF FailRun
<1> HIDE DEF R
<1>4. \A x \in RunId : IF x \in R
                       THEN /\ run'[x].state = "failed"
                            /\ run'[x].task = run[x].task
                            /\ run'[x].attempt = run[x].attempt
                       ELSE run'[x] = run[x] \/ IsSuccessor(run, R, run[x], run'[x])
  BY <1>1, <1>2, <1>3, FailRow
<1> QED
  BY <1>4 DEF MovesOn, IsSuccessor

LEMMA WorkerMovesOn == IInv /\ WorkerStep => \A r \in RunId : MovesOn(r)
<1> SUFFICES ASSUME IInv, WorkerStep PROVE \A r \in RunId : MovesOn(r)
  OBVIOUS
<1>1. \A r \in RunId : run[r] \in RunRow
  BY DEF IInv, TypeOK
<1>2. now \in Nat
  BY DEF IInv, TypeOK
<1>3. ASSUME NEW r \in RunId, NEW d \in RetryAfters, FailRun(r, After(d))
      PROVE  \A x \in RunId : MovesOn(x)
  <2>1. After(d) \in NatOrNull
    BY <1>2, ArgumentAssumption, AfterType
  <2> QED
    BY <1>3, <2>1, FailMovesOn
<1>4. ASSUME NEW r \in RunId, NEW row, row.state # "absent",
             row.task = run[r].task, row.attempt = run[r].attempt,
             row.state = "running" => run[r].state = "running",
             run' = [run EXCEPT ![r] = row]
      PROVE  \A x \in RunId : MovesOn(x)
  BY <1>4, OneMovesOn
<1>5. ASSUME NEW r \in RunId, CompleteRun(r) PROVE \A x \in RunId : MovesOn(x)
  BY <1>1, <1>4, <1>5 DEF CompleteRun, RunRow
<1>6. ASSUME NEW r \in RunId, NEW at, ScheduleRun(r, at) PROVE \A x \in RunId : MovesOn(x)
  BY <1>1, <1>4, <1>6 DEF ScheduleRun, RunRow
<1>7. ASSUME NEW r \in RunId, NEW by, ExtendClaim(r, by) PROVE \A x \in RunId : MovesOn(x)
  BY <1>1, <1>4, <1>7 DEF ExtendClaim, RunRow
<1>8. ASSUME NEW r \in RunId, NEW s, NEW p, NEW by, SetTaskCheckpointState(r, s, p, by)
      PROVE  \A x \in RunId : MovesOn(x)
  <2>1. CASE run' = run
    BY <2>1, SameMovesOn
  <2>2. CASE run' # run
    <3>1. /\ run' = [run EXCEPT ![r] = [run[r] EXCEPT !.claimExpires = now + by]]
          /\ run[r].state = "running"
      BY <1>8, <2>2 DEF SetTaskCheckpointState, ExtendedRuns
    <3> QED
      BY <1>1, <1>4, <3>1 DEF RunRow
  <2> QED
    BY <2>1, <2>2
<1>9. ASSUME NEW r \in RunId, NEW s, NEW e, NEW d, AwaitEvent(r, s, e, d)
      PROVE  \A x \in RunId : MovesOn(x)
  <2>1. CASE AwaitResolves(r, s, e)
    BY <1>1, <1>4, <2>1 DEF AwaitResolves, MayAwait, RunRow
  <2>2. CASE AwaitTimesOut(r, s, e)
    BY <1>1, <1>4, <2>2 DEF AwaitTimesOut, MayAwait, RunRow
  <2>3. CASE AwaitParks(r, s, e, d)
    BY <1>1, <1>4, <2>3 DEF AwaitParks, MayAwait, RunRow
  <2> QED
    BY <1>9, <2>1, <2>2, <2>3 DEF AwaitEvent
<1> QED
  BY <1>3, <1>5, <1>6, <1>7, <1>8, <1>9 DEF WorkerStep

\* A poll, with the runs it sweeps and claims.
LEMMA PollEffects ==
  ASSUME IInv, PollStep
  PROVE  /\ UNCHANGED <<checkpoint, event, now>>
         /\ \E R, C \in SUBSET RunId : \A r \in RunId : ClaimEffect(r, R, C)
<1>1. PICK c \in ClaimTimeouts, q \in ClaimQuantities, locked \in SUBSET LiveRuns :
        ClaimTask(c, q, locked)
  BY DEF PollStep
<1>2. c \in Nat
  BY ArgumentAssumption
<1> QED
  BY <1>1, <1>2, ClaimEffects DEF ClaimTask

DeletesTasks ==
  \E D \in SUBSET TaskId :
    /\ \A t \in D : task[t].state \in TerminalState
    /\ task' = [t \in TaskId |-> IF t \in D THEN NoTask ELSE task[t]]
    /\ run' = [r \in RunId |-> IF run[r].task \in D THEN NoRun ELSE run[r]]
    /\ checkpoint' = [c \in TaskId \X StepName |->
                        IF c[1] \in D THEN Null ELSE checkpoint[c]]

\* Cleanup deletes ended tasks with their runs and checkpoints, or no task.
LEMMA CleanupDeletes ==
  CleanupStep => DeletesTasks \/ UNCHANGED <<task, run, checkpoint>>
<1> SUFFICES ASSUME NEW ttl, CleanupTasks(ttl) \/ CleanupEvents(ttl) \/ CleanupQueue(ttl)
             PROVE  DeletesTasks \/ UNCHANGED <<task, run, checkpoint>>
  BY DEF CleanupStep
<1>1. CASE DeleteOldTasks(ttl)
  BY <1>1, DeleteTasksRows DEF DeletesTasks
<1> QED
  BY <1>1 DEF CleanupTasks, CleanupEvents, CleanupQueue

HonouredStep ==
  PollStep => \A r \in RunId :
    run[r].state = "running" /\ run'[r].state # "running" =>
      Reached(run[r].claimExpires) \/ run[r].task \in Overdue(task)

LEMMA NextHonours == IInv /\ [Next]_vars => HonouredStep
<1> SUFFICES ASSUME IInv, PollStep, NEW r \in RunId, run[r].state = "running",
                    run'[r].state # "running"
             PROVE  Reached(run[r].claimExpires) \/ run[r].task \in Overdue(task)
  BY DEF HonouredStep
<1>1. PICK R, C \in SUBSET RunId : \A x \in RunId : ClaimEffect(x, R, C)
  BY PollEffects
<1> QED
  BY <1>1 DEF ClaimEffect, Cancelled, Swept, Taken, Succeeds, Cancels, IsCancelled

\* claim_task takes a run from its worker only when the claim has expired or
\* the task's cancellation rules ask for it, in polls of any size, past any
\* rows that other transactions hold.
THEOREM ClaimsAreKept == Spec => ClaimsAreHonoured
<1>1. IInv /\ [Next]_vars => [HonouredStep]_vars
  BY NextHonours
<1> QED
  BY <1>1, SpecIInv, PTL DEF Spec, ClaimsAreHonoured, HonouredStep

InTimeStep ==
  \A r \in RunId : run[r].state # "running" /\ run'[r].state = "running" =>
    LET row == task[run'[r].task]
        since == IF row.firstStarted = Null THEN row.enqueueAt ELSE row.firstStarted
        limit == IF row.firstStarted = Null THEN row.options.maxDelay
                 ELSE row.options.maxDuration
    IN  limit # Null => now - since < limit

\* A live task that is not overdue is within its limits.
LEMMA InTime ==
  ASSUME IInv, NEW t \in TaskId, task[t].state \in LiveState, t \notin Overdue(task)
  PROVE  LET row == task[t]
             since == IF row.firstStarted = Null THEN row.enqueueAt
                      ELSE row.firstStarted
             limit == IF row.firstStarted = Null THEN row.options.maxDelay
                      ELSE row.options.maxDuration
         IN  limit # Null => now - since < limit
<1>1. task[t] \in TaskRow /\ task[t].options \in OptionRecord /\ now \in Nat
  BY OptionAssumption DEF IInv, TypeOK, Consistent, OptionsKept, LiveState
<1>2. CASE task[t].firstStarted = Null
  <2>1. task[t].options.maxDelay # Null => ~(now - task[t].enqueueAt >= task[t].options.maxDelay)
    BY <1>2 DEF Overdue
  <2>2. /\ task[t].enqueueAt \in Nat
        /\ task[t].options.maxDelay # Null => task[t].options.maxDelay \in Nat
    BY <1>1 DEF TaskRow, OptionRecord, NatOrNull
  <2> QED
    BY <1>1, <1>2, <2>1, <2>2
<1>3. CASE task[t].firstStarted # Null
  <2>1. task[t].options.maxDuration # Null =>
          ~(now - task[t].firstStarted >= task[t].options.maxDuration)
    BY <1>3 DEF Overdue, OutlivesMaxDuration
  <2>2. /\ task[t].firstStarted \in Nat
        /\ task[t].options.maxDuration # Null => task[t].options.maxDuration \in Nat
    BY <1>1, <1>3 DEF TaskRow, OptionRecord, NatOrNull
  <2> QED
    BY <1>1, <1>3, <2>1, <2>2
<1> QED
  BY <1>2, <1>3

LEMMA NextInTime == IInv /\ [Next]_vars => InTimeStep
<1> SUFFICES ASSUME IInv, [Next]_vars, NEW r \in RunId,
                    run[r].state # "running", run'[r].state = "running"
             PROVE  LET row == task[run'[r].task]
                        since == IF row.firstStarted = Null THEN row.enqueueAt
                                 ELSE row.firstStarted
                        limit == IF row.firstStarted = Null THEN row.options.maxDelay
                                 ELSE row.options.maxDuration
                    IN  limit # Null => now - since < limit
  BY DEF InTimeStep
<1>1. PollStep
  <2>1. ~(ClientStep \/ WorkerStep)
    BY ClientMovesOn, WorkerMovesOn DEF MovesOn
  <2>2. ~CleanupStep
    BY CleanupDeletes DEF DeletesTasks, NoRun
  <2> QED
    BY <2>1, <2>2 DEF Next, Tick, vars
<1>2. PICK R, C \in SUBSET RunId : \A x \in RunId : ClaimEffect(x, R, C)
  BY <1>1, PollEffects
<1>3. \E q \in RunId : /\ Live(run, q) /\ ~Cancels(q)
                       /\ run'[r].task = run[q].task
  <2>1. CASE Succeeds(r, R)
    <3>1. PICK q \in R : run'[r].task = run[q].task
      BY <2>1 DEF Succeeds
    <3>2. ~Cancels(q) /\ Live(run, q)
      BY <1>2, <3>1 DEF ClaimEffect, Cancelled, Swept, Taken, Succeeds, Live, LiveState
    <3> QED
      BY <3>1, <3>2
  <2>2. CASE Taken(r)
    <3>1. ~Cancels(r) /\ Live(run, r)
      BY <2>2 DEF Taken, Live, LiveState
    <3>2. run'[r].task = run[r].task
      BY <1>2, <3>1 DEF ClaimEffect, Live, LiveState
    <3> QED
      BY <3>1, <3>2
  <2> QED
    BY <1>2, <2>1, <2>2 DEF ClaimEffect, Cancelled, Swept
<1>4. PICK q \in RunId : Live(run, q) /\ ~Cancels(q) /\ run'[r].task = run[q].task
  BY <1>3
<1>5. run[q].task \in TaskId /\ task[run[q].task].state \in LiveState
  BY <1>4, LiveRunIsLast DEF IInv, Live
<1>6. run[q].task \notin Overdue(task)
  BY <1>4, <1>5 DEF Cancels, IsCancelled
<1> QED
  BY <1>4, <1>5, <1>6, InTime

\* No attempt starts past max_delay or max_duration, whichever call made the
\* run due and even if it is the successor of a claim swept in the same poll.
THEOREM AttemptsStartInTime == Spec => RunsStartInTime
<1>1. IInv /\ [Next]_vars => [InTimeStep]_vars
  BY NextInTime
<1> QED
  BY <1>1, SpecIInv, PTL DEF Spec, RunsStartInTime, InTimeStep

-----------------------------------------------------------------------------
(* Checkpoints and events.                                                 *)

\* The checkpoint at c is a new one of run r, which is of no earlier attempt
\* than the run that wrote the old one.
Rewrites(c, r) ==
  /\ checkpoint'[c] # Null /\ checkpoint'[c].owner = r
  /\ r \in RunId /\ run[r].state # "absent" /\ run[r].task = c[1]
  /\ checkpoint[c] # Null => run[r].attempt >= run[checkpoint[c].owner].attempt

CheckpointMoves(c) == checkpoint'[c] = checkpoint[c] \/ \E r : Rewrites(c, r)

LEMMA CheckpointCell ==
  ASSUME IInv, CheckpointsHaveOwners, NEW c \in TaskId \X StepName,
         checkpoint[c] # Null
  PROVE  LET owner == checkpoint[c].owner
         IN  /\ owner \in RunId /\ run[owner].state # "absent"
             /\ run[owner].task = c[1] /\ run[owner].attempt \in Nat
<1>1. checkpoint[c] \in CheckpointRow
  BY DEF IInv, TypeOK
<1>2. checkpoint[c].owner \in RunId
  BY <1>1 DEF CheckpointRow
<1>3. run[checkpoint[c].owner] \in RunRow
  BY <1>2 DEF IInv, TypeOK
<1>4. run[checkpoint[c].owner].attempt \in Nat
  BY <1>3 DEF RunRow
<1> QED
  BY <1>2, <1>4 DEF CheckpointsHaveOwners

\* One checkpoint is written, by a run of its task.
LEMMA OneCheckpointMoves ==
  ASSUME IInv, NEW r \in RunId, run[r].state # "absent",
         NEW s \in StepName, NEW p \in Payload,
         checkpoint' = [checkpoint EXCEPT ![<<run[r].task, s>>] =
                          [value |-> p, owner |-> r]],
         LET old == checkpoint[<<run[r].task, s>>]
         IN  old # Null => run[r].attempt >= run[old.owner].attempt
  PROVE  \A c \in TaskId \X StepName : CheckpointMoves(c)
<1> DEFINE cell == <<run[r].task, s>>
<1>1. [value |-> p, owner |-> r] # Null
  BY NullAssumption
<1>2. run[r].task \in TaskId /\ checkpoint \in [TaskId \X StepName -> CheckpointRow]
  BY DEF IInv, TypeOK, Consistent, RunsBelong
<1>3. Rewrites(cell, r)
  BY <1>1, <1>2 DEF Rewrites
<1>4. \A c \in TaskId \X StepName : c # cell => checkpoint'[c] = checkpoint[c]
  BY <1>2
<1> QED
  BY <1>3, <1>4 DEF CheckpointMoves

LEMMA SetCheckpointMoves ==
  ASSUME IInv, CheckpointsHaveOwners, NEW r \in RunId, NEW s \in StepName,
         NEW p \in Payload, NEW by, SetTaskCheckpointState(r, s, p, by)
  PROVE  \A c \in TaskId \X StepName : CheckpointMoves(c)
<1>1. run[r].state # "absent"
  BY DEF SetTaskCheckpointState
<1> DEFINE old == checkpoint[<<run[r].task, s>>]
<1>2. CASE ~MayOverwrite(r, old)
  BY <1>2 DEF SetTaskCheckpointState, CheckpointMoves
<1>3. CASE MayOverwrite(r, old)
  <2>1. checkpoint' = [checkpoint EXCEPT ![<<run[r].task, s>>] =
                         [value |-> p, owner |-> r]]
    BY <1>3 DEF SetTaskCheckpointState
  <2>2. <<run[r].task, s>> \in TaskId \X StepName
    BY <1>1 DEF IInv, Consistent, RunsBelong
  <2>3. old # Null => run[r].attempt >= run[old.owner].attempt
    BY <1>3, <2>2, CheckpointCell DEF MayOverwrite
  <2> HIDE DEF old
  <2> QED
    BY <1>1, <2>1, <2>3, OneCheckpointMoves DEF old
<1> QED
  BY <1>2, <1>3

LEMMA AwaitCheckpointMoves ==
  ASSUME IInv, NEW r \in RunId, NEW s \in StepName, NEW e \in EventName, NEW d,
         AwaitEvent(r, s, e, d)
  PROVE  \A c \in TaskId \X StepName : CheckpointMoves(c)
<1>1. CASE AwaitResolves(r, s, e)
  <2>1. event[e].payload \in Payload /\ run[r].state # "absent"
    BY <1>1 DEF AwaitResolves, MayAwait, IInv, EventsCarryPayload
  <2>2. checkpoint[<<run[r].task, s>>] = Null
    BY <1>1 DEF AwaitResolves, MayAwait
  <2>3. checkpoint' = [checkpoint EXCEPT ![<<run[r].task, s>>] =
                         [value |-> event[e].payload, owner |-> r]]
    BY <1>1 DEF AwaitResolves
  <2> QED
    BY <2>1, <2>2, <2>3, OneCheckpointMoves
<1>2. CASE AwaitTimesOut(r, s, e)
  BY <1>2 DEF AwaitTimesOut, CheckpointMoves
<1>3. CASE AwaitParks(r, s, e, d)
  BY <1>3 DEF AwaitParks, CheckpointMoves
<1> QED
  BY <1>1, <1>2, <1>3 DEF AwaitEvent

\* The run that an emission wakes is its task's last.
LEMMA EmitCheckpointMoves ==
  ASSUME IInv, WaitInv, CheckpointsHaveOwners, NEW e, NEW p \in Payload, EmitEvent(e, p),
         NEW c \in TaskId \X StepName
  PROVE  CheckpointMoves(c)
<1> DEFINE served == {w \in AffectedWaits(e) : w.run \in WokenRuns(e)}
           Mine(w) == w.task = c[1] /\ w.step = c[2]
           mine == CHOOSE w \in served : Mine(w)
<1>1. checkpoint'[c] = IF \E w \in served : Mine(w)
                       THEN [value |-> p, owner |-> mine.run]
                       ELSE checkpoint[c]
  BY DEF EmitEvent
<1>2. CASE ~ \E w \in served : Mine(w)
  BY <1>1, <1>2 DEF CheckpointMoves
<1>3. CASE \E w \in served : Mine(w)
  <2>1. mine \in served /\ Mine(mine)
    BY <1>3
  <2>2. mine \in wait /\ mine.task = c[1]
    BY <2>1 DEF AffectedWaits
  <2> DEFINE r == mine.run
  <2>3. /\ r \in RunId /\ run[r].state = "sleeping" /\ run[r].task = c[1]
    BY <2>2, WakeTime DEF WaitInv, WaitsAreOfParkedRuns, IInv, TypeOK
  <2>4. checkpoint'[c] = [value |-> p, owner |-> r]
    BY <1>1, <1>3
  <2> HIDE DEF mine, served
  <2>5. checkpoint'[c] # Null /\ checkpoint'[c].owner = r
    BY <2>3, <2>4, NullAssumption
  <2>6. ASSUME checkpoint[c] # Null
        PROVE  run[r].attempt >= run[checkpoint[c].owner].attempt
    <3> DEFINE o == checkpoint[c].owner
    <3>1. o \in RunId /\ run[o].state # "absent" /\ run[o].task = c[1]
      BY <2>6, CheckpointCell
    <3>2. run[r].attempt = task[c[1]].attempts
      BY <2>3, LiveRunIsLast DEF IInv, Live, LiveState
    <3>3. run[o].attempt <= task[c[1]].attempts
      BY <3>1 DEF IInv, Consistent, RunsBelong
    <3>4. run[o].attempt \in Nat /\ run[r].attempt \in Nat
      BY <2>3, <3>1 DEF IInv, TypeOK, RunRow
    <3> QED
      BY <3>2, <3>3, <3>4
  <2>7. Rewrites(c, r)
    BY <2>3, <2>5, <2>6 DEF Rewrites
  <2> QED
    BY <2>7 DEF CheckpointMoves
<1> QED
  BY <1>2, <1>3

\* Every step but a cleanup keeps the runs and moves the checkpoints.
Keeps ==
  /\ \A r \in RunId : run[r].state # "absent" =>
       /\ run'[r].state # "absent"
       /\ run'[r].task = run[r].task /\ run'[r].attempt = run[r].attempt
  /\ \A c \in TaskId \X StepName : CheckpointMoves(c)

LEMMA NextKeepsCheckpoints ==
  ASSUME IInv, WaitInv, CheckpointsHaveOwners, [Next]_vars
  PROVE  Keeps \/ DeletesTasks
<1> DEFINE Moves == \A c \in TaskId \X StepName : CheckpointMoves(c)
<1>1. UNCHANGED checkpoint => Moves
  BY DEF CheckpointMoves
<1>2. CASE ClientStep
  <2>1. Moves
    BY <1>1, <1>2, EmitCheckpointMoves
       DEF ClientStep, SpawnTask, RetryTask, RetryAsNewTask, CancelTask
  <2> QED
    BY <1>2, <2>1, ClientMovesOn DEF Keeps, MovesOn
<1>3. CASE WorkerStep
  <2>1. Moves
    BY <1>1, <1>3, SetCheckpointMoves, AwaitCheckpointMoves
       DEF WorkerStep, CompleteRun, ScheduleRun, FailRun, ExtendClaim
  <2> QED
    BY <1>3, <2>1, WorkerMovesOn DEF Keeps, MovesOn
<1>4. CASE PollStep
  <2>1. PICK R, C \in SUBSET RunId : \A r \in RunId : ClaimEffect(r, R, C)
    BY <1>4, PollEffects
  <2>2. ASSUME NEW r \in RunId, run[r].state # "absent"
        PROVE  /\ run'[r].state # "absent"
               /\ run'[r].task = run[r].task /\ run'[r].attempt = run[r].attempt
    BY <2>1, <2>2 DEF ClaimEffect, Cancelled, Swept, Taken, Succeeds
  <2> QED
    BY <1>1, <1>4, <2>2, PollEffects DEF Keeps
<1>5. CASE UNCHANGED <<run, checkpoint>>
  BY <1>1, <1>5 DEF Keeps
<1>6. CASE CleanupStep
  BY <1>5, <1>6, CleanupDeletes
<1> QED
  BY <1>2, <1>3, <1>4, <1>5, <1>6 DEF Next, Tick, vars

LEMMA NextKeepsOwners ==
  IInv /\ WaitInv /\ CheckpointsHaveOwners /\ [Next]_vars => CheckpointsHaveOwners'
<1> SUFFICES ASSUME IInv, WaitInv, CheckpointsHaveOwners, [Next]_vars,
                    NEW c \in TaskId \X StepName, checkpoint'[c] # Null
             PROVE  LET owner == checkpoint'[c].owner
                    IN  run'[owner].state # "absent" /\ run'[owner].task = c[1]
  BY DEF CheckpointsHaveOwners
<1>1. CASE Keeps
  <2>1. CheckpointMoves(c)
    BY <1>1 DEF Keeps
  <2>2. CASE checkpoint'[c] = checkpoint[c]
    BY <1>1, <2>2, CheckpointCell DEF Keeps
  <2>3. CASE \E r : Rewrites(c, r)
    BY <1>1, <2>3 DEF Keeps, Rewrites
  <2> QED
    BY <2>1, <2>2, <2>3 DEF CheckpointMoves
<1>2. CASE DeletesTasks
  <2>1. PICK D \in SUBSET TaskId :
          /\ run' = [r \in RunId |-> IF run[r].task \in D THEN NoRun ELSE run[r]]
          /\ checkpoint' = [x \in TaskId \X StepName |->
                              IF x[1] \in D THEN Null ELSE checkpoint[x]]
    BY <1>2 DEF DeletesTasks
  <2>2. c[1] \notin D /\ checkpoint'[c] = checkpoint[c]
    BY <2>1
  <2> QED
    BY <2>1, <2>2, CheckpointCell
<1> QED
  BY <1>1, <1>2, NextKeepsCheckpoints

LEMMA SpecCheckpointInv == Spec => [](IInv /\ WaitInv /\ CheckpointsHaveOwners)
<1>1. Init => CheckpointsHaveOwners
  BY DEF Init, CheckpointsHaveOwners
<1> QED
  BY <1>1, NextKeepsOwners, SpecIInv, SpecWaitInv, PTL DEF Spec

\* A checkpoint is of a task that exists and was written by a run of it.
THEOREM CheckpointsBelong == Spec => []CheckpointsHaveOwners
BY SpecCheckpointInv, PTL

FirstWinsStep ==
  \A e \in EventName : event[e].state = "emitted" =>
    event'[e] = event[e] \/ event'[e].state = "absent"

LEMMA NextFirstWins == IInv /\ [Next]_vars => FirstWinsStep
<1> SUFFICES ASSUME IInv, [Next]_vars, NEW e \in EventName, event[e].state = "emitted"
             PROVE  event'[e] = event[e] \/ event'[e].state = "absent"
  BY DEF FirstWinsStep
<1>1. CASE UNCHANGED event
  BY <1>1
<1>2. ASSUME NEW x \in EventName, event' = WithEventRow(x)
      PROVE  event'[e] = event[e]
  BY <1>2 DEF WithEventRow
<1>3. CASE ClientStep
  <2>1. ASSUME NEW x \in EventName, NEW p, EmitEvent(x, p) PROVE event'[e] = event[e]
    BY <2>1 DEF EmitEvent, IInv, TypeOK
  <2>2. ASSUME NEW t, NEW u, NEW r, NEW k, NEW o, NEW m,
               \/ SpawnTask(t, r, k, o) \/ RetryTask(t, r, m)
               \/ RetryAsNewTask(t, u, r, m) \/ CancelTask(t)
        PROVE  event'[e] = event[e]
    BY <2>2 DEF SpawnTask, RetryTask, RetryAsNewTask, CancelTask
  <2> QED
    BY <1>3, <2>1, <2>2 DEF ClientStep
<1>4. CASE WorkerStep
  <2>1. ASSUME NEW r, NEW s, NEW x \in EventName, NEW d, AwaitEvent(r, s, x, d)
        PROVE  event' = WithEventRow(x)
    BY <2>1 DEF AwaitEvent, AwaitResolves, AwaitTimesOut, AwaitParks
  <2>2. ASSUME NEW r, NEW s, NEW p, NEW by, SetTaskCheckpointState(r, s, p, by)
        PROVE  UNCHANGED event
    BY <2>2 DEF SetTaskCheckpointState
  <2>3. \/ UNCHANGED event
        \/ \E x \in EventName : event' = WithEventRow(x)
    BY <1>4, <2>1, <2>2 DEF WorkerStep, CompleteRun, ScheduleRun, FailRun, ExtendClaim
  <2> QED
    BY <1>2, <2>3
<1>5. CASE PollStep
  BY <1>1, <1>5 DEF PollStep, ClaimTask
<1>6. CASE CleanupStep
  BY <1>1, <1>6, DeletedEvents DEF CleanupStep, CleanupTasks, CleanupEvents, CleanupQueue
<1> QED
  BY <1>1, <1>3, <1>4, <1>5, <1>6 DEF Next, Tick, vars

\* Nobody replaces the payload of an emitted event: neither a second
\* emission nor the sentinel row that await_event inserts.
THEOREM FirstEmissionStays == Spec => FirstEmissionWins
<1>1. IInv /\ [Next]_vars => [FirstWinsStep]_vars
  BY NextFirstWins
<1> QED
  BY <1>1, SpecIInv, PTL DEF Spec, FirstEmissionWins, FirstWinsStep

-----------------------------------------------------------------------------
(* Dates.  TerminalAt reads a task's end from its last run, so the dates   *)
(* of runs and those of cancelled tasks are what has to be kept.           *)

RunDated(row) ==
  /\ row.state = "completed" => row.completedAt # Null
  /\ row.state = "failed" => row.failedAt # Null

TaskDated(row) == row.state = "cancelled" => row.cancelledAt # Null

DatedInv ==
  /\ \A r \in RunId : RunDated(run[r])
  /\ \A t \in TaskId : TaskDated(task[t])

LEMMA CancelDates ==
  ASSUME NEW tk \in [TaskId -> TaskRow], NEW T, now \in Nat,
         \A t \in TaskId : TaskDated(tk[t])
  PROVE  \A t \in TaskId : TaskDated(CancelTasks(tk, T)[t])
<1> SUFFICES ASSUME NEW t \in TaskId PROVE TaskDated(CancelTasks(tk, T)[t])
  OBVIOUS
<1>1. tk[t] \in TaskRow /\ now # Null
  BY Distinct
<1> QED
  BY <1>1 DEF CancelTasks, TaskDated, TaskRow, Coalesce

LEMMA FailDates ==
  ASSUME NEW tk \in [TaskId -> TaskRow], NEW rn, NEW R, NEW at, NEW fresh,
         now \in Nat, \A t \in TaskId : TaskDated(tk[t])
  PROVE  \A t \in TaskId : TaskDated(FailTasks(tk, rn, R, at, fresh)[t])
<1> SUFFICES ASSUME NEW t \in TaskId
             PROVE  TaskDated(FailTasks(tk, rn, R, at, fresh)[t])
  OBVIOUS
<1>1. CASE t \notin TasksOf(rn, R)
  BY <1>1 DEF FailTasks
<1>2. CASE t \in TasksOf(rn, R)
  <2> DEFINE r == RunOf(rn, R, t)
             outcome == OutcomeOf(tk, rn, r, at)
             retried == outcome \in LiveState
             attempt == rn[r].attempt + (IF retried THEN 1 ELSE 0)
             attempts == Larger(tk[t].attempts, attempt)
             last == IF retried THEN fresh[r] ELSE r
             date == IF outcome = "cancelled" THEN Coalesce(tk[t].cancelledAt, now)
                     ELSE tk[t].cancelledAt
  <2>1. FailTasks(tk, rn, R, at, fresh)[t] =
          [tk[t] EXCEPT !.state = outcome, !.attempts = attempts,
                        !.lastRun = last, !.cancelledAt = date]
    BY <1>2 DEF FailTasks
  <2>2. outcome = "cancelled" => date # Null
    BY Distinct DEF Coalesce
  <2>3. tk[t] \in TaskRow
    OBVIOUS
  <2> HIDE DEF r, outcome, retried, attempts, last, date
  <2> QED
    BY <2>1, <2>2, <2>3 DEF TaskDated, TaskRow
<1> QED
  BY <1>1, <1>2

LEMMA ClaimDates ==
  ASSUME NEW tk \in [TaskId -> TaskRow], NEW rn, NEW C,
         \A t \in TaskId : TaskDated(tk[t])
  PROVE  \A t \in TaskId : TaskDated(ClaimTasks(tk, rn, C)[t])
<1> SUFFICES ASSUME NEW t \in TaskId PROVE TaskDated(ClaimTasks(tk, rn, C)[t])
  OBVIOUS
<1>1. tk[t] \in TaskRow
  OBVIOUS
<1> QED
  BY <1>1 DEF ClaimTasks, TaskDated, TaskRow

LEMMA PollDates ==
  ASSUME IInv, DatedInv, PollStep
  PROVE  DatedInv'
<1>1. now \in Nat /\ now # Null
  BY Distinct DEF IInv, TypeOK
<1>2. PICK R, C \in SUBSET RunId : \A r \in RunId : ClaimEffect(r, R, C)
  BY PollEffects
<1>3. \A r \in RunId : RunDated(run'[r])
  BY <1>1, <1>2 DEF ClaimEffect, Cancelled, Swept, Taken, Succeeds, DatedInv, RunDated
<1>4. PICK c \in ClaimTimeouts, q \in ClaimQuantities, locked \in SUBSET LiveRuns :
        ClaimTask(c, q, locked)
  BY DEF PollStep
<1> DEFINE tk1 == CancelTasks(task, Overdue(task))
           rn1 == CancelRuns(task, run, Overdue(task))
           tk2(S, fresh) == FailTasks(tk1, rn1, S, Null, fresh)
           rn2(S, fresh) == FailRuns(tk1, rn1, S, Null, fresh)
<1>5. PICK S \in SUBSET RunId :
        /\ \A r \in S : rn1[r].state = "running" /\ Reached(rn1[r].claimExpires)
        /\ \E fresh \in FreshRuns(rn1, Retried(tk1, rn1, S, Null)),
              D \in SUBSET RunId :
             task' = ClaimTasks(tk2(S, fresh), rn2(S, fresh), D)
  BY <1>4, ClaimParts
<1>6. PICK fresh \in FreshRuns(rn1, Retried(tk1, rn1, S, Null)), D \in SUBSET RunId :
        task' = ClaimTasks(tk2(S, fresh), rn2(S, fresh), D)
  BY <1>5
<1>7. Consistent(tk1, rn1) /\ tk1 \in [TaskId -> TaskRow]
  <2>1. Overdue(task) \in SUBSET TaskId
    BY DEF Overdue
  <2> QED
    BY <1>1, <2>1, CancelConsistent DEF IInv, Consistent, TablesOK
<1>8. \A t \in TaskId : TaskDated(tk1[t])
  BY <1>1, CancelDates DEF IInv, TypeOK, DatedInv
<1> HIDE DEF tk1, rn1
<1>9. tk2(S, fresh) \in [TaskId -> TaskRow]
  <2>1. \A r \in S : rn1[r].state \in {"running", "sleeping"}
    BY <1>5
  <2>2. Consistent(tk2(S, fresh), rn2(S, fresh))
    BY <1>1, <1>7, <2>1, FailConsistent DEF NatOrNull
  <2> QED
    BY <2>2 DEF Consistent, TablesOK
<1>10. \A t \in TaskId : TaskDated(tk2(S, fresh)[t])
  BY <1>1, <1>7, <1>8, FailDates
<1> HIDE DEF tk2, rn2
<1>11. \A t \in TaskId : TaskDated(task'[t])
  BY <1>6, <1>9, <1>10, ClaimDates
<1> QED
  BY <1>3, <1>11 DEF DatedInv

\* One run and at most its task are written, and the task is not cancelled.
LEMMA OneDates ==
  ASSUME IInv, DatedInv, NEW r \in RunId, NEW row, run' = [run EXCEPT ![r] = row],
         RunDated(run[r]) => RunDated(row),
         NEW t, NEW new, new.state # "cancelled",
         task' = task \/ task' = [task EXCEPT ![t] = new]
  PROVE  DatedInv'
<1>1. \A x \in RunId : RunDated(run'[x])
  BY DEF IInv, TypeOK, DatedInv
<1>2. \A x \in TaskId : TaskDated(task'[x])
  BY DEF IInv, TypeOK, DatedInv, TaskDated
<1> QED
  BY <1>1, <1>2 DEF DatedInv

LEMMA NewRunIsDated ==
  ASSUME NEW t, NEW n, NEW s, s \notin {"completed", "failed"}, NEW at
  PROVE  RunDated(NewRun(t, n, s, at))
BY DEF RunDated, NewRun, NoRun

LEMMA ClientDates == IInv /\ DatedInv /\ ClientStep => DatedInv'
<1> SUFFICES ASSUME IInv, DatedInv, ClientStep PROVE DatedInv'
  OBVIOUS
<1>1. /\ now \in Nat /\ task \in [TaskId -> TaskRow]
      /\ \A t \in TaskId : task[t] \in TaskRow
      /\ \A r \in RunId : run[r] \in RunRow
  BY DEF IInv, TypeOK
<1>2. ASSUME NEW t \in TaskId, NEW u \in TaskId, NEW r \in RunId, NEW n, NEW v, NEW row,
             row.state = "pending",
             run' = [run EXCEPT ![r] = NewRun(v, n, "pending", now)],
             task' = [task EXCEPT ![u] = row]
      PROVE  DatedInv'
  BY <1>2, OneDates, NewRunIsDated
<1>3. ASSUME NEW t \in TaskId, NEW r \in RunId, NEW k, NEW o, SpawnTask(t, r, k, o)
      PROVE  DatedInv'
  BY <1>2, <1>3 DEF SpawnTask, NoTask
<1>4. ASSUME NEW t \in TaskId, NEW r \in RunId, NEW m, RetryTask(t, r, m)
      PROVE  DatedInv'
  BY <1>1, <1>2, <1>4 DEF RetryTask, TaskRow
<1>5. ASSUME NEW t \in TaskId, NEW u \in TaskId, NEW r \in RunId, NEW m,
             RetryAsNewTask(t, u, r, m)
      PROVE  DatedInv'
  BY <1>2, <1>5 DEF RetryAsNewTask, NoTask
<1>6. ASSUME NEW t \in TaskId, CancelTask(t) PROVE DatedInv'
  <2>1. task' = CancelTasks(task, {t}) /\ run' = CancelRuns(task, run, {t})
    BY <1>6 DEF CancelTask
  <2>2. \A x \in TaskId : TaskDated(task'[x])
    BY <1>1, <2>1, CancelDates DEF DatedInv
  <2>3. \A r \in RunId : run'[r].state = "cancelled" \/ run'[r] = run[r]
    BY <2>1, CancelRow DEF IInv, Consistent
  <2> QED
    BY <2>2, <2>3 DEF DatedInv, RunDated
<1>7. ASSUME NEW e, NEW p, EmitEvent(e, p) PROVE DatedInv'
  <2>1. ASSUME NEW r \in RunId PROVE RunDated(run'[r])
    BY <1>1, <1>7 DEF EmitEvent, RunRow, RunDated, DatedInv
  <2>2. ASSUME NEW t \in TaskId PROVE TaskDated(task'[t])
    BY <1>1, <1>7 DEF EmitEvent, TaskRow, TaskDated, DatedInv
  <2> QED
    BY <2>1, <2>2 DEF DatedInv
<1> QED
  BY <1>3, <1>4, <1>5, <1>6, <1>7 DEF ClientStep

LEMMA FailRunDates ==
  ASSUME IInv, DatedInv, NEW r \in RunId, NEW at \in NatOrNull, FailRun(r, at)
  PROVE  DatedInv'
<1> DEFINE R == {r}
<1>1. PICK fresh \in FreshRuns(run, Retried(task, run, R, at)) :
        /\ run' = FailRuns(task, run, R, at, fresh)
        /\ task' = FailTasks(task, run, R, at, fresh)
  BY DEF FailRun
<1>2. /\ now \in Nat /\ now # Null /\ R \in SUBSET RunId
      /\ Consistent(task, run) /\ task \in [TaskId -> TaskRow]
  BY Distinct DEF IInv, TypeOK
<1>3. \A x \in R : run[x].state \in {"running", "sleeping"}
  BY DEF FailRun
<1> HIDE DEF R
<1>4. \A x \in RunId : IF x \in R
                       THEN run'[x].state = "failed" /\ run'[x].failedAt = now
                       ELSE run'[x] = run[x] \/ IsSuccessor(run, R, run[x], run'[x])
  BY <1>1, <1>2, <1>3, FailRow
<1>5. \A x \in RunId : RunDated(run'[x])
  BY <1>2, <1>4 DEF IsSuccessor, RunDated, DatedInv
<1>6. \A t \in TaskId : TaskDated(task'[t])
  BY <1>1, <1>2, FailDates DEF DatedInv
<1> QED
  BY <1>5, <1>6 DEF DatedInv

LEMMA WorkerDates == IInv /\ DatedInv /\ WorkerStep => DatedInv'
<1> SUFFICES ASSUME IInv, DatedInv, WorkerStep PROVE DatedInv'
  OBVIOUS
<1>1. now \in Nat /\ now # Null /\ \A r \in RunId : run[r] \in RunRow
  BY Distinct DEF IInv, TypeOK
<1>2. \A r \in RunId : run[r].state = "running" => task[run[r].task] \in TaskRow
  BY RunRowOf DEF Live, LiveState
<1>3. ASSUME NEW r \in RunId, NEW row, row.completedAt = run[r].completedAt,
             row.state \notin {"completed", "failed"} \/ row.state = run[r].state,
             row.failedAt = run[r].failedAt,
             run' = [run EXCEPT ![r] = row], UNCHANGED task
      PROVE  DatedInv'
  <2>1. RunDated(run[r]) => RunDated(row)
    BY <1>3 DEF RunDated
  <2>2. NoTask.state # "cancelled"
    BY DEF NoTask
  <2> QED
    BY <1>3, <2>1, <2>2, OneDates
<1>4. ASSUME NEW r \in RunId, NEW row, NEW state, run[r].state = "running",
             RunDated(row), state # "cancelled", run' = [run EXCEPT ![r] = row],
             task' = [task EXCEPT ![run[r].task] =
                        [task[run[r].task] EXCEPT !.state = state]]
      PROVE  DatedInv'
  <2> DEFINE new == [task[run[r].task] EXCEPT !.state = state]
  <2>1. new.state = state
    BY <1>2, <1>4 DEF TaskRow
  <2> HIDE DEF new
  <2>2. task' = [task EXCEPT ![run[r].task] = new]
    BY <1>4 DEF new
  <2> QED
    BY <1>4, <2>1, <2>2, OneDates
<1>5. ASSUME NEW r \in RunId, CompleteRun(r) PROVE DatedInv'
  <2> DEFINE row == [run[r] EXCEPT !.state = "completed", !.completedAt = now]
             new == [task[run[r].task] EXCEPT !.state = "completed", !.lastRun = r]
  <2>1. RunDated(row)
    BY <1>1 DEF RunDated, RunRow
  <2>2. new.state # "cancelled"
    BY <1>2, <1>5 DEF CompleteRun, TaskRow
  <2>3. run' = [run EXCEPT ![r] = row] /\ task' = [task EXCEPT ![run[r].task] = new]
    BY <1>5 DEF CompleteRun
  <2> HIDE DEF row, new
  <2> QED
    BY <2>1, <2>2, <2>3, OneDates
<1>6. ASSUME NEW r \in RunId, NEW at, ScheduleRun(r, at) PROVE DatedInv'
  <2> DEFINE row == [run[r] EXCEPT !.state = "sleeping", !.claimExpires = Null,
                                   !.availableAt = at, !.wakeEvent = Null]
  <2>1. RunDated(row)
    BY <1>1 DEF RunDated, RunRow
  <2>2. run' = [run EXCEPT ![r] = row]
    BY <1>6 DEF ScheduleRun
  <2> HIDE DEF row
  <2> QED
    BY <1>4, <1>6, <2>1, <2>2 DEF ScheduleRun
<1>7. ASSUME NEW r \in RunId, NEW by, ExtendClaim(r, by) PROVE DatedInv'
  BY <1>1, <1>3, <1>7 DEF ExtendClaim, RunRow
<1>8. ASSUME NEW r \in RunId, NEW s, NEW p, NEW by, SetTaskCheckpointState(r, s, p, by)
      PROVE  DatedInv'
  <2>1. CASE run' = run
    BY <1>8, <2>1 DEF SetTaskCheckpointState, DatedInv
  <2>2. CASE run' # run
    <3>1. run' = [run EXCEPT ![r] = [run[r] EXCEPT !.claimExpires = now + by]]
      BY <1>8, <2>2 DEF SetTaskCheckpointState, ExtendedRuns
    <3>2. UNCHANGED task
      BY <1>8 DEF SetTaskCheckpointState
    <3> QED
      BY <1>1, <1>3, <3>1, <3>2 DEF RunRow
  <2> QED
    BY <2>1, <2>2
<1>9. ASSUME NEW r \in RunId, NEW s, NEW e, NEW d, AwaitEvent(r, s, e, d)
      PROVE  DatedInv'
  <2>1. CASE AwaitResolves(r, s, e)
    BY <1>1, <1>3, <2>1 DEF AwaitResolves, RunRow
  <2>2. CASE AwaitTimesOut(r, s, e)
    BY <1>1, <1>3, <2>2 DEF AwaitTimesOut, RunRow
  <2>3. CASE AwaitParks(r, s, e, d)
    <3> DEFINE at == Coalesce(IF d = Null THEN Null ELSE now + d, Infinity)
               row == [run[r] EXCEPT !.state = "sleeping", !.claimExpires = Null,
                                     !.availableAt = at, !.wakeEvent = e,
                                     !.eventPayload = Null]
    <3>1. RunDated(row)
      BY <1>1 DEF RunDated, RunRow
    <3>2. run' = [run EXCEPT ![r] = row]
      BY <2>3 DEF AwaitParks
    <3> HIDE DEF row
    <3> QED
      BY <1>4, <2>3, <3>1, <3>2 DEF AwaitParks, MayAwait
  <2> QED
    BY <1>9, <2>1, <2>2, <2>3 DEF AwaitEvent
<1>10. ASSUME NEW r \in RunId, NEW d \in RetryAfters, FailRun(r, After(d))
       PROVE  DatedInv'
  <2>1. After(d) \in NatOrNull
    BY <1>1, ArgumentAssumption, AfterType
  <2> QED
    BY <1>10, <2>1, FailRunDates
<1> QED
  BY <1>5, <1>6, <1>7, <1>8, <1>9, <1>10 DEF WorkerStep

LEMMA NextDates == IInv /\ DatedInv /\ [Next]_vars => DatedInv'
<1> SUFFICES ASSUME IInv, DatedInv, [Next]_vars PROVE DatedInv'
  OBVIOUS
<1>1. CASE UNCHANGED <<task, run>>
  BY <1>1 DEF DatedInv
<1>2. CASE DeletesTasks
  BY <1>2 DEF DeletesTasks, DatedInv, RunDated, TaskDated, NoTask, NoRun
<1>3. CASE CleanupStep
  BY <1>1, <1>2, <1>3, CleanupDeletes
<1> QED
  BY <1>1, <1>3, ClientDates, WorkerDates, PollDates DEF Next, Tick, vars

\* Every task that has ended has a date by which cleanup_tasks finds it,
\* whichever call ended it.
THEOREM EndedTasksAreDated == Spec => []TerminalTasksAreDated
<1>1. Init => DatedInv
  BY DEF Init, NoTask, NoRun, DatedInv, RunDated, TaskDated
<1>2. IInv /\ DatedInv => TerminalTasksAreDated
  BY DEF IInv, Consistent, LastRunMirrors, DatedInv, RunDated, TaskDated,
         TerminalTasksAreDated, TerminalAt, TerminalState
<1> QED
  BY <1>1, <1>2, NextDates, SpecIInv, PTL DEF Spec

=============================================================================

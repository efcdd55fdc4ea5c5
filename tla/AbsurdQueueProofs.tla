------------------------- MODULE AbsurdQueueProofs -------------------------
(* Proofs about AbsurdQueue, for every value of its constants.             *)
EXTENDS AbsurdQueue, TLAPS

(***************************************************************************)
(* The task and run tables alone carry the inductive invariant; claim_task *)
(* passes them through three stages, so each part is stated of any pair of *)
(* tables.                                                                 *)
(***************************************************************************)
TablesOK(tk, rn) ==
  tk \in [TaskId -> TaskRow] /\ rn \in [RunId -> RunRow]

OptionsKept(tk) ==
  \A t \in TaskId : tk[t].state # "absent" => tk[t].options \in SpawnOptions

LastRunMirrors(tk, rn) ==
  \A t \in TaskId : tk[t].state # "absent" =>
    /\ tk[t].lastRun \in RunId
    /\ rn[tk[t].lastRun].task = t
    /\ rn[tk[t].lastRun].attempt = tk[t].attempts
    /\ \/ rn[tk[t].lastRun].state = tk[t].state
       \/ rn[tk[t].lastRun].state = "failed" /\ tk[t].state = "cancelled"

RunsBelong(tk, rn) ==
  \A r \in RunId : rn[r].state # "absent" =>
    /\ rn[r].task \in TaskId
    /\ tk[rn[r].task].state # "absent"
    /\ rn[r].attempt >= 1
    /\ rn[r].attempt <= tk[rn[r].task].attempts
    /\ rn[r].attempt < tk[rn[r].task].attempts => rn[r].state = "failed"

AttemptsDiffer(rn) ==
  \A r, s \in RunId :
    /\ rn[r].state # "absent" /\ rn[s].state # "absent"
    /\ rn[r].task = rn[s].task /\ rn[r].attempt = rn[s].attempt
    => r = s

WithinLimit(row) == row.maxAttempts # Null => row.attempts <= row.maxAttempts

Consistent(tk, rn) ==
  /\ TablesOK(tk, rn)
  /\ OptionsKept(tk)
  /\ LastRunMirrors(tk, rn)
  /\ RunsBelong(tk, rn)
  /\ AttemptsDiffer(rn)
  /\ \A t \in TaskId : WithinLimit(tk[t])

\* A live run is the last run of its task, which is in the same state.
LEMMA LiveRunIsLast ==
  ASSUME NEW tk, NEW rn, Consistent(tk, rn), NEW r \in RunId, Live(rn, r)
  PROVE  /\ rn[r].task \in TaskId
         /\ tk[rn[r].task].lastRun = r
         /\ tk[rn[r].task].attempts = rn[r].attempt
         /\ tk[rn[r].task].state = rn[r].state
         /\ rn[r].attempt \in Nat \ {0}
<1> DEFINE t == rn[r].task
<1>1. rn[r] \in RunRow
  BY DEF Consistent, TablesOK
<1>2. /\ t \in TaskId /\ tk[t].state # "absent"
      /\ rn[r].attempt >= 1
      /\ rn[r].attempt <= tk[t].attempts
      /\ rn[r].attempt < tk[t].attempts => rn[r].state = "failed"
  BY DEF Consistent, RunsBelong, Live, LiveState
<1>3. tk[t] \in TaskRow
  BY <1>2 DEF Consistent, TablesOK
<1>4. rn[r].attempt \in Nat /\ tk[t].attempts \in Nat
  BY <1>1, <1>3 DEF RunRow, TaskRow
<1>5. rn[r].attempt = tk[t].attempts
  BY <1>2, <1>4 DEF Live, LiveState
<1>6. /\ tk[t].lastRun \in RunId
      /\ rn[tk[t].lastRun].task = t
      /\ rn[tk[t].lastRun].attempt = tk[t].attempts
      /\ \/ rn[tk[t].lastRun].state = tk[t].state
         \/ rn[tk[t].lastRun].state = "failed" /\ tk[t].state = "cancelled"
  BY <1>2 DEF Consistent, LastRunMirrors
<1>7. rn[tk[t].lastRun].state # "absent"
  BY <1>2, <1>6
<1>8. tk[t].lastRun = r
  BY <1>5, <1>6, <1>7 DEF Consistent, AttemptsDiffer, Live, LiveState
<1> QED
  BY <1>2, <1>4, <1>5, <1>6, <1>8 DEF Live, LiveState

-----------------------------------------------------------------------------
(* The three stages of claim_task.                                         *)

\* cancel_task, for any set of tasks, keeps the tables consistent.
LEMMA CancelConsistent ==
  ASSUME NEW tk, NEW rn, Consistent(tk, rn), NEW T \in SUBSET TaskId,
         now \in Nat
  PROVE  Consistent(CancelTasks(tk, T), CancelRuns(tk, rn, T))
<1> DEFINE tk2 == CancelTasks(tk, T)
           rn2 == CancelRuns(tk, rn, T)
<1> USE DEF LiveState, Live
<1>1. TablesOK(tk2, rn2)
  <2>1. ASSUME NEW t \in TaskId PROVE tk2[t] \in TaskRow
    <3>1. tk[t] \in TaskRow
      BY DEF Consistent, TablesOK
    <3> QED
      BY <3>1, NullAssumption
      DEF CancelTasks, TaskRow, RowState, TerminalState, NatOrNull, Coalesce
  <2>2. ASSUME NEW r \in RunId PROVE rn2[r] \in RunRow
    <3>1. rn[r] \in RunRow
      BY DEF Consistent, TablesOK
    <3> QED
      BY <3>1 DEF CancelRuns, RunRow, RowState, TerminalState, NatOrNull
  <2> QED
    BY <2>1, <2>2 DEF TablesOK, CancelTasks, CancelRuns
<1>2. ASSUME NEW t \in TaskId
      PROVE  /\ tk2[t].options = tk[t].options
             /\ tk2[t].lastRun = tk[t].lastRun
             /\ tk2[t].attempts = tk[t].attempts
             /\ tk2[t].maxAttempts = tk[t].maxAttempts
             /\ tk2[t].state = IF t \in T /\ tk[t].state \in LiveState
                               THEN "cancelled" ELSE tk[t].state
  BY DEF CancelTasks, Consistent, TablesOK, TaskRow
<1>3. ASSUME NEW r \in RunId
      PROVE  /\ rn2[r].task = rn[r].task
             /\ rn2[r].attempt = rn[r].attempt
             /\ rn2[r].state =
                  IF Live(rn, r) /\ rn[r].task \in T
                       /\ tk[rn[r].task].state \in LiveState
                  THEN "cancelled" ELSE rn[r].state
  BY DEF CancelRuns, Consistent, TablesOK, RunRow
<1>4. OptionsKept(tk2)
  BY <1>2 DEF Consistent, OptionsKept
<1>5. LastRunMirrors(tk2, rn2)
  BY <1>2, <1>3 DEF Consistent, LastRunMirrors
<1>6. RunsBelong(tk2, rn2)
  BY <1>2, <1>3 DEF Consistent, RunsBelong
<1>7. AttemptsDiffer(rn2)
  BY <1>3 DEF Consistent, AttemptsDiffer
<1>8. \A t \in TaskId : WithinLimit(tk2[t])
  BY <1>2 DEF Consistent, WithinLimit
<1> QED
  BY <1>1, <1>4, <1>5, <1>6, <1>7, <1>8 DEF Consistent

\* A retry delay is a number of seconds, or null.
LEMMA RetryDelayType ==
  ASSUME NEW strategy \in Seq(Nat), NEW n \in Nat \ {0}
  PROVE  RetryDelay(strategy, n) \in NatOrNull
<1>1. CASE strategy = <<>>
  BY <1>1 DEF RetryDelay, NatOrNull
<1>2. CASE strategy # <<>>
  <2> DEFINE i == IF n <= Len(strategy) THEN n ELSE Len(strategy)
  <2>1. Len(strategy) \in Nat \ {0}
    BY <1>2
  <2>2. i \in 1 .. Len(strategy)
    BY <2>1
  <2>3. strategy[i] \in Nat
    BY <2>2
  <2> QED
    BY <1>2, <2>3 DEF RetryDelay, NatOrNull
<1> QED
  BY <1>1, <1>2

\* The next attempt, if there is one, starts at a time from now on.
LEMMA NextAvailableType ==
  ASSUME NEW row \in TaskRow, row.options \in SpawnOptions,
         NEW n \in Nat \ {0}, NEW at \in NatOrNull, now \in Nat
  PROVE  NextAvailable(row, n, at) \in NatOrNull
<1>1. row.options.strategy \in Seq(Nat)
  BY OptionAssumption DEF OptionRecord
<1>2. RetryDelay(row.options.strategy, n) \in NatOrNull
  BY <1>1, RetryDelayType
<1> QED
  BY <1>2, NullAssumption DEF NextAvailable, NatOrNull, Larger

LEMMA FailOutcomeType ==
  ASSUME NEW row \in TaskRow, row.options \in SpawnOptions,
         NEW n \in Nat \ {0}, NEW at \in NatOrNull, now \in Nat
  PROVE  /\ FailOutcome(row, n, at) \in {"failed", "cancelled", "sleeping", "pending"}
         /\ FailOutcome(row, n, at) \in LiveState =>
              NextAvailable(row, n, at) \in Nat /\ AttemptsLeft(row, n)
<1>1. NextAvailable(row, n, at) \in NatOrNull
  BY NextAvailableType
<1> QED
  BY <1>1, NullAssumption DEF FailOutcome, NatOrNull, LiveState

\* What the row updates of the queue leave behind.
TaskWith(row, s, n, last, c) ==
  [row EXCEPT !.state = s, !.attempts = n, !.lastRun = last, !.cancelledAt = c]

LEMMA TaskWithType ==
  ASSUME NEW row \in TaskRow, NEW s \in RowState, NEW n \in Nat,
         NEW last \in RunId, NEW c \in NatOrNull
  PROVE  /\ TaskWith(row, s, n, last, c) \in TaskRow
         /\ TaskWith(row, s, n, last, c).state = s
         /\ TaskWith(row, s, n, last, c).attempts = n
         /\ TaskWith(row, s, n, last, c).lastRun = last
         /\ TaskWith(row, s, n, last, c).options = row.options
         /\ TaskWith(row, s, n, last, c).maxAttempts = row.maxAttempts
BY DEF TaskRow, TaskWith

LEMMA NewRunRow ==
  ASSUME NEW t \in TaskId, NEW n \in Nat, NEW s \in RowState, NEW at \in Nat
  PROVE  /\ NewRun(t, n, s, at) \in RunRow
         /\ NewRun(t, n, s, at).state = s
         /\ NewRun(t, n, s, at).task = t
         /\ NewRun(t, n, s, at).attempt = n
BY DEF NewRun, NoRun, RunRow, NatOrNull

\* What an operation may do to a task: leave it alone, start it again, or
\* end it.
SameLife(row, new) ==
  /\ new.attempts = row.attempts
  /\ \/ new.state = row.state
     \/ new.state \in LiveState /\ row.state \in LiveState

AttemptedAgain(row, new) ==
  /\ row.state \in LiveState /\ new.state \in LiveState
  /\ new.attempts = row.attempts + 1

Ends(row, new) ==
  /\ row.state \in LiveState /\ new.state \in TerminalState
  /\ new.attempts = row.attempts

\* fail_run, for any set of running or sleeping runs, keeps the tables
\* consistent; its tasks are attempted again or end.
LEMMA FailConsistent ==
  ASSUME NEW tk, NEW rn, Consistent(tk, rn), now \in Nat,
         NEW R \in SUBSET RunId,
         \A r \in R : rn[r].state \in {"running", "sleeping"},
         NEW at \in NatOrNull,
         NEW fresh \in FreshRuns(rn, Retried(tk, rn, R, at))
  PROVE  /\ Consistent(FailTasks(tk, rn, R, at, fresh),
                       FailRuns(tk, rn, R, at, fresh))
         /\ \A t \in TaskId :
              LET new == FailTasks(tk, rn, R, at, fresh)[t]
              IN  new = tk[t] \/ AttemptedAgain(tk[t], new) \/ Ends(tk[t], new)
<1> DEFINE tk2 == FailTasks(tk, rn, R, at, fresh)
           rn2 == FailRuns(tk, rn, R, at, fresh)
           Out(r) == OutcomeOf(tk, rn, r, at)
           Again == Retried(tk, rn, R, at)
           Next1(r) == NextAvailable(tk[rn[r].task], rn[r].attempt, at)
<1>1. ASSUME NEW r \in R
      PROVE  /\ rn[r].task \in TaskId
             /\ tk[rn[r].task] \in TaskRow
             /\ tk[rn[r].task].options \in SpawnOptions
             /\ tk[rn[r].task].lastRun = r
             /\ tk[rn[r].task].state \in LiveState
             /\ tk[rn[r].task].attempts = rn[r].attempt
             /\ rn[r].attempt \in Nat \ {0}
             /\ Out(r) \in {"failed", "cancelled", "sleeping", "pending"}
             /\ Out(r) \in LiveState =>
                  Next1(r) \in Nat /\ AttemptsLeft(tk[rn[r].task], rn[r].attempt)
  <2>1. Live(rn, r) /\ rn[r].state # "absent"
    BY DEF Live, LiveState
  <2>2. /\ rn[r].task \in TaskId
        /\ tk[rn[r].task].lastRun = r
        /\ tk[rn[r].task].attempts = rn[r].attempt
        /\ tk[rn[r].task].state = rn[r].state
        /\ rn[r].attempt \in Nat \ {0}
    BY <2>1, LiveRunIsLast
  <2>3. tk[rn[r].task] \in TaskRow /\ tk[rn[r].task].options \in SpawnOptions
    BY <2>1, <2>2 DEF Consistent, TablesOK, OptionsKept
  <2>4. tk[rn[r].task].state \in LiveState
    BY <2>1, <2>2 DEF Live
  <2> QED
    BY <2>2, <2>3, <2>4, FailOutcomeType DEF OutcomeOf
<1>2. ASSUME NEW r \in R PROVE RunOf(rn, R, rn[r].task) = r
  <2>1. RunOf(rn, R, rn[r].task) \in R
        /\ rn[RunOf(rn, R, rn[r].task)].task = rn[r].task
    BY DEF RunOf
  <2> QED
    BY <1>1, <2>1
<1>3. Again = {r \in R : Out(r) \in LiveState}
  BY DEF Retried
<1>4. /\ \A r \in Again : fresh[r] \in RunId /\ rn[fresh[r]].state = "absent"
      /\ \A r, s \in Again : fresh[r] = fresh[s] => r = s
      /\ \A r \in Again : fresh[r] \notin R
  BY DEF FreshRuns, Absent
<1> HIDE DEF Again, Out, Next1
<1>5. ASSUME NEW t \in TaskId, t \notin TasksOf(rn, R) PROVE tk2[t] = tk[t]
  BY <1>5 DEF FailTasks
<1>6. ASSUME NEW r \in R
      PROVE  LET row == tk2[rn[r].task]
             IN  /\ row \in TaskRow
                 /\ row.state = Out(r)
                 /\ row.options = tk[rn[r].task].options
                 /\ row.maxAttempts = tk[rn[r].task].maxAttempts
                 /\ row.attempts = IF r \in Again THEN rn[r].attempt + 1
                                   ELSE rn[r].attempt
                 /\ row.lastRun = IF r \in Again THEN fresh[r] ELSE r
  <2> DEFINE old == tk[rn[r].task]
             retried == Out(r) \in LiveState
             n == rn[r].attempt + (IF retried THEN 1 ELSE 0)
  <2>1. rn[r].task \in TasksOf(rn, R)
    BY DEF TasksOf
  <2>2. tk2[rn[r].task] =
          [old EXCEPT !.state = Out(r),
                      !.attempts = Larger(old.attempts, n),
                      !.lastRun = IF retried THEN fresh[r] ELSE r,
                      !.cancelledAt = IF Out(r) = "cancelled"
                                      THEN Coalesce(old.cancelledAt, now)
                                      ELSE old.cancelledAt]
    BY <1>1, <1>2, <2>1 DEF FailTasks, Out
  <2>3. Larger(old.attempts, n) = n /\ n \in Nat
    BY <1>1 DEF Larger
  <2>4. r \in Again <=> retried
    BY <1>3
  <2>5. (IF retried THEN fresh[r] ELSE r) \in RunId
    BY <1>4, <2>4
  <2> DEFINE last == IF retried THEN fresh[r] ELSE r
             c == IF Out(r) = "cancelled" THEN Coalesce(old.cancelledAt, now)
                  ELSE old.cancelledAt
  <2>6. c \in NatOrNull
    BY <1>1 DEF Coalesce, NatOrNull, TaskRow
  <2>7. Out(r) \in RowState
    BY <1>1 DEF RowState, LiveState, TerminalState
  <2>8. tk2[rn[r].task] = TaskWith(old, Out(r), n, last, c)
    BY <2>2, <2>3 DEF TaskWith
  <2>9. n = IF r \in Again THEN rn[r].attempt + 1 ELSE rn[r].attempt
    BY <1>1, <2>4
  <2>10. last = IF r \in Again THEN fresh[r] ELSE r
    BY <2>4
  <2> HIDE DEF n, last, c, old, retried, tk2
  <2>11. old \in TaskRow /\ n \in Nat /\ last \in RunId
    BY <1>1, <2>3, <2>5 DEF old, last
  <2> QED
    BY <2>6, <2>7, <2>8, <2>9, <2>10, <2>11, TaskWithType DEF old
<1>7. ASSUME NEW r \in R
      PROVE  /\ rn2[r] \in RunRow
             /\ rn2[r].state = "failed"
             /\ rn2[r].task = rn[r].task
             /\ rn2[r].attempt = rn[r].attempt
  <2>1. rn[r] \in RunRow
    BY DEF Consistent, TablesOK
  <2> QED
    BY <2>1, now \in Nat
    DEF FailRuns, RunRow, RowState, TerminalState, NatOrNull
<1>8. ASSUME NEW r \in Again
      PROVE  /\ rn2[fresh[r]] \in RunRow
             /\ rn2[fresh[r]].state = Out(r)
             /\ rn2[fresh[r]].task = rn[r].task
             /\ rn2[fresh[r]].attempt = rn[r].attempt + 1
  <2>1. (CHOOSE s \in Again : fresh[s] = fresh[r]) = r
    BY <1>4
  <2>2. rn2[fresh[r]] = NewRun(rn[r].task, rn[r].attempt + 1, Out(r), Next1(r))
    BY <1>4, <2>1 DEF FailRuns, Again, Out, Next1, OutcomeOf
  <2>3. r \in R /\ Out(r) \in LiveState
    BY <1>3
  <2>4. /\ rn[r].task \in TaskId /\ rn[r].attempt + 1 \in Nat
        /\ Out(r) \in RowState /\ Next1(r) \in Nat
    BY <1>1, <2>3 DEF RowState
  <2> QED
    BY <2>2, <2>4, NewRunRow
<1>9. ASSUME NEW x \in RunId, x \notin R, \A r \in Again : fresh[r] # x
      PROVE  rn2[x] = rn[x]
  BY <1>9 DEF FailRuns, Again
<1>10. TablesOK(tk2, rn2)
  <2>1. ASSUME NEW t \in TaskId PROVE tk2[t] \in TaskRow
    BY <1>5, <1>6 DEF Consistent, TablesOK, TasksOf
  <2>2. ASSUME NEW x \in RunId PROVE rn2[x] \in RunRow
    BY <1>7, <1>8, <1>9 DEF Consistent, TablesOK
  <2> QED
    BY <2>1, <2>2 DEF TablesOK, FailTasks, FailRuns
<1>11. OptionsKept(tk2)
  BY <1>1, <1>5, <1>6 DEF Consistent, OptionsKept, TasksOf
<1>12. \A t \in TaskId : \/ t \notin TasksOf(rn, R)
                         \/ \E r \in R : t = rn[r].task
  BY DEF TasksOf
<1> HIDE DEF tk2, rn2
<1>13. LastRunMirrors(tk2, rn2)
  <2> SUFFICES ASSUME NEW t \in TaskId, tk2[t].state # "absent"
               PROVE  /\ tk2[t].lastRun \in RunId
                      /\ rn2[tk2[t].lastRun].task = t
                      /\ rn2[tk2[t].lastRun].attempt = tk2[t].attempts
                      /\ \/ rn2[tk2[t].lastRun].state = tk2[t].state
                         \/ /\ rn2[tk2[t].lastRun].state = "failed"
                            /\ tk2[t].state = "cancelled"
    BY DEF LastRunMirrors
  <2>1. CASE t \notin TasksOf(rn, R)
    <3> DEFINE last == tk[t].lastRun
    <3>1. tk2[t] = tk[t]
      BY <1>5, <2>1
    <3>2. /\ last \in RunId
          /\ rn[last].task = t
          /\ rn[last].attempt = tk[t].attempts
          /\ \/ rn[last].state = tk[t].state
             \/ rn[last].state = "failed" /\ tk[t].state = "cancelled"
      BY <3>1 DEF Consistent, LastRunMirrors
    <3>3. last \notin R
      BY <2>1, <3>2 DEF TasksOf
    <3>4. rn[last].state # "absent"
      BY <3>1, <3>2
    <3>5. rn2[last] = rn[last]
      BY <1>4, <1>9, <3>2, <3>3, <3>4
    <3> QED
      BY <3>1, <3>2, <3>5
  <2>2. ASSUME NEW r \in R, t = rn[r].task
        PROVE  /\ tk2[t].lastRun \in RunId
               /\ rn2[tk2[t].lastRun].task = t
               /\ rn2[tk2[t].lastRun].attempt = tk2[t].attempts
               /\ \/ rn2[tk2[t].lastRun].state = tk2[t].state
                  \/ /\ rn2[tk2[t].lastRun].state = "failed"
                     /\ tk2[t].state = "cancelled"
    <3>1. CASE r \in Again
      BY <1>4, <1>6, <1>8, <2>2, <3>1
    <3>2. CASE r \notin Again
      <4>1. Out(r) \in {"failed", "cancelled"}
        BY <1>1, <1>3, <3>2 DEF LiveState
      <4> QED
        BY <1>6, <1>7, <2>2, <3>2, <4>1
    <3> QED
      BY <3>1, <3>2
  <2> QED
    BY <1>12, <2>1, <2>2
<1>14. RunsBelong(tk2, rn2)
  <2> SUFFICES ASSUME NEW x \in RunId, rn2[x].state # "absent"
               PROVE  /\ rn2[x].task \in TaskId
                      /\ tk2[rn2[x].task].state # "absent"
                      /\ rn2[x].attempt >= 1
                      /\ rn2[x].attempt <= tk2[rn2[x].task].attempts
                      /\ rn2[x].attempt < tk2[rn2[x].task].attempts
                           => rn2[x].state = "failed"
    BY DEF RunsBelong
  <2>1. CASE x \in R
    BY <1>1, <1>6, <1>7, <2>1
  <2>2. ASSUME NEW r \in Again, fresh[r] = x
        PROVE  /\ rn2[x].task \in TaskId
               /\ tk2[rn2[x].task].state # "absent"
               /\ rn2[x].attempt >= 1
               /\ rn2[x].attempt <= tk2[rn2[x].task].attempts
               /\ rn2[x].attempt < tk2[rn2[x].task].attempts
                    => rn2[x].state = "failed"
    BY <1>1, <1>3, <1>6, <1>8, <2>2
  <2>3. CASE x \notin R /\ \A r \in Again : fresh[r] # x
    <3> DEFINE t == rn[x].task
    <3>1. rn2[x] = rn[x]
      BY <1>9, <2>3
    <3>2. /\ t \in TaskId /\ tk[t].state # "absent"
          /\ rn[x].attempt >= 1 /\ rn[x].attempt <= tk[t].attempts
          /\ rn[x].attempt < tk[t].attempts => rn[x].state = "failed"
      BY <3>1 DEF Consistent, RunsBelong
    <3>3. rn[x].attempt \in Nat /\ tk[t].attempts \in Nat
      BY <3>2 DEF Consistent, TablesOK, RunRow, TaskRow
    <3>4. CASE t \notin TasksOf(rn, R)
      BY <1>5, <3>1, <3>2, <3>4
    <3>5. ASSUME NEW r \in R, t = rn[r].task
          PROVE  /\ tk2[t].state # "absent"
                 /\ rn[x].attempt <= tk2[t].attempts
                 /\ rn[x].attempt < tk2[t].attempts => rn[x].state = "failed"
      <4>1. rn[r].state # "absent"
        BY DEF Live
      <4>2. rn[x].attempt # rn[r].attempt
        BY <2>3, <3>1, <3>5, <4>1 DEF Consistent, AttemptsDiffer
      <4>3. rn[x].attempt < tk[t].attempts
        BY <1>1, <3>2, <3>3, <3>5, <4>2
      <4> QED
        BY <1>1, <1>6, <3>2, <3>3, <3>5, <4>3
    <3> QED
      BY <1>12, <3>1, <3>2, <3>4, <3>5
  <2> QED
    BY <2>1, <2>2, <2>3
<1>15. AttemptsDiffer(rn2)
  <2>1. ASSUME NEW x \in RunId, rn2[x].state # "absent"
        PROVE  \/ /\ rn[x].state # "absent"
                  /\ rn2[x].task = rn[x].task /\ rn2[x].attempt = rn[x].attempt
               \/ \E r \in Again : /\ fresh[r] = x
                                   /\ rn2[x].task = rn[r].task
                                   /\ rn2[x].attempt = rn[r].attempt + 1
    <3>1. CASE x \in R
      BY <1>7, <3>1
    <3>2. CASE x \notin R /\ \A r \in Again : fresh[r] # x
      BY <1>9, <2>1, <3>2
    <3> QED
      BY <1>8, <3>1, <3>2
  <2>2. ASSUME NEW x \in RunId, rn[x].state # "absent",
               NEW r \in R, rn[x].task = rn[r].task
        PROVE  rn[x].attempt # rn[r].attempt + 1
    <3>1. /\ rn[x].task \in TaskId /\ rn[x].attempt <= tk[rn[x].task].attempts
      BY <2>2 DEF Consistent, RunsBelong
    <3>2. rn[x].attempt \in Nat
      BY DEF Consistent, TablesOK, RunRow
    <3> QED
      BY <1>1, <2>2, <3>1, <3>2
  <2>3. ASSUME NEW q \in Again, NEW r \in Again, rn[q].task = rn[r].task
        PROVE  q = r
    BY <1>1, <1>3, <2>3
  <2> SUFFICES ASSUME NEW x \in RunId, NEW y \in RunId,
                      rn2[x].state # "absent", rn2[y].state # "absent",
                      rn2[x].task = rn2[y].task,
                      rn2[x].attempt = rn2[y].attempt
               PROVE  x = y
    BY DEF AttemptsDiffer
  <2>4. CASE rn[x].state # "absent" /\ rn[y].state # "absent"
    BY <1>4, <2>1, <2>4 DEF Consistent, AttemptsDiffer
  <2> QED
    BY <1>3, <1>4, <2>1, <2>2, <2>3, <2>4
<1>16. \A t \in TaskId : WithinLimit(tk2[t])
  <2> TAKE t \in TaskId
  <2>1. CASE t \notin TasksOf(rn, R)
    BY <1>5, <2>1 DEF Consistent
  <2>2. ASSUME NEW r \in R, t = rn[r].task PROVE WithinLimit(tk2[t])
    <3>1. WithinLimit(tk[t])
      BY DEF Consistent
    <3>2. CASE r \in Again
      <4>1. AttemptsLeft(tk[t], rn[r].attempt)
        BY <1>1, <1>3, <2>2, <3>2
      <4> QED
        BY <1>6, <2>2, <3>2, <4>1 DEF AttemptsLeft, WithinLimit
    <3>3. CASE r \notin Again
      BY <1>1, <1>6, <2>2, <3>1, <3>3 DEF WithinLimit
    <3> QED
      BY <3>2, <3>3
  <2> QED
    BY <1>12, <2>1, <2>2
<1>17. \A t \in TaskId :
         tk2[t] = tk[t] \/ AttemptedAgain(tk[t], tk2[t]) \/ Ends(tk[t], tk2[t])
  <2> TAKE t \in TaskId
  <2>1. CASE t \notin TasksOf(rn, R)
    BY <1>5, <2>1
  <2>2. ASSUME NEW r \in R, t = rn[r].task
        PROVE  AttemptedAgain(tk[t], tk2[t]) \/ Ends(tk[t], tk2[t])
    <3>1. CASE r \in Again
      BY <1>1, <1>3, <1>6, <2>2, <3>1 DEF AttemptedAgain
    <3>2. CASE r \notin Again
      <4>1. Out(r) \in TerminalState
        BY <1>1, <1>3, <3>2 DEF LiveState, TerminalState
      <4> QED
        BY <1>1, <1>6, <2>2, <3>2, <4>1 DEF Ends
    <3> QED
      BY <3>1, <3>2
  <2> QED
    BY <1>12, <2>1, <2>2
<1> QED
  BY <1>10, <1>11, <1>13, <1>14, <1>15, <1>16, <1>17 DEF Consistent, tk2, rn2

\* Moving live runs and their tasks to another state together, with the rest
\* of what Consistent speaks of left alone, keeps the tables consistent.
LEMMA MoveConsistent ==
  ASSUME NEW tk, NEW rn, Consistent(tk, rn), NEW tk2, NEW rn2,
         TablesOK(tk2, rn2), NEW R \in SUBSET RunId,
         \A r \in R : Live(rn, r) /\ rn2[r].state # "absent",
         \A r \in RunId :
           /\ rn2[r].task = rn[r].task
           /\ rn2[r].attempt = rn[r].attempt
           /\ r \notin R => rn2[r].state = rn[r].state,
         \A t \in TaskId :
           /\ tk2[t].options = tk[t].options
           /\ tk2[t].lastRun = tk[t].lastRun
           /\ tk2[t].attempts = tk[t].attempts
           /\ tk2[t].maxAttempts = tk[t].maxAttempts
           /\ t \notin TasksOf(rn, R) => tk2[t].state = tk[t].state,
         \A r \in R : tk2[rn[r].task].state = rn2[r].state
  PROVE  Consistent(tk2, rn2)
<1>1. ASSUME NEW r \in R
      PROVE  /\ rn[r].task \in TaskId
             /\ tk[rn[r].task].lastRun = r
             /\ tk[rn[r].task].attempts = rn[r].attempt
             /\ tk[rn[r].task].state = rn[r].state
             /\ rn[r].state # "absent"
  BY LiveRunIsLast DEF Live, LiveState
<1>2. \A t \in TasksOf(rn, R) : \E r \in R : t = rn[r].task
  BY DEF TasksOf
<1>3. ASSUME NEW t \in TaskId
      PROVE tk2[t].state # "absent" <=> tk[t].state # "absent"
  BY <1>1, <1>2
<1>4. ASSUME NEW r \in RunId
      PROVE rn2[r].state # "absent" <=> rn[r].state # "absent"
  BY <1>1
<1>5. OptionsKept(tk2)
  BY <1>3 DEF Consistent, OptionsKept
<1>6. LastRunMirrors(tk2, rn2)
  <2> SUFFICES ASSUME NEW t \in TaskId, tk2[t].state # "absent"
               PROVE  /\ tk2[t].lastRun \in RunId
                      /\ rn2[tk2[t].lastRun].task = t
                      /\ rn2[tk2[t].lastRun].attempt = tk2[t].attempts
                      /\ \/ rn2[tk2[t].lastRun].state = tk2[t].state
                         \/ /\ rn2[tk2[t].lastRun].state = "failed"
                            /\ tk2[t].state = "cancelled"
    BY DEF LastRunMirrors
  <2> DEFINE last == tk[t].lastRun
  <2>1. /\ last \in RunId
        /\ rn[last].task = t
        /\ rn[last].attempt = tk[t].attempts
        /\ \/ rn[last].state = tk[t].state
           \/ rn[last].state = "failed" /\ tk[t].state = "cancelled"
    BY <1>3 DEF Consistent, LastRunMirrors
  <2>2. CASE t \in TasksOf(rn, R)
    <3>1. PICK r \in R : t = rn[r].task
      BY <1>2, <2>2
    <3> QED
      BY <1>1, <2>1, <3>1
  <2>3. CASE t \notin TasksOf(rn, R)
    <3>1. last \notin R
      BY <2>1, <2>3 DEF TasksOf
    <3> QED
      BY <2>1, <2>3, <3>1
  <2> QED
    BY <2>2, <2>3
<1>7. RunsBelong(tk2, rn2)
  <2> SUFFICES ASSUME NEW r \in RunId, rn2[r].state # "absent"
               PROVE  /\ rn2[r].task \in TaskId
                      /\ tk2[rn2[r].task].state # "absent"
                      /\ rn2[r].attempt >= 1
                      /\ rn2[r].attempt <= tk2[rn2[r].task].attempts
                      /\ rn2[r].attempt < tk2[rn2[r].task].attempts
                           => rn2[r].state = "failed"
    BY DEF RunsBelong
  <2>1. /\ rn[r].task \in TaskId
        /\ tk[rn[r].task].state # "absent"
        /\ rn[r].attempt >= 1
        /\ rn[r].attempt <= tk[rn[r].task].attempts
        /\ rn[r].attempt < tk[rn[r].task].attempts => rn[r].state = "failed"
    BY <1>4 DEF Consistent, RunsBelong
  <2>2. r \in R => ~(rn[r].attempt < tk[rn[r].task].attempts)
    BY <2>1 DEF Live, LiveState
  <2> QED
    BY <1>3, <2>1, <2>2
<1>8. AttemptsDiffer(rn2)
  BY <1>4 DEF Consistent, AttemptsDiffer
<1>9. \A t \in TaskId : WithinLimit(tk2[t])
  BY DEF Consistent, WithinLimit
<1> QED
  BY <1>5, <1>6, <1>7, <1>8, <1>9 DEF Consistent

\* The row updates of a claim.
StartedTask(row, n, r, at) ==
  [row EXCEPT !.state = "running", !.attempts = n, !.firstStarted = at,
              !.lastRun = r]

LEMMA StartedTaskType ==
  ASSUME NEW row \in TaskRow, NEW n \in Nat, NEW r \in RunId,
         NEW at \in NatOrNull
  PROVE  /\ StartedTask(row, n, r, at) \in TaskRow
         /\ StartedTask(row, n, r, at).state = "running"
         /\ StartedTask(row, n, r, at).options = row.options
         /\ StartedTask(row, n, r, at).maxAttempts = row.maxAttempts
         /\ StartedTask(row, n, r, at).lastRun = r
         /\ StartedTask(row, n, r, at).attempts = n
BY DEF StartedTask, TaskRow, RowState, LiveState

StartedRun(row, expires) ==
  [row EXCEPT !.state = "running", !.claimExpires = expires,
              !.availableAt = now]

LEMMA StartedRunType ==
  ASSUME NEW row \in RunRow, NEW expires \in NatOrNull, now \in Nat
  PROVE  /\ StartedRun(row, expires) \in RunRow
         /\ StartedRun(row, expires).state = "running"
         /\ StartedRun(row, expires).task = row.task
         /\ StartedRun(row, expires).attempt = row.attempt
BY DEF StartedRun, RunRow, RowState, LiveState

\* claim_task's claim of runs that are pending or sleeping.
LEMMA ClaimConsistent ==
  ASSUME NEW tk, NEW rn, Consistent(tk, rn), now \in Nat,
         NEW R \in SUBSET RunId,
         \A r \in R : rn[r].state \in {"pending", "sleeping"},
         NEW timeout \in Nat
  PROVE  /\ Consistent(ClaimTasks(tk, rn, R), ClaimRuns(rn, R, timeout))
         /\ \A t \in TaskId : SameLife(tk[t], ClaimTasks(tk, rn, R)[t])
<1> DEFINE tk2 == ClaimTasks(tk, rn, R)
           rn2 == ClaimRuns(rn, R, timeout)
<1>1. ASSUME NEW r \in R
      PROVE  /\ Live(rn, r)
             /\ rn[r].task \in TaskId
             /\ tk[rn[r].task].state \in LiveState
             /\ tk[rn[r].task].lastRun = r
             /\ tk[rn[r].task].attempts = rn[r].attempt
             /\ rn[r].attempt \in Nat
  <2>1. Live(rn, r)
    BY DEF Live, LiveState
  <2> QED
    BY <2>1, LiveRunIsLast DEF Live
<1>2. ASSUME NEW r \in R PROVE RunOf(rn, R, rn[r].task) = r
  <2>1. RunOf(rn, R, rn[r].task) \in R
        /\ rn[RunOf(rn, R, rn[r].task)].task = rn[r].task
    BY DEF RunOf
  <2> QED
    BY <1>1, <2>1
<1>3. ASSUME NEW t \in TaskId, t \notin TasksOf(rn, R) PROVE tk2[t] = tk[t]
  BY <1>3 DEF ClaimTasks
<1>4. ASSUME NEW r \in R
      PROVE  /\ tk2[rn[r].task] \in TaskRow
             /\ tk2[rn[r].task].state = "running"
             /\ tk2[rn[r].task].options = tk[rn[r].task].options
             /\ tk2[rn[r].task].maxAttempts = tk[rn[r].task].maxAttempts
             /\ tk2[rn[r].task].lastRun = tk[rn[r].task].lastRun
             /\ tk2[rn[r].task].attempts = tk[rn[r].task].attempts
  <2> DEFINE old == tk[rn[r].task]
             started == Coalesce(old.firstStarted, now)
  <2>1. rn[r].task \in TasksOf(rn, R)
    BY DEF TasksOf
  <2>2. Larger(old.attempts, rn[r].attempt) = rn[r].attempt
    BY <1>1 DEF Larger
  <2>3. tk2[rn[r].task] = StartedTask(old, rn[r].attempt, r, started)
    BY <1>1, <1>2, <2>1, <2>2 DEF ClaimTasks, StartedTask
  <2>4. old \in TaskRow
    BY <1>1 DEF Consistent, TablesOK
  <2>5. started \in NatOrNull
    BY <2>4 DEF Coalesce, NatOrNull, TaskRow
  <2> HIDE DEF started, tk2
  <2> QED
    BY <1>1, <2>3, <2>4, <2>5, StartedTaskType
<1>5. ASSUME NEW r \in RunId
      PROVE  /\ rn2[r] \in RunRow
             /\ rn2[r].task = rn[r].task
             /\ rn2[r].attempt = rn[r].attempt
             /\ rn2[r].state = IF r \in R THEN "running" ELSE rn[r].state
  <2>1. rn[r] \in RunRow
    BY DEF Consistent, TablesOK
  <2> DEFINE expires == IF timeout > 0 THEN now + timeout ELSE Null
  <2>2. expires \in NatOrNull
    BY DEF NatOrNull
  <2>3. rn2[r] = IF r \in R THEN StartedRun(rn[r], expires) ELSE rn[r]
    BY DEF ClaimRuns, StartedRun
  <2> HIDE DEF expires, rn2
  <2> QED
    BY <2>1, <2>2, <2>3, StartedRunType
<1>6. TablesOK(tk2, rn2)
  <2>1. ASSUME NEW t \in TaskId PROVE tk2[t] \in TaskRow
    BY <1>3, <1>4 DEF Consistent, TablesOK, TasksOf
  <2> QED
    BY <1>5, <2>1 DEF TablesOK, ClaimTasks, ClaimRuns
<1>7. \A t \in TaskId : /\ tk2[t].options = tk[t].options
                        /\ tk2[t].lastRun = tk[t].lastRun
                        /\ tk2[t].attempts = tk[t].attempts
                        /\ tk2[t].maxAttempts = tk[t].maxAttempts
                        /\ t \notin TasksOf(rn, R) => tk2[t].state = tk[t].state
  BY <1>3, <1>4 DEF TasksOf
<1>8. \A r \in R : tk2[rn[r].task].state = rn2[r].state
  BY <1>4, <1>5
<1> HIDE DEF tk2, rn2
<1>9. \A r \in R : Live(rn, r) /\ rn2[r].state # "absent"
  BY <1>1, <1>5
<1>10. Consistent(tk2, rn2)
  BY <1>5, <1>6, <1>7, <1>8, <1>9, MoveConsistent
<1>11. \A t \in TaskId : SameLife(tk[t], tk2[t])
  BY <1>1, <1>3, <1>4 DEF SameLife, TasksOf, LiveState
<1> QED
  BY <1>10, <1>11 DEF tk2, rn2

-----------------------------------------------------------------------------
(* The other operations on the two tables.                                 *)

\* A new run, pending, as the first attempt at a new task or the next one at
\* a failed task, keeps the tables consistent.
LEMMA AddRunConsistent ==
  ASSUME NEW tk, NEW rn, Consistent(tk, rn), NEW t \in TaskId, NEW r \in RunId,
         NEW row \in TaskRow, NEW at \in Nat, rn[r].state = "absent",
         row.state = "pending", row.lastRun = r, row.options \in SpawnOptions,
         WithinLimit(row),
         \/ tk[t].state = "absent" /\ row.attempts = 1
         \/ tk[t].state = "failed" /\ row.attempts = tk[t].attempts + 1
  PROVE  Consistent([tk EXCEPT ![t] = row],
                    [rn EXCEPT ![r] = NewRun(t, row.attempts, "pending", at)])
<1> DEFINE tk2 == [tk EXCEPT ![t] = row]
           rn2 == [rn EXCEPT ![r] = NewRun(t, row.attempts, "pending", at)]
<1>1. /\ rn2[r] \in RunRow
      /\ rn2[r].state = "pending"
      /\ rn2[r].task = t
      /\ rn2[r].attempt = row.attempts
  <2>1. /\ row.attempts \in Nat /\ "pending" \in RowState
    BY DEF TaskRow, RowState, LiveState
  <2>2. rn2[r] = NewRun(t, row.attempts, "pending", at)
    BY DEF Consistent, TablesOK
  <2> QED
    BY <2>1, <2>2, NewRunRow
<1>2. \A x \in RunId : x # r => rn2[x] = rn[x]
  BY DEF Consistent, TablesOK
<1>3. tk2[t] = row /\ \A u \in TaskId : u # t => tk2[u] = tk[u]
  BY DEF Consistent, TablesOK
<1>4. TablesOK(tk2, rn2)
  <2>1. tk2 \in [TaskId -> TaskRow]
    BY DEF Consistent, TablesOK
  <2>2. rn2 \in [RunId -> RunRow]
    BY <1>1, <1>2 DEF Consistent, TablesOK
  <2> QED
    BY <2>1, <2>2 DEF TablesOK
<1> HIDE DEF tk2, rn2
<1>5. tk[t] \in TaskRow /\ tk[t].attempts \in Nat /\ row.attempts \in Nat
  BY DEF Consistent, TablesOK, TaskRow
<1>6. ASSUME NEW x \in RunId, rn[x].state # "absent", rn[x].task = t
      PROVE  /\ rn[x].attempt \in Nat
             /\ rn[x].attempt >= 1
             /\ rn[x].attempt < row.attempts
             /\ rn[x].state = "failed"
  <2>1. /\ tk[t].state # "absent"
        /\ rn[x].attempt >= 1
        /\ rn[x].attempt <= tk[t].attempts
        /\ rn[x].attempt < tk[t].attempts => rn[x].state = "failed"
    BY <1>6 DEF Consistent, RunsBelong
  <2>2. tk[t].state = "failed" /\ row.attempts = tk[t].attempts + 1
    BY <2>1
  <2>3. rn[x].attempt \in Nat
    BY DEF Consistent, TablesOK, RunRow
  <2>4. CASE rn[x].attempt = tk[t].attempts
    <3>1. /\ tk[t].lastRun \in RunId
          /\ rn[tk[t].lastRun].task = t
          /\ rn[tk[t].lastRun].attempt = tk[t].attempts
          /\ rn[tk[t].lastRun].state = "failed"
      BY <2>2 DEF Consistent, LastRunMirrors
    <3>2. x = tk[t].lastRun
      BY <1>6, <2>4, <3>1 DEF Consistent, AttemptsDiffer
    <3> QED
      BY <1>5, <2>1, <2>2, <2>3, <2>4, <3>1, <3>2
  <2> QED
    BY <1>5, <2>1, <2>2, <2>3, <2>4
<1>7. OptionsKept(tk2)
  BY <1>3 DEF Consistent, OptionsKept
<1>8. LastRunMirrors(tk2, rn2)
  <2>1. ASSUME NEW u \in TaskId, u # t, tk[u].state # "absent"
        PROVE  tk[u].lastRun # r
    <3>1. /\ tk[u].lastRun \in RunId
          /\ \/ rn[tk[u].lastRun].state = tk[u].state
             \/ rn[tk[u].lastRun].state = "failed"
      BY <2>1 DEF Consistent, LastRunMirrors
    <3> QED
      BY <2>1, <3>1
  <2> QED
    BY <1>1, <1>2, <1>3, <2>1 DEF Consistent, LastRunMirrors
<1>9. RunsBelong(tk2, rn2)
  <2> SUFFICES ASSUME NEW x \in RunId, rn2[x].state # "absent"
               PROVE  /\ rn2[x].task \in TaskId
                      /\ tk2[rn2[x].task].state # "absent"
                      /\ rn2[x].attempt >= 1
                      /\ rn2[x].attempt <= tk2[rn2[x].task].attempts
                      /\ rn2[x].attempt < tk2[rn2[x].task].attempts
                           => rn2[x].state = "failed"
    BY DEF RunsBelong
  <2>1. CASE x = r
    BY <1>1, <1>3, <1>5, <2>1
  <2>2. CASE x # r /\ rn[x].task = t
    BY <1>2, <1>3, <1>5, <1>6, <2>2
  <2>3. CASE x # r /\ rn[x].task # t
    BY <1>2, <1>3, <2>3 DEF Consistent, RunsBelong
  <2> QED
    BY <2>1, <2>2, <2>3
<1>10. AttemptsDiffer(rn2)
  <2> SUFFICES ASSUME NEW x \in RunId, NEW y \in RunId,
                      rn2[x].state # "absent", rn2[y].state # "absent",
                      rn2[x].task = rn2[y].task,
                      rn2[x].attempt = rn2[y].attempt
               PROVE  x = y
    BY DEF AttemptsDiffer
  <2>1. CASE x # r /\ y # r
    BY <1>2, <2>1 DEF Consistent, AttemptsDiffer
  <2>2. CASE x = r /\ y # r
    BY <1>1, <1>2, <1>5, <1>6, <2>2
  <2>3. CASE x # r /\ y = r
    BY <1>1, <1>2, <1>5, <1>6, <2>3
  <2> QED
    BY <2>1, <2>2, <2>3
<1>11. \A u \in TaskId : WithinLimit(tk2[u])
  BY <1>3 DEF Consistent
<1>12. Consistent(tk2, rn2)
  BY <1>4, <1>7, <1>8, <1>9, <1>10, <1>11 DEF Consistent
<1> QED
  BY <1>12 DEF tk2, rn2

\* Deleting tasks with all their runs keeps the tables consistent.
LEMMA DeleteConsistent ==
  ASSUME NEW tk, NEW rn, Consistent(tk, rn), NEW D \in SUBSET TaskId
  PROVE  Consistent([t \in TaskId |-> IF t \in D THEN NoTask ELSE tk[t]],
                    [r \in RunId |-> IF rn[r].task \in D THEN NoRun ELSE rn[r]])
<1> DEFINE tk2 == [t \in TaskId |-> IF t \in D THEN NoTask ELSE tk[t]]
           rn2 == [r \in RunId |-> IF rn[r].task \in D THEN NoRun ELSE rn[r]]
<1>1. /\ NoTask \in TaskRow /\ NoTask.state = "absent"
      /\ NoRun \in RunRow /\ NoRun.state = "absent"
  BY DEF NoTask, NoRun, TaskRow, RunRow, RowState, NatOrNull
<1>2. TablesOK(tk2, rn2)
  BY <1>1 DEF Consistent, TablesOK
<1>3. \A t \in TaskId : tk2[t] = IF t \in D THEN NoTask ELSE tk[t]
  OBVIOUS
<1>4. \A r \in RunId : rn2[r] = IF rn[r].task \in D THEN NoRun ELSE rn[r]
  OBVIOUS
<1> HIDE DEF tk2, rn2
<1>5. OptionsKept(tk2)
  BY <1>1, <1>3 DEF Consistent, OptionsKept
<1>6. LastRunMirrors(tk2, rn2)
  BY <1>1, <1>3, <1>4 DEF Consistent, LastRunMirrors
<1>7. RunsBelong(tk2, rn2)
  BY <1>1, <1>3, <1>4 DEF Consistent, RunsBelong
<1>8. AttemptsDiffer(rn2)
  BY <1>1, <1>4 DEF Consistent, AttemptsDiffer
<1>9. \A t \in TaskId : WithinLimit(tk2[t])
  BY <1>3 DEF Consistent, WithinLimit, NoTask
<1>10. Consistent(tk2, rn2)
  BY <1>2, <1>5, <1>6, <1>7, <1>8, <1>9 DEF Consistent
<1> QED
  BY <1>10 DEF tk2, rn2

\* One live run and its task move to another state.
LEMMA MoveOneConsistent ==
  ASSUME NEW tk, NEW rn, Consistent(tk, rn), NEW r \in RunId, Live(rn, r),
         NEW new \in RunRow, NEW row \in TaskRow,
         new.task = rn[r].task, new.attempt = rn[r].attempt,
         new.state # "absent", row.state = new.state,
         row.options = tk[rn[r].task].options,
         row.lastRun = tk[rn[r].task].lastRun,
         row.attempts = tk[rn[r].task].attempts,
         row.maxAttempts = tk[rn[r].task].maxAttempts
  PROVE  Consistent([tk EXCEPT ![rn[r].task] = row], [rn EXCEPT ![r] = new])
<1> DEFINE t == rn[r].task
           tk2 == [tk EXCEPT ![t] = row]
           rn2 == [rn EXCEPT ![r] = new]
<1>1. t \in TaskId
  BY LiveRunIsLast
<1>2. TablesOK(tk2, rn2)
  BY DEF Consistent, TablesOK
<1>3. tk2[t] = row /\ \A u \in TaskId : u # t => tk2[u] = tk[u]
  BY <1>1 DEF Consistent, TablesOK
<1>4. rn2[r] = new /\ \A x \in RunId : x # r => rn2[x] = rn[x]
  BY DEF Consistent, TablesOK
<1>5. TasksOf(rn, {r}) = {t}
  BY DEF TasksOf
<1> HIDE DEF tk2, rn2
<1>6. \A x \in {r} : Live(rn, x) /\ rn2[x].state # "absent"
  BY <1>4
<1>7. \A x \in RunId : /\ rn2[x].task = rn[x].task
                       /\ rn2[x].attempt = rn[x].attempt
                       /\ x \notin {r} => rn2[x].state = rn[x].state
  BY <1>4
<1>8. \A u \in TaskId : /\ tk2[u].options = tk[u].options
                        /\ tk2[u].lastRun = tk[u].lastRun
                        /\ tk2[u].attempts = tk[u].attempts
                        /\ tk2[u].maxAttempts = tk[u].maxAttempts
                        /\ u \notin TasksOf(rn, {r}) => tk2[u].state = tk[u].state
  BY <1>3, <1>5
<1>9. \A x \in {r} : tk2[rn[x].task].state = rn2[x].state
  BY <1>3, <1>4
<1>10. Consistent(tk2, rn2)
  BY <1>2, <1>6, <1>7, <1>8, <1>9, MoveConsistent
<1> QED
  BY <1>10 DEF tk2, rn2

\* One run changes in a field Consistent does not speak of.
LEMMA TouchConsistent ==
  ASSUME NEW tk, NEW rn, Consistent(tk, rn), NEW r \in RunId,
         NEW new \in RunRow, new.task = rn[r].task,
         new.attempt = rn[r].attempt, new.state = rn[r].state
  PROVE  Consistent(tk, [rn EXCEPT ![r] = new])
<1> DEFINE rn2 == [rn EXCEPT ![r] = new]
<1>1. TablesOK(tk, rn2)
  BY DEF Consistent, TablesOK
<1>2. \A x \in RunId : /\ rn2[x].task = rn[x].task
                       /\ rn2[x].attempt = rn[x].attempt
                       /\ rn2[x].state = rn[x].state
  BY DEF Consistent, TablesOK
<1> HIDE DEF rn2
<1>3. Consistent(tk, rn2)
  <2> DEFINE R == {}
  <2>1. R \in SUBSET RunId
    OBVIOUS
  <2>2. \A x \in R : Live(rn, x) /\ rn2[x].state # "absent"
    OBVIOUS
  <2>3. \A x \in R : tk[rn[x].task].state = rn2[x].state
    OBVIOUS
  <2> HIDE DEF R
  <2> QED
    BY <1>1, <1>2, <2>1, <2>2, <2>3, MoveConsistent
<1> QED
  BY <1>3 DEF rn2

-----------------------------------------------------------------------------
(* Every stored function keeps the task and run tables consistent.         *)

EventsCarryPayload ==
  \A e \in EventName :
    event[e].state = "emitted" => event[e].payload \in Payload

\* The inductive invariant.
IInv == TypeOK /\ Consistent(task, run) /\ EventsCarryPayload

LEMMA RunRowOf ==
  ASSUME IInv, NEW r \in RunId, Live(run, r)
  PROVE  /\ now \in Nat
         /\ run[r] \in RunRow
         /\ run[r].task \in TaskId
         /\ task[run[r].task] \in TaskRow
         /\ task[run[r].task].lastRun = r
         /\ task[run[r].task].state = run[r].state
BY LiveRunIsLast DEF IInv, TypeOK

\* A task that only changes its state.
TaskInState(row, s, last) == [row EXCEPT !.state = s, !.lastRun = last]

LEMMA TaskInStateType ==
  ASSUME NEW row \in TaskRow, NEW s \in RowState, NEW last \in RunId
  PROVE  /\ TaskInState(row, s, last) \in TaskRow
         /\ TaskInState(row, s, last).state = s
         /\ TaskInState(row, s, last).options = row.options
         /\ TaskInState(row, s, last).lastRun = last
         /\ TaskInState(row, s, last).attempts = row.attempts
         /\ TaskInState(row, s, last).maxAttempts = row.maxAttempts
BY DEF TaskInState, TaskRow

LEMMA SpawnTaskConsistent ==
  ASSUME IInv, NEW t \in TaskId, NEW r \in RunId,
         NEW key \in IdempotencyKey \union {Null}, NEW options \in SpawnOptions,
         SpawnTask(t, r, key, options)
  PROVE  Consistent(task', run')
<1> DEFINE row ==
       [NoTask EXCEPT !.state = "pending", !.key = key, !.options = options,
                      !.maxAttempts = options.maxAttempts, !.attempts = 1,
                      !.lastRun = r, !.enqueueAt = now]
<1>1. options.maxAttempts \in (Nat \ {0}) \union {Null}
  BY OptionAssumption DEF OptionRecord
<1>2. now \in Nat
  BY DEF IInv, TypeOK
<1>3. /\ row \in TaskRow /\ row.state = "pending" /\ row.attempts = 1
      /\ row.lastRun = r /\ row.options = options
      /\ row.maxAttempts = options.maxAttempts
  BY <1>1, <1>2 DEF NoTask, TaskRow, RowState, LiveState, NatOrNull
<1>4. task' = [task EXCEPT ![t] = row]
      /\ run' = [run EXCEPT ![r] = NewRun(t, 1, "pending", now)]
      /\ task[t].state = "absent" /\ run[r].state = "absent"
  BY DEF SpawnTask
<1> HIDE DEF row
<1>5. Consistent(task, run) /\ WithinLimit(row)
  BY <1>1, <1>3 DEF IInv, WithinLimit
<1>6. Consistent([task EXCEPT ![t] = row],
                 [run EXCEPT ![r] = NewRun(t, row.attempts, "pending", now)])
  BY <1>2, <1>3, <1>4, <1>5, AddRunConsistent
<1> QED
  BY <1>3, <1>4, <1>6

LEMMA RetryAsNewTaskConsistent ==
  ASSUME IInv, NEW t \in TaskId, NEW u \in TaskId, NEW r \in RunId,
         NEW m \in RetryLimits, RetryAsNewTask(t, u, r, m)
  PROVE  Consistent(task', run')
<1> DEFINE limit == Coalesce(m, task[t].maxAttempts)
           row ==
       [NoTask EXCEPT !.state = "pending", !.options = task[t].options,
                      !.maxAttempts = limit, !.attempts = 1,
                      !.lastRun = r, !.enqueueAt = now]
<1>1. task[t].state = "failed"
  BY DEF RetryAsNewTask
<1>2. now \in Nat /\ task[t] \in TaskRow /\ task[t].options \in SpawnOptions
  BY <1>1 DEF IInv, TypeOK, Consistent, OptionsKept
<1>3. limit \in (Nat \ {0}) \union {Null}
  BY <1>2, ArgumentAssumption DEF Coalesce, TaskRow
<1>4. /\ row \in TaskRow /\ row.state = "pending" /\ row.attempts = 1
      /\ row.lastRun = r /\ row.options = task[t].options
      /\ row.maxAttempts = limit
  <2> HIDE DEF limit
  <2> QED
    BY <1>2, <1>3 DEF NoTask, TaskRow, RowState, LiveState, NatOrNull
<1>5. task' = [task EXCEPT ![u] = row]
      /\ run' = [run EXCEPT ![r] = NewRun(u, 1, "pending", now)]
      /\ task[u].state = "absent" /\ run[r].state = "absent"
  BY DEF RetryAsNewTask
<1> HIDE DEF row, limit
<1>6. Consistent(task, run) /\ WithinLimit(row)
  BY <1>3, <1>4 DEF IInv, WithinLimit
<1>7. Consistent([task EXCEPT ![u] = row],
                 [run EXCEPT ![r] = NewRun(u, row.attempts, "pending", now)])
  BY <1>2, <1>4, <1>5, <1>6, AddRunConsistent
<1> QED
  BY <1>4, <1>5, <1>7

LEMMA RetryTaskConsistent ==
  ASSUME IInv, NEW t \in TaskId, NEW r \in RunId,
         NEW m \in RetryLimits, RetryTask(t, r, m)
  PROVE  Consistent(task', run')
<1> DEFINE limit == RetryLimit(task[t], m)
           attempt == task[t].attempts + 1
           row == [task[t] EXCEPT !.state = "pending", !.attempts = attempt,
                                  !.maxAttempts = limit, !.lastRun = r,
                                  !.cancelledAt = Null]
<1>1. /\ task[t].state = "failed" /\ run[r].state = "absent"
      /\ task' = [task EXCEPT ![t] = row]
      /\ run' = [run EXCEPT ![r] = NewRun(t, attempt, "pending", now)]
  BY DEF RetryTask
<1>2. now \in Nat /\ task[t] \in TaskRow /\ task[t].options \in SpawnOptions
  BY <1>1 DEF IInv, TypeOK, Consistent, OptionsKept
<1>3. attempt \in Nat
  BY <1>2 DEF TaskRow
<1>4. limit \in (Nat \ {0}) \union {Null}
  BY <1>2, ArgumentAssumption DEF RetryLimit, Coalesce, TaskRow
<1>5. /\ row \in TaskRow /\ row.state = "pending" /\ row.attempts = attempt
      /\ row.lastRun = r /\ row.options = task[t].options
      /\ WithinLimit(row)
  <2>1. limit # Null => attempt <= limit
    BY <1>2, <1>3, <1>4 DEF RetryTask, TaskRow
  <2> HIDE DEF limit, attempt
  <2> QED
    BY <1>2, <1>3, <1>4, <2>1
    DEF TaskRow, RowState, LiveState, NatOrNull, WithinLimit
<1> HIDE DEF row, attempt
<1>6. Consistent(task, run) /\ row.attempts = task[t].attempts + 1
  BY <1>5 DEF IInv, attempt
<1>7. Consistent([task EXCEPT ![t] = row],
                 [run EXCEPT ![r] = NewRun(t, row.attempts, "pending", now)])
  BY <1>1, <1>2, <1>5, <1>6, AddRunConsistent
<1> QED
  BY <1>1, <1>5, <1>7

LEMMA CompleteRunConsistent ==
  ASSUME IInv, NEW r \in RunId, CompleteRun(r)
  PROVE  Consistent(task', run')
<1> DEFINE t == run[r].task
           new == [run[r] EXCEPT !.state = "completed", !.completedAt = now]
           row == TaskInState(task[t], "completed", r)
<1>1. Live(run, r) /\ task' = [task EXCEPT ![t] = row]
      /\ run' = [run EXCEPT ![r] = new]
  BY DEF CompleteRun, Live, LiveState, TaskInState
<1>2. /\ new \in RunRow /\ new.task = t /\ new.attempt = run[r].attempt
      /\ new.state = "completed"
  BY <1>1, RunRowOf DEF RunRow, RowState, TerminalState, NatOrNull
<1>3. /\ row \in TaskRow /\ row.state = "completed"
      /\ row.options = task[t].options /\ row.lastRun = task[t].lastRun
      /\ row.attempts = task[t].attempts
      /\ row.maxAttempts = task[t].maxAttempts
  <2>1. task[t] \in TaskRow /\ task[t].lastRun = r /\ "completed" \in RowState
    BY <1>1, RunRowOf DEF RowState, TerminalState
  <2> QED
    BY <2>1, TaskInStateType
<1> HIDE DEF new, row
<1> QED
  BY <1>1, <1>2, <1>3, MoveOneConsistent DEF IInv

LEMMA ScheduleRunConsistent ==
  ASSUME IInv, NEW r \in RunId, NEW at \in Nat, ScheduleRun(r, at)
  PROVE  Consistent(task', run')
<1> DEFINE t == run[r].task
           new == [run[r] EXCEPT !.state = "sleeping", !.claimExpires = Null,
                                 !.availableAt = at, !.wakeEvent = Null]
           row == [task[t] EXCEPT !.state = "sleeping"]
<1>1. Live(run, r) /\ task' = [task EXCEPT ![t] = row]
      /\ run' = [run EXCEPT ![r] = new]
  BY DEF ScheduleRun, Live, LiveState
<1>2. /\ new \in RunRow /\ new.task = t /\ new.attempt = run[r].attempt
      /\ new.state = "sleeping"
  <2>1. run[r] \in RunRow
    BY <1>1, RunRowOf
  <2>2. /\ "sleeping" \in RowState /\ Null \in NatOrNull
        /\ Null \in EventName \union {Null} /\ at \in Nat \union {Infinity}
    BY DEF RowState, LiveState, NatOrNull
  <2> QED
    BY <2>1, <2>2 DEF RunRow
<1>3. /\ row \in TaskRow /\ row.state = "sleeping"
      /\ row.options = task[t].options /\ row.lastRun = task[t].lastRun
      /\ row.attempts = task[t].attempts
      /\ row.maxAttempts = task[t].maxAttempts
  BY <1>1, RunRowOf DEF TaskRow, RowState, LiveState
<1> HIDE DEF new, row
<1> QED
  BY <1>1, <1>2, <1>3, MoveOneConsistent DEF IInv

LEMMA ExtendClaimConsistent ==
  ASSUME IInv, NEW r \in RunId, NEW by \in ExtendBys, ExtendClaim(r, by)
  PROVE  Consistent(task', run')
<1> DEFINE new == [run[r] EXCEPT !.claimExpires = now + by]
<1>1. Live(run, r) /\ task' = task /\ run' = [run EXCEPT ![r] = new]
  BY DEF ExtendClaim, Live, LiveState
<1>2. now + by \in NatOrNull
  BY <1>1, RunRowOf, ArgumentAssumption DEF NatOrNull
<1>3. /\ new \in RunRow /\ new.task = run[r].task
      /\ new.attempt = run[r].attempt /\ new.state = run[r].state
  BY <1>1, <1>2, RunRowOf DEF RunRow
<1> HIDE DEF new
<1> QED
  BY <1>1, <1>3, TouchConsistent DEF IInv

LEMMA SetCheckpointConsistent ==
  ASSUME IInv, NEW r \in RunId, NEW s \in StepName, NEW p \in Payload,
         NEW by \in ExtendBys \union {Null}, SetTaskCheckpointState(r, s, p, by)
  PROVE  Consistent(task', run')
<1> DEFINE new == [run[r] EXCEPT !.claimExpires = now + by]
<1>1. task' = task /\ run' = ExtendedRuns(r, by)
  BY DEF SetTaskCheckpointState
<1>2. CASE run' = run
  BY <1>1, <1>2 DEF IInv
<1>3. CASE run' # run
  <2>1. by # Null /\ run[r].state = "running" /\ run' = [run EXCEPT ![r] = new]
    BY <1>1, <1>3 DEF ExtendedRuns
  <2>2. Live(run, r)
    BY <2>1 DEF Live, LiveState
  <2>3. now + by \in NatOrNull
    BY <2>1, <2>2, RunRowOf, ArgumentAssumption DEF NatOrNull
  <2>4. /\ new \in RunRow /\ new.task = run[r].task
        /\ new.attempt = run[r].attempt /\ new.state = run[r].state
    BY <2>2, <2>3, RunRowOf DEF RunRow
  <2> HIDE DEF new
  <2>5. Consistent(task, [run EXCEPT ![r] = new])
    BY <2>4, TouchConsistent DEF IInv
  <2> QED
    BY <1>1, <2>1, <2>5
<1> QED
  BY <1>2, <1>3

LEMMA AwaitResolvesConsistent ==
  ASSUME IInv, NEW r \in RunId, NEW s \in StepName, NEW e \in EventName,
         AwaitResolves(r, s, e)
  PROVE  Consistent(task', run')
<1> DEFINE new == [run[r] EXCEPT !.eventPayload = Null]
<1>1. Live(run, r) /\ task' = task /\ run' = [run EXCEPT ![r] = new]
  BY DEF AwaitResolves, MayAwait, Live, LiveState
<1>2. /\ new \in RunRow /\ new.task = run[r].task
      /\ new.attempt = run[r].attempt /\ new.state = run[r].state
  BY <1>1, RunRowOf DEF RunRow
<1> HIDE DEF new
<1>3. Consistent(task, [run EXCEPT ![r] = new])
  BY <1>2, TouchConsistent DEF IInv
<1> QED
  BY <1>1, <1>3

LEMMA AwaitTimesOutConsistent ==
  ASSUME IInv, NEW r \in RunId, NEW s \in StepName, NEW e \in EventName,
         AwaitTimesOut(r, s, e)
  PROVE  Consistent(task', run')
<1> DEFINE new == [run[r] EXCEPT !.wakeEvent = Null]
<1>1. Live(run, r) /\ task' = task /\ run' = [run EXCEPT ![r] = new]
  BY DEF AwaitTimesOut, MayAwait, Live, LiveState
<1>2. /\ new \in RunRow /\ new.task = run[r].task
      /\ new.attempt = run[r].attempt /\ new.state = run[r].state
  BY <1>1, RunRowOf DEF RunRow
<1> HIDE DEF new
<1>3. Consistent(task, [run EXCEPT ![r] = new])
  BY <1>2, TouchConsistent DEF IInv
<1> QED
  BY <1>1, <1>3

\* When a wait times out.
LEMMA TimeoutAtType ==
  ASSUME now \in Nat, NEW d \in AwaitTimeouts
  PROVE  /\ (IF d = Null THEN Null ELSE now + d) \in NatOrNull
         /\ Coalesce(IF d = Null THEN Null ELSE now + d, Infinity)
              \in Nat \union {Infinity}
<1>1. CASE d = Null
  BY <1>1 DEF NatOrNull, Coalesce
<1>2. CASE d # Null
  <2>1. d \in Nat
    BY <1>2, ArgumentAssumption DEF NatOrNull
  <2>2. now + d \in Nat /\ now + d # Null
    BY <2>1, NullAssumption
  <2> QED
    BY <1>2, <2>2 DEF NatOrNull, Coalesce
<1> QED
  BY <1>1, <1>2

\* The run await_event parks.
ParkedRun(row, at, e) ==
  [row EXCEPT !.state = "sleeping", !.claimExpires = Null, !.availableAt = at,
              !.wakeEvent = e, !.eventPayload = Null]

LEMMA ParkedRunType ==
  ASSUME NEW row \in RunRow, NEW at \in Nat \union {Infinity},
         NEW e \in EventName
  PROVE  /\ ParkedRun(row, at, e) \in RunRow
         /\ ParkedRun(row, at, e).state = "sleeping"
         /\ ParkedRun(row, at, e).task = row.task
         /\ ParkedRun(row, at, e).attempt = row.attempt
BY DEF ParkedRun, RunRow, RowState, LiveState, NatOrNull

LEMMA AwaitParksConsistent ==
  ASSUME IInv, NEW r \in RunId, NEW s \in StepName, NEW e \in EventName,
         NEW d \in AwaitTimeouts, AwaitParks(r, s, e, d)
  PROVE  Consistent(task', run')
<1> DEFINE t == run[r].task
           at == Coalesce(IF d = Null THEN Null ELSE now + d, Infinity)
           row == [task[t] EXCEPT !.state = "sleeping"]
           new == ParkedRun(run[r], at, e)
<1>1. Live(run, r) /\ task' = [task EXCEPT ![t] = row]
      /\ run' = [run EXCEPT ![r] = new]
  BY DEF AwaitParks, MayAwait, Live, LiveState, ParkedRun
<1>2. at \in Nat \union {Infinity}
  BY <1>1, RunRowOf, TimeoutAtType
<1> HIDE DEF at
<1>3. /\ new \in RunRow /\ new.task = t /\ new.attempt = run[r].attempt
      /\ new.state = "sleeping"
  BY <1>1, <1>2, RunRowOf, ParkedRunType
<1>4. /\ row \in TaskRow /\ row.state = "sleeping"
      /\ row.options = task[t].options /\ row.lastRun = task[t].lastRun
      /\ row.attempts = task[t].attempts
      /\ row.maxAttempts = task[t].maxAttempts
  BY <1>1, RunRowOf DEF TaskRow, RowState, LiveState
<1> HIDE DEF new, row
<1>5. Consistent([task EXCEPT ![t] = row], [run EXCEPT ![r] = new])
  BY <1>1, <1>3, <1>4, MoveOneConsistent DEF IInv
<1> QED
  BY <1>1, <1>5

\* The runs and tasks emit_event wakes.
WokenRun(row, p) ==
  [row EXCEPT !.state = "pending", !.availableAt = now, !.wakeEvent = Null,
              !.eventPayload = p, !.claimExpires = Null]

LEMMA WokenRunType ==
  ASSUME NEW row \in RunRow, NEW p \in Payload, now \in Nat
  PROVE  /\ WokenRun(row, p) \in RunRow
         /\ WokenRun(row, p).state = "pending"
         /\ WokenRun(row, p).task = row.task
         /\ WokenRun(row, p).attempt = row.attempt
BY DEF WokenRun, RunRow, RowState, LiveState, NatOrNull

LEMMA EmitEventConsistent ==
  ASSUME IInv, NEW e \in EventName, NEW p \in Payload, EmitEvent(e, p)
  PROVE  Consistent(task', run')
<1> DEFINE woken == WokenRuns(e)
           rn2 == [r \in RunId |->
                     IF r \in woken THEN WokenRun(run[r], p) ELSE run[r]]
           tk2 == [t \in TaskId |->
                     IF t \in TasksOf(run, woken)
                     THEN [task[t] EXCEPT !.state = "pending"] ELSE task[t]]
<1>1. task' = tk2 /\ run' = rn2
  BY DEF EmitEvent, WokenRun
<1>2. woken \in SUBSET RunId /\ \A r \in woken : Live(run, r)
  BY DEF WokenRuns, Live, LiveState
<1> HIDE DEF woken
<1>3. now \in Nat /\ \A r \in RunId : run[r] \in RunRow
  BY DEF IInv, TypeOK
<1>4. ASSUME NEW r \in RunId
      PROVE  /\ rn2[r] \in RunRow
             /\ rn2[r].task = run[r].task
             /\ rn2[r].attempt = run[r].attempt
             /\ rn2[r].state = IF r \in woken THEN "pending" ELSE run[r].state
  BY <1>3, WokenRunType
<1>5. ASSUME NEW t \in TaskId
      PROVE  /\ tk2[t] \in TaskRow
             /\ tk2[t].options = task[t].options
             /\ tk2[t].lastRun = task[t].lastRun
             /\ tk2[t].attempts = task[t].attempts
             /\ tk2[t].maxAttempts = task[t].maxAttempts
             /\ tk2[t].state = IF t \in TasksOf(run, woken) THEN "pending"
                               ELSE task[t].state
  <2>1. task[t] \in TaskRow
    BY DEF IInv, TypeOK
  <2> QED
    BY <2>1 DEF TaskRow, RowState, LiveState
<1>6. TablesOK(tk2, rn2)
  BY <1>4, <1>5 DEF TablesOK
<1> HIDE DEF tk2, rn2
<1>7. \A r \in woken : tk2[run[r].task].state = rn2[r].state
  <2> TAKE r \in woken
  <2>1. run[r].task \in TaskId /\ run[r].task \in TasksOf(run, woken)
    BY <1>2, RunRowOf DEF TasksOf
  <2> QED
    BY <1>2, <1>4, <1>5, <2>1
<1>8. \A r \in woken : Live(run, r) /\ rn2[r].state # "absent"
  BY <1>2, <1>4
<1>9. Consistent(tk2, rn2)
  BY <1>2, <1>4, <1>5, <1>6, <1>7, <1>8, MoveConsistent DEF IInv
<1> QED
  BY <1>1, <1>9

LEMMA CancelTaskConsistent ==
  ASSUME IInv, NEW t \in TaskId, CancelTask(t)
  PROVE  Consistent(task', run')
<1>1. task' = CancelTasks(task, {t}) /\ run' = CancelRuns(task, run, {t})
  BY DEF CancelTask
<1>2. now \in Nat /\ {t} \in SUBSET TaskId
  BY DEF IInv, TypeOK
<1>3. Consistent(CancelTasks(task, {t}), CancelRuns(task, run, {t}))
  BY <1>2, CancelConsistent DEF IInv
<1> QED
  BY <1>1, <1>3

LEMMA FailRunConsistent ==
  ASSUME IInv, NEW r \in RunId, NEW at \in NatOrNull, FailRun(r, at)
  PROVE  Consistent(task', run')
<1> DEFINE R == {r}
<1>1. PICK fresh \in FreshRuns(run, Retried(task, run, R, at)) :
        /\ task' = FailTasks(task, run, R, at, fresh)
        /\ run' = FailRuns(task, run, R, at, fresh)
  BY DEF FailRun
<1>2. now \in Nat /\ R \in SUBSET RunId
  BY DEF IInv, TypeOK
<1>3. \A x \in R : run[x].state \in {"running", "sleeping"}
  BY DEF FailRun
<1> HIDE DEF R
<1>4. Consistent(FailTasks(task, run, R, at, fresh),
                 FailRuns(task, run, R, at, fresh))
  BY <1>2, <1>3, FailConsistent DEF IInv
<1> QED
  BY <1>1, <1>4

\* The three stages of claim_task: a cancellation, a failure of running runs
\* and a claim of pending or sleeping ones.
LEMMA ClaimStages ==
  ASSUME NEW timeout, NEW qty, NEW locked, ClaimTask(timeout, qty, locked)
  PROVE  \E R \in SUBSET RunId :
           LET tk1 == CancelTasks(task, Overdue(task))
               rn1 == CancelRuns(task, run, Overdue(task))
           IN  /\ \A r \in R : rn1[r].state \in {"running", "sleeping"}
               /\ \E fresh \in FreshRuns(rn1, Retried(tk1, rn1, R, Null)),
                     C \in SUBSET RunId :
                    LET tk2 == FailTasks(tk1, rn1, R, Null, fresh)
                        rn2 == FailRuns(tk1, rn1, R, Null, fresh)
                    IN  /\ \A r \in C : rn2[r].state \in {"pending", "sleeping"}
                        /\ task' = ClaimTasks(tk2, rn2, C)
                        /\ run' = ClaimRuns(rn2, C, timeout)
<1> DEFINE tk1 == CancelTasks(task, Overdue(task))
           rn1 == CancelRuns(task, run, Overdue(task))
           expired == ExpiredClaims(rn1) \ locked
           leases == [r \in RunId |-> rn1[r].claimExpires]
           tk2(R, fresh) == FailTasks(tk1, rn1, R, Null, fresh)
           rn2(R, fresh) == FailRuns(tk1, rn1, R, Null, fresh)
           due(R, fresh) == Claimable(tk2(R, fresh), rn2(R, fresh)) \ locked
           times(R, fresh) == [r \in RunId |-> rn2(R, fresh)[r].availableAt]
<1>1. PICK R \in FirstOf(expired, leases, qty) :
        \E fresh \in FreshRuns(rn1, Retried(tk1, rn1, R, Null)) :
          \E C \in FirstOf(due(R, fresh), times(R, fresh), qty) :
            /\ task' = ClaimTasks(tk2(R, fresh), rn2(R, fresh), C)
            /\ run' = ClaimRuns(rn2(R, fresh), C, timeout)
  BY DEF ClaimTask
<1>2. PICK fresh \in FreshRuns(rn1, Retried(tk1, rn1, R, Null)) :
        \E C \in FirstOf(due(R, fresh), times(R, fresh), qty) :
          /\ task' = ClaimTasks(tk2(R, fresh), rn2(R, fresh), C)
          /\ run' = ClaimRuns(rn2(R, fresh), C, timeout)
  BY <1>1
<1>3. PICK C \in FirstOf(due(R, fresh), times(R, fresh), qty) :
        /\ task' = ClaimTasks(tk2(R, fresh), rn2(R, fresh), C)
        /\ run' = ClaimRuns(rn2(R, fresh), C, timeout)
  BY <1>2
<1>4. R \in SUBSET RunId /\ \A r \in R : rn1[r].state \in {"running", "sleeping"}
  BY DEF FirstOf, ExpiredClaims
<1>5. /\ C \in SUBSET RunId
      /\ \A r \in C : rn2(R, fresh)[r].state \in {"pending", "sleeping"}
  BY DEF FirstOf, Claimable
<1> HIDE DEF tk1, rn1
<1> QED
  BY <1>3, <1>4, <1>5 DEF tk1, rn1

LEMMA ClaimTaskConsistent ==
  ASSUME IInv, NEW timeout \in Nat, NEW qty, NEW locked,
         ClaimTask(timeout, qty, locked)
  PROVE  Consistent(task', run')
<1> DEFINE tk1 == CancelTasks(task, Overdue(task))
           rn1 == CancelRuns(task, run, Overdue(task))
<1>1. PICK R \in SUBSET RunId :
        /\ \A r \in R : rn1[r].state \in {"running", "sleeping"}
        /\ \E fresh \in FreshRuns(rn1, Retried(tk1, rn1, R, Null)),
              C \in SUBSET RunId :
             LET tk2 == FailTasks(tk1, rn1, R, Null, fresh)
                 rn2 == FailRuns(tk1, rn1, R, Null, fresh)
             IN  /\ \A r \in C : rn2[r].state \in {"pending", "sleeping"}
                 /\ task' = ClaimTasks(tk2, rn2, C)
                 /\ run' = ClaimRuns(rn2, C, timeout)
  BY ClaimStages
<1>2. PICK fresh \in FreshRuns(rn1, Retried(tk1, rn1, R, Null)),
           C \in SUBSET RunId :
        LET tk2 == FailTasks(tk1, rn1, R, Null, fresh)
            rn2 == FailRuns(tk1, rn1, R, Null, fresh)
        IN  /\ \A r \in C : rn2[r].state \in {"pending", "sleeping"}
            /\ task' = ClaimTasks(tk2, rn2, C)
            /\ run' = ClaimRuns(rn2, C, timeout)
  BY <1>1
<1> DEFINE tk2 == FailTasks(tk1, rn1, R, Null, fresh)
           rn2 == FailRuns(tk1, rn1, R, Null, fresh)
<1>3. now \in Nat /\ Overdue(task) \in SUBSET TaskId /\ Null \in NatOrNull
  BY DEF IInv, TypeOK, Overdue, NatOrNull
<1>4. Consistent(tk1, rn1)
  BY <1>3, CancelConsistent DEF IInv
<1> HIDE DEF tk1, rn1
<1>5. Consistent(tk2, rn2)
  BY <1>1, <1>3, <1>4, FailConsistent
<1> HIDE DEF tk2, rn2
<1>6. Consistent(ClaimTasks(tk2, rn2, C), ClaimRuns(rn2, C, timeout))
  BY <1>2, <1>3, <1>5, ClaimConsistent DEF tk2, rn2
<1> QED
  BY <1>2, <1>6 DEF tk2, rn2

LEMMA DeleteOldTasksConsistent ==
  ASSUME IInv, NEW ttl \in CleanupTTLs, DeleteOldTasks(ttl)
  PROVE  Consistent(task', run')
<1> DEFINE endedAt == [t \in TaskId |-> TerminalAt(t)]
           old == {t \in TaskId : endedAt[t] # Null /\ endedAt[t] < now - ttl}
<1>1. PICK D \in FirstOf(old, endedAt, CleanupLimit) :
        /\ task' = [t \in TaskId |-> IF t \in D THEN NoTask ELSE task[t]]
        /\ run' = [r \in RunId |-> IF run[r].task \in D THEN NoRun ELSE run[r]]
  BY DEF DeleteOldTasks
<1>2. D \in SUBSET TaskId
  BY DEF FirstOf
<1>3. Consistent(task, run)
  BY DEF IInv
<1>4. Consistent([t \in TaskId |-> IF t \in D THEN NoTask ELSE task[t]],
                 [r \in RunId |-> IF run[r].task \in D THEN NoRun ELSE run[r]])
  BY <1>2, <1>3, DeleteConsistent
<1> QED
  BY <1>1, <1>4

-----------------------------------------------------------------------------
(* The other tables.                                                       *)

OthersOK ==
  /\ checkpoint \in [TaskId \X StepName -> CheckpointRow]
  /\ wait \in SUBSET WaitRow
  /\ event \in [EventName -> EventRow]
  /\ now \in Nat
  /\ EventsCarryPayload

\* emit_event stores the payload, as the event's and as the checkpoint of
\* every step that awaited it.
LEMMA EmitEventOthers ==
  ASSUME IInv, NEW e \in EventName, NEW p \in Payload, EmitEvent(e, p)
  PROVE  OthersOK'
<1> DEFINE served == {w \in AffectedWaits(e) : w.run \in WokenRuns(e)}
           new == [state |-> "emitted", payload |-> p, emittedAt |-> now]
<1>1. /\ wait \in SUBSET WaitRow
      /\ checkpoint \in [TaskId \X StepName -> CheckpointRow]
      /\ event \in [EventName -> EventRow]
      /\ now \in Nat
      /\ EventsCarryPayload
  BY DEF IInv, TypeOK
<1>2. AffectedWaits(e) \subseteq wait /\ served \subseteq WaitRow
  BY <1>1 DEF AffectedWaits
<1>3. checkpoint' \in [TaskId \X StepName -> CheckpointRow]
  <2> DEFINE owner(c) == (CHOOSE w \in served : w.task = c[1] /\ w.step = c[2]).run
             row(c) == IF \E w \in served : w.task = c[1] /\ w.step = c[2]
                       THEN [value |-> p, owner |-> owner(c)]
                       ELSE checkpoint[c]
  <2>1. checkpoint' = [c \in TaskId \X StepName |-> row(c)]
    BY DEF EmitEvent
  <2>2. ASSUME NEW c \in TaskId \X StepName PROVE row(c) \in CheckpointRow
    <3>1. CASE \E w \in served : w.task = c[1] /\ w.step = c[2]
      <4>1. (CHOOSE w \in served : w.task = c[1] /\ w.step = c[2]) \in served
        BY <3>1
      <4>2. owner(c) \in RunId
        BY <1>2, <4>1 DEF WaitRow
      <4> HIDE DEF owner, served
      <4> QED
        BY <3>1, <4>2 DEF CheckpointRow
    <3>2. CASE ~ \E w \in served : w.task = c[1] /\ w.step = c[2]
      <4> HIDE DEF served, owner
      <4>1. row(c) = checkpoint[c]
        BY <3>2
      <4> QED
        BY <1>1, <4>1
    <3> QED
      BY <3>1, <3>2
  <2> HIDE DEF row
  <2> QED
    BY <2>1, <2>2
<1>4. wait' \in SUBSET WaitRow
  BY <1>1, <1>2 DEF EmitEvent
<1>5. new \in EventRow /\ new.state = "emitted" /\ new.payload = p
  BY <1>1 DEF EventRow
<1>6. event' = [event EXCEPT ![e] = new] /\ now' = now
  BY DEF EmitEvent
<1> HIDE DEF new
<1>7. event' \in [EventName -> EventRow] /\ EventsCarryPayload'
  BY <1>1, <1>5, <1>6 DEF EventsCarryPayload
<1> QED
  BY <1>1, <1>3, <1>4, <1>6, <1>7 DEF OthersOK

LEMMA SetCheckpointOthers ==
  ASSUME IInv, NEW r \in RunId, NEW s \in StepName, NEW p \in Payload,
         NEW by \in ExtendBys \union {Null}, SetTaskCheckpointState(r, s, p, by)
  PROVE  OthersOK'
<1> DEFINE c == <<run[r].task, s>>
           row == [value |-> p, owner |-> r]
<1>1. OthersOK
  BY DEF IInv, TypeOK, OthersOK
<1>2. UNCHANGED <<wait, event, now>>
  BY DEF SetTaskCheckpointState
<1>3. row \in CheckpointRow
  BY DEF CheckpointRow
<1>4. checkpoint' = checkpoint \/ checkpoint' = [checkpoint EXCEPT ![c] = row]
  BY DEF SetTaskCheckpointState
<1> HIDE DEF row, c
<1>5. checkpoint' \in [TaskId \X StepName -> CheckpointRow]
  BY <1>1, <1>3, <1>4 DEF OthersOK
<1> QED
  BY <1>1, <1>2, <1>5 DEF OthersOK, EventsCarryPayload

LEMMA WithEventRowOK ==
  ASSUME OthersOK, NEW e \in EventName, event' = WithEventRow(e)
  PROVE  event' \in [EventName -> EventRow] /\ EventsCarryPayload'
<1> DEFINE row == [NoEvent EXCEPT !.state = "sentinel"]
<1>1. row \in EventRow /\ row.state = "sentinel"
  BY DEF NoEvent, EventRow
<1>2. event' = event \/ event' = [event EXCEPT ![e] = row]
  BY DEF WithEventRow
<1> HIDE DEF row
<1> QED
  BY <1>1, <1>2 DEF OthersOK, EventsCarryPayload

LEMMA AwaitEventOthers ==
  ASSUME IInv, NEW r \in RunId, NEW s \in StepName, NEW e \in EventName,
         NEW d \in AwaitTimeouts, AwaitEvent(r, s, e, d)
  PROVE  OthersOK'
<1>1. OthersOK /\ now \in Nat
  BY DEF IInv, TypeOK, OthersOK
<1>2. CASE AwaitResolves(r, s, e)
  <2> DEFINE c == <<run[r].task, s>>
             row == [value |-> event[e].payload, owner |-> r]
  <2>1. row \in CheckpointRow
    BY <1>2 DEF AwaitResolves, IInv, EventsCarryPayload, CheckpointRow
  <2>2. /\ checkpoint' = [checkpoint EXCEPT ![c] = row]
        /\ event' = WithEventRow(e) /\ UNCHANGED <<wait, now>>
    BY <1>2 DEF AwaitResolves
  <2> HIDE DEF row, c
  <2> QED
    BY <1>1, <2>1, <2>2, WithEventRowOK DEF OthersOK
<1>3. CASE AwaitTimesOut(r, s, e)
  BY <1>1, <1>3, WithEventRowOK DEF AwaitTimesOut, OthersOK
<1>4. CASE AwaitParks(r, s, e, d)
  <2> DEFINE at == IF d = Null THEN Null ELSE now + d
             new == [task |-> run[r].task, run |-> r, step |-> s, event |-> e,
                     timeoutAt |-> at]
  <2>1. at \in NatOrNull
    BY <1>1, TimeoutAtType
  <2>2. run[r].task \in TaskId
    <3>1. Live(run, r)
      BY <1>4 DEF AwaitParks, MayAwait, Live, LiveState
    <3> QED
      BY <3>1, RunRowOf
  <2>3. wait' = {w \in wait : ~(w.run = r /\ w.step = s)} \union {new}
    BY <1>4 DEF AwaitParks
  <2> HIDE DEF at
  <2>4. new \in WaitRow
    BY <2>1, <2>2 DEF WaitRow
  <2> HIDE DEF new
  <2>5. wait' \in SUBSET WaitRow
    BY <1>1, <2>3, <2>4 DEF OthersOK
  <2> QED
    BY <1>1, <1>4, <2>5, WithEventRowOK DEF AwaitParks, OthersOK
<1> QED
  BY <1>2, <1>3, <1>4 DEF AwaitEvent

LEMMA ClaimTaskOthers ==
  ASSUME IInv, NEW timeout, NEW qty, NEW locked, ClaimTask(timeout, qty, locked)
  PROVE  OthersOK'
<1>1. OthersOK
  BY DEF IInv, TypeOK, OthersOK
<1>2. UNCHANGED <<checkpoint, event, now>>
  BY DEF ClaimTask
<1>3. \E R, C :
        LET W == {w \in CancelWaits(task, Overdue(task)) : w.run \notin R}
        IN  wait' = W \ TimedOutWaits(W, C)
  BY DEF ClaimTask
<1>4. wait' \subseteq wait
  BY <1>3 DEF CancelWaits
<1> QED
  BY <1>1, <1>2, <1>4 DEF OthersOK, EventsCarryPayload

LEMMA DeleteOldTasksOthers ==
  ASSUME IInv, NEW ttl, DeleteOldTasks(ttl)
  PROVE  /\ checkpoint' \in [TaskId \X StepName -> CheckpointRow]
         /\ wait' \in SUBSET WaitRow
<1>1. PICK D :
        /\ checkpoint' = [c \in TaskId \X StepName |->
                            IF c[1] \in D THEN Null ELSE checkpoint[c]]
        /\ wait' = {w \in wait : w.task \notin D}
  BY DEF DeleteOldTasks
<1>2. Null \in CheckpointRow
  BY DEF CheckpointRow
<1> QED
  BY <1>1, <1>2 DEF IInv, TypeOK

LEMMA DeleteOldEventsOthers ==
  ASSUME IInv, NEW ttl, DeleteOldEvents(ttl)
  PROVE  event' \in [EventName -> EventRow] /\ EventsCarryPayload'
<1>1. PICK D : event' = [e \in EventName |-> IF e \in D THEN NoEvent ELSE event[e]]
  BY DEF DeleteOldEvents
<1>2. NoEvent \in EventRow /\ NoEvent.state = "absent"
  BY DEF NoEvent, EventRow
<1> QED
  BY <1>1, <1>2 DEF IInv, TypeOK, EventsCarryPayload

-----------------------------------------------------------------------------
(* The invariant is inductive.                                             *)

LEMMA InitIInv == Init => IInv
<1> SUFFICES ASSUME Init PROVE IInv
  OBVIOUS
<1>1. /\ NoTask \in TaskRow /\ NoTask.state = "absent"
      /\ NoTask.maxAttempts = Null
      /\ NoRun \in RunRow /\ NoRun.state = "absent"
      /\ NoEvent \in EventRow /\ NoEvent.state = "absent"
      /\ Null \in CheckpointRow
  BY DEF NoTask, NoRun, NoEvent, TaskRow, RunRow, EventRow, CheckpointRow,
         RowState, NatOrNull
<1>2. TypeOK
  BY <1>1 DEF Init, TypeOK
<1>3. Consistent(task, run)
  BY <1>1 DEF Init, Consistent, TablesOK, OptionsKept, LastRunMirrors,
              RunsBelong, AttemptsDiffer, WithinLimit
<1>4. EventsCarryPayload
  BY <1>1 DEF Init, EventsCarryPayload
<1> QED
  BY <1>2, <1>3, <1>4 DEF IInv

LEMMA OthersWithTables ==
  ASSUME Consistent(task', run'), OthersOK'
  PROVE  IInv'
BY DEF Consistent, TablesOK, OthersOK, IInv, TypeOK

LEMMA UnchangedOthers ==
  ASSUME IInv, UNCHANGED <<checkpoint, event, now>>, wait' \subseteq wait
  PROVE  OthersOK'
BY DEF IInv, TypeOK, OthersOK, EventsCarryPayload

LEMMA AfterType ==
  ASSUME now \in Nat, NEW d \in NatOrNull
  PROVE  After(d) \in NatOrNull
BY DEF After, NatOrNull

LEMMA ClientStepIInv == IInv /\ ClientStep => IInv'
<1> SUFFICES ASSUME IInv, ClientStep PROVE IInv'
  OBVIOUS
<1>1. ASSUME NEW t \in TaskId, NEW r \in RunId,
             NEW k \in IdempotencyKey \union {Null}, NEW o \in SpawnOptions,
             SpawnTask(t, r, k, o)
      PROVE  IInv'
  <2>1. OthersOK'
    BY <1>1, UnchangedOthers DEF SpawnTask
  <2> QED
    BY <1>1, <2>1, SpawnTaskConsistent, OthersWithTables
<1>2. ASSUME NEW t \in TaskId, NEW r \in RunId, NEW m \in RetryLimits,
             RetryTask(t, r, m)
      PROVE  IInv'
  <2>1. OthersOK'
    BY <1>2, UnchangedOthers DEF RetryTask
  <2> QED
    BY <1>2, <2>1, RetryTaskConsistent, OthersWithTables
<1>3. ASSUME NEW t \in TaskId, NEW u \in TaskId, NEW r \in RunId,
             NEW m \in RetryLimits, RetryAsNewTask(t, u, r, m)
      PROVE  IInv'
  <2>1. OthersOK'
    BY <1>3, UnchangedOthers DEF RetryAsNewTask
  <2> QED
    BY <1>3, <2>1, RetryAsNewTaskConsistent, OthersWithTables
<1>4. ASSUME NEW t \in TaskId, CancelTask(t) PROVE IInv'
  <2>1. OthersOK'
    BY <1>4, UnchangedOthers DEF CancelTask, CancelWaits
  <2> QED
    BY <1>4, <2>1, CancelTaskConsistent, OthersWithTables
<1>5. ASSUME NEW e \in EventName, NEW p \in Payload, EmitEvent(e, p)
      PROVE  IInv'
  BY <1>5, EmitEventConsistent, EmitEventOthers, OthersWithTables
<1> QED
  BY <1>1, <1>2, <1>3, <1>4, <1>5 DEF ClientStep

LEMMA PollStepIInv == IInv /\ PollStep => IInv'
<1> SUFFICES ASSUME IInv, NEW c \in ClaimTimeouts, NEW q \in ClaimQuantities,
                    NEW locked \in SUBSET LiveRuns, ClaimTask(c, q, locked)
             PROVE  IInv'
  BY DEF PollStep
<1>1. c \in Nat
  BY ArgumentAssumption
<1> QED
  BY <1>1, ClaimTaskConsistent, ClaimTaskOthers, OthersWithTables

LEMMA WorkerStepIInv == IInv /\ WorkerStep => IInv'
<1> SUFFICES ASSUME IInv, WorkerStep PROVE IInv'
  OBVIOUS
<1>0. now \in Nat
  BY DEF IInv, TypeOK
<1>1. ASSUME NEW r \in RunId, CompleteRun(r) PROVE IInv'
  <2>1. OthersOK'
    BY <1>1, UnchangedOthers DEF CompleteRun
  <2> QED
    BY <1>1, <2>1, CompleteRunConsistent, OthersWithTables
<1>2. ASSUME NEW r \in RunId, NEW d \in WakeDelays, ScheduleRun(r, now + d)
      PROVE  IInv'
  <2>1. OthersOK'
    BY <1>2, UnchangedOthers DEF ScheduleRun
  <2>2. now + d \in Nat
    BY <1>0, ArgumentAssumption
  <2>3. Consistent(task', run')
    BY <1>2, <2>2, ScheduleRunConsistent
  <2> QED
    BY <2>1, <2>3, OthersWithTables
<1>3. ASSUME NEW r \in RunId, NEW d \in RetryAfters, FailRun(r, After(d))
      PROVE  IInv'
  <2>1. OthersOK'
    BY <1>3, UnchangedOthers DEF FailRun
  <2>2. After(d) \in NatOrNull
    BY <1>0, ArgumentAssumption, AfterType
  <2>3. Consistent(task', run')
    BY <1>3, <2>2, FailRunConsistent
  <2> QED
    BY <2>1, <2>3, OthersWithTables
<1>4. ASSUME NEW r \in RunId, NEW s \in StepName, NEW p \in Payload,
             NEW by \in ExtendBys \union {Null},
             SetTaskCheckpointState(r, s, p, by)
      PROVE  IInv'
  BY <1>4, SetCheckpointConsistent, SetCheckpointOthers, OthersWithTables
<1>5. ASSUME NEW r \in RunId, NEW by \in ExtendBys, ExtendClaim(r, by)
      PROVE  IInv'
  <2>1. OthersOK'
    BY <1>5, UnchangedOthers DEF ExtendClaim
  <2> QED
    BY <1>5, <2>1, ExtendClaimConsistent, OthersWithTables
<1>6. ASSUME NEW r \in RunId, NEW s \in StepName, NEW e \in EventName,
             NEW d \in AwaitTimeouts, AwaitEvent(r, s, e, d)
      PROVE  IInv'
  <2>1. Consistent(task', run')
    BY <1>6, AwaitResolvesConsistent, AwaitTimesOutConsistent,
       AwaitParksConsistent DEF AwaitEvent
  <2> QED
    BY <1>6, <2>1, AwaitEventOthers, OthersWithTables
<1> QED
  BY <1>1, <1>2, <1>3, <1>4, <1>5, <1>6 DEF WorkerStep

LEMMA CleanupStepIInv == IInv /\ CleanupStep => IInv'
<1> SUFFICES ASSUME IInv, NEW ttl \in CleanupTTLs,
                    CleanupTasks(ttl) \/ CleanupEvents(ttl) \/ CleanupQueue(ttl)
             PROVE  IInv'
  BY DEF CleanupStep
<1>1. CASE CleanupTasks(ttl)
  <2>1. DeleteOldTasks(ttl) /\ UNCHANGED <<event, now>>
    BY <1>1 DEF CleanupTasks
  <2>2. OthersOK'
    BY <2>1, DeleteOldTasksOthers DEF OthersOK, IInv, TypeOK,
       EventsCarryPayload
  <2> QED
    BY <2>1, <2>2, DeleteOldTasksConsistent, OthersWithTables
<1>2. CASE CleanupEvents(ttl)
  <2>1. DeleteOldEvents(ttl) /\ UNCHANGED <<task, run, checkpoint, wait, now>>
    BY <1>2 DEF CleanupEvents
  <2>2. OthersOK'
    BY <2>1, DeleteOldEventsOthers DEF OthersOK, IInv, TypeOK
  <2>3. Consistent(task', run')
    BY <2>1 DEF IInv
  <2> QED
    BY <2>2, <2>3, OthersWithTables
<1>3. CASE CleanupQueue(ttl)
  <2>1. DeleteOldTasks(ttl) /\ DeleteOldEvents(ttl) /\ UNCHANGED now
    BY <1>3 DEF CleanupQueue
  <2>2. OthersOK'
    BY <2>1, DeleteOldTasksOthers, DeleteOldEventsOthers
    DEF OthersOK, IInv, TypeOK
  <2> QED
    BY <2>1, <2>2, DeleteOldTasksConsistent, OthersWithTables
<1> QED
  BY <1>1, <1>2, <1>3

LEMMA NextIInv == IInv /\ [Next]_vars => IInv'
<1> SUFFICES ASSUME IInv, [Next]_vars PROVE IInv'
  OBVIOUS
<1>1. CASE Tick
  BY <1>1 DEF Tick, IInv, TypeOK, EventsCarryPayload
<1>2. CASE UNCHANGED vars
  BY <1>2 DEF vars, IInv, TypeOK, EventsCarryPayload
<1> QED
  BY <1>1, <1>2, ClientStepIInv, PollStepIInv, WorkerStepIInv, CleanupStepIInv
  DEF Next

LEMMA SpecIInv == Spec => []IInv
<1>1. Init => IInv
  BY InitIInv
<1>2. IInv /\ [Next]_vars => IInv'
  BY NextIInv
<1> QED
  BY <1>1, <1>2, PTL DEF Spec

-----------------------------------------------------------------------------
(* The theorems.                                                           *)

\* The tables always hold rows of their types, whatever calls are made.
THEOREM TypeCorrect == Spec => []TypeOK
<1>1. IInv => TypeOK
  BY DEF IInv
<1> QED
  BY <1>1, SpecIInv, PTL

\* A task is never handed out as two attempts at once: spawn_task,
\* retry_task, fail_run, claim_task, emit_event and await_event together
\* leave it at most one run that is pending, running or sleeping.
THEOREM TaskHasOneLiveRun == Spec => []OneLiveRun
<1>1. IInv => OneLiveRun
  <2> SUFFICES ASSUME IInv, NEW r \in RunId, NEW s \in RunId,
                      Live(run, r), Live(run, s), run[r].task = run[s].task
               PROVE  r = s
    BY DEF OneLiveRun
  <2>1. task[run[r].task].lastRun = r /\ task[run[s].task].lastRun = s
    BY LiveRunIsLast DEF IInv
  <2> QED
    BY <2>1
<1> QED
  BY <1>1, SpecIInv, PTL

\* The task row and the row of its last run, written by different statements
\* of every function, always agree.
THEOREM TaskMirrorsLastRun == Spec => []LastRunMirrorsTask
<1>1. IInv => LastRunMirrorsTask
  BY DEF IInv, Consistent, LastRunMirrors, LastRunMirrorsTask
<1> QED
  BY <1>1, SpecIInv, PTL

\* The attempts at a task are distinct numbers up to its attempts column, and
\* all but the last of them have failed.
THEOREM AttemptsAreOrdered == Spec => []AttemptHistory
<1>1. IInv => AttemptHistory
  <2> SUFFICES ASSUME IInv PROVE AttemptHistory
    OBVIOUS
  <2>1. ASSUME NEW r \in RunId, run[r].state # "absent"
        PROVE  /\ run[r].task \in TaskId
               /\ task[run[r].task].state # "absent"
               /\ run[r].attempt \in 1 .. task[run[r].task].attempts
               /\ run[r].attempt < task[run[r].task].attempts
                    => run[r].state = "failed"
    <3>1. /\ run[r].task \in TaskId
          /\ task[run[r].task].state # "absent"
          /\ run[r].attempt >= 1
          /\ run[r].attempt <= task[run[r].task].attempts
          /\ run[r].attempt < task[run[r].task].attempts
               => run[r].state = "failed"
      BY <2>1 DEF IInv, Consistent, RunsBelong
    <3>2. run[r].attempt \in Nat /\ task[run[r].task].attempts \in Nat
      BY <3>1 DEF IInv, TypeOK, RunRow, TaskRow
    <3> QED
      BY <3>1, <3>2
  <2>2. AttemptsDiffer(run)
    BY DEF IInv, Consistent
  <2> QED
    BY <2>1, <2>2 DEF AttemptHistory, AttemptsDiffer
<1> QED
  BY <1>1, SpecIInv, PTL

\* No mix of failures, expired claims and manual retries makes a task exceed
\* its max_attempts.
THEOREM LimitIsRespected == Spec => []AttemptsWithinLimit
<1>1. IInv => AttemptsWithinLimit
  BY DEF IInv, Consistent, WithinLimit, AttemptsWithinLimit
<1> QED
  BY <1>1, SpecIInv, PTL
=============================================================================

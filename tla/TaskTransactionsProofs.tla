----------------------- MODULE TaskTransactionsProofs -----------------------
(***************************************************************************)
(* The row locks keep a task and its runs right, for any number of         *)
(* attempts and sessions.  The argument: a session that has looked at a    *)
(* run holds it until it commits, so what it saw is still so; and          *)
(* cancel_task, once it holds the task, knows every live run, because no   *)
(* run is made without the task.                                           *)
(*                                                                         *)
(* So every call acts as one step, and the sessions implement AtomicTask.  *)
(* Only a cleanup acts on what it has seen before; of that it still knows  *)
(* that the runs it has chosen have ended, and are the first ones.         *)
(***************************************************************************)
EXTENDS TaskTransactions, TLAPS

USE TransactionAssumption

-----------------------------------------------------------------------------
(* The inductive invariant.                                                *)

\* Whoever completes, fails, suspends or wakes a run holds it in the state it saw.
HoldersKnowTheRun ==
  \A s \in Session : session[s].at \in {"complete", "fail", "suspend", "wake"} =>
    /\ session[s].run \in Run
    /\ runLock[session[s].run] = s
    /\ run[session[s].run] \in Requires(session[s].at)

\* A checkpoint is written for a run.
CheckpointersHaveRun ==
  \A s \in Session :
    session[s].at \in {"extend", "read owner", "write checkpoint"} =>
      session[s].run \in Run

\* A run is locked only while it is live.
LockedRunsAreLive == \A r \in Run : runLock[r] # Null => r \in LiveRuns

\* Before a run there are only runs that failed, or were cleaned up.
EarlierRunsFailed ==
  \A q, r \in Run : q < r /\ run[r] # "absent" => run[q] \in {"failed", "absent"}

\* The last run is the last, and the task agrees with it.
LastRunIsLast ==
  task # "deleted" =>
    /\ lastRun \in Run
    /\ run[lastRun] = task \/ (run[lastRun] = "failed" /\ task = "cancelled")
    /\ \A r \in Run : r > lastRun => run[r] = "absent"

\* A cancellation that holds the task knows all live runs.
CancellerKnowsRuns ==
  \A s \in Session : session[s].at = "cancel task" =>
    /\ taskLock = s
    /\ task \in LiveState
    /\ LiveRuns \subseteq session[s].todo \union Held(s)

Inv ==
  /\ TypeOK
  /\ HoldersKnowTheRun
  /\ CheckpointersHaveRun
  /\ LockedRunsAreLive
  /\ EarlierRunsFailed
  /\ LastRunIsLast
  /\ CancellerKnowsRuns

-----------------------------------------------------------------------------
(* Lemmas about live runs and about the end of a transaction.              *)

\* A live run is the last one, and its task is live like it.
LEMMA LiveRunIsLast ==
  ASSUME Inv, NEW r \in Run, r \in LiveRuns
  PROVE  /\ \A q \in Run : q > r => run[q] = "absent"
         /\ \A q \in Run : q < r => run[q] \in {"failed", "absent"}
         /\ task # "deleted" => r = lastRun /\ task = run[r]
<1>1. run[r] \in LiveState
  BY DEF LiveRuns
<1>2. \A q \in Run : q < r => run[q] \in {"failed", "absent"}
  BY <1>1 DEF Inv, EarlierRunsFailed, LiveState
<1>3. \A q \in Run : q > r => run[q] = "absent"
  BY <1>1 DEF Inv, EarlierRunsFailed, LiveState, Run
<1>4. ASSUME task # "deleted" PROVE r = lastRun /\ task = run[r]
  <2>1. lastRun \in Run /\ run[lastRun] # "absent"
    BY <1>4 DEF Inv, TypeOK, LastRunIsLast, LiveState, TerminalState
  <2>2. r = lastRun
    BY <1>1, <1>2, <1>3, <2>1, <1>4 DEF Inv, LastRunIsLast, Run, LiveState
  <2>. QED
    BY <1>1, <1>4, <2>2 DEF Inv, LastRunIsLast, LiveState
<1>. QED
  BY <1>2, <1>3, <1>4

\* What session s does leaves the others where they are, with their locks.
Moves(s) ==
  /\ \A t \in Session \ {s} : session'[t] = session[t]
  /\ \A t \in Session \ {s} : taskLock = t => taskLock' = t
  /\ \A t \in Session \ {s}, r \in Run : runLock[r] = t => runLock'[r] = t

\* Nor does it change the runs that the others hold.
LeavesHeldRuns(s) ==
  \A r \in Run : runLock[r] \notin {Null, s} => run'[r] = run[r]

LEMMA IdleIsARow == Idle \in SessionRow
<1>1. 0 \in 0 .. MaxAttempts
  OBVIOUS
<1>. QED
  BY <1>1 DEF Idle, SessionRow, Point

\* A session that moves on keeps the types of the sessions.
LEMMA MoveKeepsTypes ==
  ASSUME TypeOK, NEW s \in Session, NEW x \in SessionRow,
         session' = [session EXCEPT ![s] = x]
  PROVE  /\ session' \in [Session -> SessionRow]
         /\ session'[s] = x
         /\ \A t \in Session \ {s} : session'[t] = session[t]
<1>. QED
  BY DEF TypeOK

\* What a transaction leaves when it ends.
LEMMA EndReleases ==
  ASSUME TypeOK, NEW s \in Session, End(s)
  PROVE  /\ taskLock' \in Session \union {Null}
         /\ runLock' \in [Run -> Session \union {Null}]
         /\ session' \in [Session -> SessionRow]
         /\ session'[s].at = "idle"
         /\ Moves(s)
         /\ \A r \in Run : runLock'[r] # Null => runLock[r] \notin {Null, s}
<1>1. Idle \in SessionRow /\ Idle.at = "idle"
  BY DEF Idle, SessionRow, Point
<1>2. /\ session' \in [Session -> SessionRow] /\ session'[s].at = "idle"
      /\ \A t \in Session \ {s} : session'[t] = session[t]
  BY <1>1 DEF TypeOK, End
<1>3. /\ runLock' \in [Run -> Session \union {Null}]
      /\ \A r \in Run : runLock'[r] = IF runLock[r] = s THEN Null ELSE runLock[r]
  BY DEF TypeOK, End
<1>4. /\ taskLock' \in Session \union {Null}
      /\ \A t \in Session \ {s} : taskLock = t => taskLock' = t
  BY DEF TypeOK, End
<1>. QED
  BY <1>2, <1>3, <1>4 DEF Moves

\* The other sessions still know the runs they hold.
LEMMA OthersKnowTheRun ==
  ASSUME Inv, NEW s \in Session, Moves(s), LeavesHeldRuns(s),
         NEW t \in Session \ {s},
         session'[t].at \in {"complete", "fail", "suspend", "wake"}
  PROVE  /\ session'[t].run \in Run
         /\ runLock'[session'[t].run] = t
         /\ run'[session'[t].run] \in Requires(session'[t].at)
<1>1. /\ session'[t] = session[t]
      /\ session[t].run \in Run
      /\ runLock[session[t].run] = t
      /\ run[session[t].run] \in Requires(session[t].at)
  BY DEF Moves, Inv, HoldersKnowTheRun
<1>2. runLock'[session[t].run] = t
  BY <1>1 DEF Moves
<1>3. run'[session[t].run] = run[session[t].run]
  BY <1>1 DEF LeavesHeldRuns
<1>. QED
  BY <1>1, <1>2, <1>3

\* A cancellation that holds the task still knows the live runs when another
\* session has changed neither the task nor its runs.
LEMMA OthersKnowLiveRuns ==
  ASSUME Inv, NEW s \in Session, Moves(s), UNCHANGED <<task, run>>,
         NEW t \in Session \ {s}, session'[t].at = "cancel task"
  PROVE  /\ taskLock' = t
         /\ task' \in LiveState
         /\ LiveRuns' \subseteq session'[t].todo \union Held(t)'
<1>1. /\ session'[t] = session[t]
      /\ taskLock = t
      /\ task \in LiveState
      /\ LiveRuns \subseteq session[t].todo \union Held(t)
  BY DEF Moves, Inv, CancellerKnowsRuns
<1>2. taskLock' = t
  BY <1>1 DEF Moves
<1>3. Held(t) \subseteq Held(t)'
  BY DEF Moves, Held
<1>4. LiveRuns' = LiveRuns
  BY DEF LiveRuns
<1>. QED
  BY <1>1, <1>2, <1>3, <1>4

\* A transaction that changes no row and ends keeps the invariant.
LEMMA EndKeepsInv ==
  ASSUME Inv, NEW s \in Session, End(s), UNCHANGED <<task, lastRun, run>>,
         owner' \in 0 .. MaxAttempts
  PROVE  Inv'
<1>1. TypeOK /\ LockedRunsAreLive
  BY DEF Inv
<1>2. LeavesHeldRuns(s)
  BY DEF LeavesHeldRuns
<1>3. TypeOK'
  BY <1>1, EndReleases DEF TypeOK
<1>4. HoldersKnowTheRun'
  BY <1>1, <1>2, EndReleases, OthersKnowTheRun DEF HoldersKnowTheRun
<1>5. CheckpointersHaveRun'
  BY <1>1, EndReleases DEF Inv, CheckpointersHaveRun, Moves
<1>6. LockedRunsAreLive'
  BY <1>1, EndReleases DEF LockedRunsAreLive, LiveRuns
<1>7. EarlierRunsFailed' /\ LastRunIsLast'
  BY DEF Inv, EarlierRunsFailed, LastRunIsLast
<1>8. CancellerKnowsRuns'
  BY <1>1, EndReleases, OthersKnowLiveRuns DEF CancellerKnowsRuns
<1>. QED
  BY <1>3, <1>4, <1>5, <1>6, <1>7, <1>8 DEF Inv

-----------------------------------------------------------------------------
(* Every step keeps the invariant.                                       *)

\* A run is locked in the state that was seen.
LEMMA LockRunKeepsInv ==
  ASSUME Inv, NEW s \in Session, NEW r \in Run,
         NEW point \in {"complete", "fail", "suspend", "wake"}, LockRun(s, r, point)
  PROVE  Inv'
<1>. DEFINE x == [Idle EXCEPT !.at = point, !.run = r]
<1>1. TypeOK /\ x \in SessionRow /\ session' = [session EXCEPT ![s] = x]
  <2>1. TypeOK /\ session' = [session EXCEPT ![s] = x]
    BY DEF Inv, LockRun, Goto
  <2>2. session[s] \in SessionRow
    BY <2>1 DEF TypeOK
  <2>3. x \in SessionRow
    BY IdleIsARow DEF SessionRow, Point
  <2>. QED
    BY <2>1, <2>3
<1>10. x.at = point /\ x.run = r
  BY <1>1 DEF Idle
<1>. HIDE DEF x
<1>2. /\ session' \in [Session -> SessionRow] /\ session'[s] = x
      /\ \A t \in Session \ {s} : session'[t] = session[t]
  BY <1>1, MoveKeepsTypes
<1>3. UNCHANGED <<task, lastRun, run, owner>>
  BY DEF LockRun, rows, locks
<1>4. TypeOK' /\ Moves(s) /\ LeavesHeldRuns(s)
  BY <1>1, <1>2, <1>3 DEF TypeOK, Moves, LeavesHeldRuns, LockRun, rows, locks
<1>5. HoldersKnowTheRun'
  <2>1. /\ session'[s].run = r /\ session'[s].at = point
    BY <1>2, <1>10
  <2>2. runLock'[r] = s /\ run'[r] \in Requires(point)
    BY <1>1, <1>3 DEF TypeOK, LockRun
  <2>. QED
    BY <1>4, <2>1, <2>2, OthersKnowTheRun DEF HoldersKnowTheRun
<1>6. CheckpointersHaveRun'
  BY <1>2, <1>10 DEF Inv, CheckpointersHaveRun
<1>7. LockedRunsAreLive'
  BY <1>1, <1>3 DEF Inv, TypeOK, LockedRunsAreLive, LiveRuns, LiveState,
       LockRun, Requires
<1>8. EarlierRunsFailed' /\ LastRunIsLast'
  BY <1>3 DEF Inv, EarlierRunsFailed, LastRunIsLast
<1>9. CancellerKnowsRuns'
  BY <1>2, <1>3, <1>4, <1>10, OthersKnowLiveRuns DEF CancellerKnowsRuns
<1>. QED
  BY <1>4, <1>5, <1>6, <1>7, <1>8, <1>9 DEF Inv

\* Looking for live runs changes nothing.
LEMMA CancelScanKeepsInv ==
  ASSUME Inv, NEW s \in Session, CancelScan(s)
  PROVE  Inv'
<1>. DEFINE x == [Idle EXCEPT !.at = "cancel runs", !.todo = LiveRuns]
<1>1. TypeOK /\ x \in SessionRow /\ session' = [session EXCEPT ![s] = x]
  <2>1. TypeOK /\ session' = [session EXCEPT ![s] = x]
    BY DEF Inv, CancelScan, Goto
  <2>2. session[s] \in SessionRow
    BY <2>1 DEF TypeOK
  <2>3. x \in SessionRow
    BY IdleIsARow DEF LiveRuns, SessionRow, Point
  <2>. QED
    BY <2>1, <2>3
<1>10. x.at = "cancel runs"
  BY <1>1 DEF Idle
<1>. HIDE DEF x
<1>2. /\ session' \in [Session -> SessionRow] /\ session'[s] = x
      /\ \A t \in Session \ {s} : session'[t] = session[t]
  BY <1>1, MoveKeepsTypes
<1>3. UNCHANGED <<task, lastRun, run, owner>>
  BY DEF CancelScan, rows, locks
<1>4. TypeOK' /\ Moves(s) /\ LeavesHeldRuns(s)
  BY <1>1, <1>2, <1>3 DEF TypeOK, Moves, LeavesHeldRuns, CancelScan, rows,
     locks
<1>5. HoldersKnowTheRun'
  BY <1>2, <1>4, <1>10, OthersKnowTheRun DEF HoldersKnowTheRun
<1>6. CheckpointersHaveRun'
  BY <1>2, <1>10 DEF Inv, CheckpointersHaveRun
<1>7. LockedRunsAreLive'
  BY <1>1, <1>3 DEF Inv, TypeOK, LockedRunsAreLive, LiveRuns, CancelScan, rows,
     locks
<1>8. EarlierRunsFailed' /\ LastRunIsLast'
  BY <1>3 DEF Inv, EarlierRunsFailed, LastRunIsLast
<1>9. CancellerKnowsRuns'
  BY <1>2, <1>3, <1>4, <1>10, OthersKnowLiveRuns DEF CancellerKnowsRuns
<1>. QED
  BY <1>4, <1>5, <1>6, <1>7, <1>8, <1>9 DEF Inv

\* A live run on the list is locked before it leaves the list.
LEMMA CancelLockRunKeepsInv ==
  ASSUME Inv, NEW s \in Session, CancelLockRun(s)
  PROVE  Inv'
<1>. DEFINE x == [session[s] EXCEPT !.todo = session[s].todo \ {Min(session[s].todo)}]
<1>1. TypeOK /\ x \in SessionRow /\ session' = [session EXCEPT ![s] = x]
  <2>1. TypeOK /\ session' = [session EXCEPT ![s] = x]
    BY DEF Inv, CancelLockRun, Goto
  <2>2. session[s] \in SessionRow
    BY <2>1 DEF TypeOK
  <2>3. x \in SessionRow
    BY <2>2 DEF SessionRow, Point
  <2>. QED
    BY <2>1, <2>3
<1>. HIDE DEF x
<1>2. /\ session' \in [Session -> SessionRow] /\ session'[s] = x
      /\ \A t \in Session \ {s} : session'[t] = session[t]
  BY <1>1, MoveKeepsTypes
<1>3. UNCHANGED <<task, lastRun, run, owner>>
  BY DEF CancelLockRun, rows, locks
<1>4. TypeOK' /\ Moves(s) /\ LeavesHeldRuns(s)
  BY <1>1, <1>2, <1>3 DEF TypeOK, Moves, LeavesHeldRuns, CancelLockRun, rows,
     locks
<1>5. HoldersKnowTheRun'
  <2>1. session'[s].at \notin {"complete", "fail", "suspend", "wake"}
    BY <1>1, <1>2 DEF x, CancelLockRun, At, TypeOK, SessionRow
  <2>. QED
    BY <1>4, <2>1, OthersKnowTheRun DEF HoldersKnowTheRun
<1>6. CheckpointersHaveRun'
  BY <1>1, <1>2 DEF Inv, TypeOK, SessionRow, CheckpointersHaveRun,
     CancelLockRun, At, x
<1>7. LockedRunsAreLive'
  BY <1>1, <1>3 DEF Inv, TypeOK, LockedRunsAreLive, LiveRuns, CancelLockRun,
     rows, locks
<1>8. EarlierRunsFailed' /\ LastRunIsLast'
  BY <1>3 DEF Inv, EarlierRunsFailed, LastRunIsLast
<1>9. CancellerKnowsRuns'
  <2>1. ASSUME session'[s].at = "cancel task"
        PROVE  /\ taskLock' = s
               /\ task' \in LiveState
               /\ LiveRuns' \subseteq session'[s].todo \union Held(s)'
    <3>1. session[s].at = "cancel task"
      BY <1>1, <1>2, <2>1 DEF x, TypeOK, SessionRow
    <3>2. /\ taskLock = s /\ task \in LiveState
          /\ LiveRuns \subseteq session[s].todo \union Held(s)
      BY <3>1 DEF Inv, CancellerKnowsRuns
    <3>3. session'[s].todo = session[s].todo \ {Min(session[s].todo)}
      BY <1>1, <1>2 DEF x, TypeOK, SessionRow
    <3>4. Held(s)' = Held(s) \union (LiveRuns \intersect {Min(session[s].todo)})
      BY <1>1 DEF CancelLockRun, Held, TypeOK, LiveRuns
    <3>5. LiveRuns' = LiveRuns /\ taskLock' = taskLock /\ task' = task
      BY <1>3 DEF LiveRuns, CancelLockRun
    <3>. QED
      BY <3>2, <3>3, <3>4, <3>5
  <2>. QED
    BY <1>3, <1>4, <2>1, OthersKnowLiveRuns DEF CancellerKnowsRuns
<1>. QED
  BY <1>4, <1>5, <1>6, <1>7, <1>8, <1>9 DEF Inv

\* The list that is made with the task locked has every live run.
LEMMA CancelLockTaskKeepsInv ==
  ASSUME Inv, NEW s \in Session, CancelLockTask(s)
  PROVE  Inv'
<1>1. CASE task \notin LiveState
  BY <1>1, EndKeepsInv DEF Inv, TypeOK, CancelLockTask, rows
<1>2. CASE task \in LiveState
  <2>. DEFINE x == [session[s] EXCEPT !.at = "cancel task", !.todo = LiveRuns]
  <2>1. TypeOK /\ x \in SessionRow /\ session' = [session EXCEPT ![s] = x]
    <3>1. TypeOK /\ session' = [session EXCEPT ![s] = x]
      BY <1>2 DEF Inv, CancelLockTask
    <3>2. session[s] \in SessionRow
      BY <3>1 DEF TypeOK
    <3>3. x \in SessionRow
      BY <3>2 DEF SessionRow, Point, LiveRuns
    <3>. QED
      BY <3>1, <3>3
  <2>2. x.at = "cancel task" /\ x.todo = LiveRuns
    BY <2>1 DEF TypeOK, SessionRow
  <2>. HIDE DEF x
  <2>3. /\ session' \in [Session -> SessionRow] /\ session'[s] = x
        /\ \A t \in Session \ {s} : session'[t] = session[t]
    BY <2>1, MoveKeepsTypes
  <2>4. /\ UNCHANGED <<task, lastRun, run, owner, runLock>>
        /\ taskLock = Null /\ taskLock' = s
    BY <1>2 DEF CancelLockTask, rows
  <2>5. TypeOK' /\ Moves(s) /\ LeavesHeldRuns(s)
    BY <2>1, <2>3, <2>4 DEF TypeOK, Moves, LeavesHeldRuns
  <2>6. HoldersKnowTheRun'
    BY <2>2, <2>3, <2>5, OthersKnowTheRun DEF HoldersKnowTheRun
  <2>7. CheckpointersHaveRun'
    BY <2>2, <2>3 DEF Inv, CheckpointersHaveRun
  <2>8. LockedRunsAreLive' /\ EarlierRunsFailed' /\ LastRunIsLast'
    BY <2>4 DEF Inv, LockedRunsAreLive, LiveRuns, EarlierRunsFailed,
       LastRunIsLast
  <2>9. LiveRuns' = LiveRuns
    BY <2>4 DEF LiveRuns
  <2>10. CancellerKnowsRuns'
    BY <1>2, <2>2, <2>3, <2>4, <2>5, <2>9, OthersKnowLiveRuns DEF
       CancellerKnowsRuns
  <2>. QED
    BY <2>5, <2>6, <2>7, <2>8, <2>10 DEF Inv
<1>. QED
  BY <1>1, <1>2

\* Beginning a checkpoint locks nothing.
LEMMA BeginCheckpointKeepsInv ==
  ASSUME Inv, NEW s \in Session, NEW r \in Run, BeginCheckpoint(s, r)
  PROVE  Inv'
<1>. DEFINE x == [Idle EXCEPT !.at = "extend", !.run = r]
<1>1. TypeOK /\ x \in SessionRow /\ session' = [session EXCEPT ![s] = x]
  <2>1. TypeOK /\ session' = [session EXCEPT ![s] = x]
    BY DEF Inv, BeginCheckpoint, Goto
  <2>2. session[s] \in SessionRow
    BY <2>1 DEF TypeOK
  <2>3. x \in SessionRow
    BY IdleIsARow DEF SessionRow, Point
  <2>. QED
    BY <2>1, <2>3
<1>10. x.at = "extend" /\ x.run = r
  BY <1>1 DEF Idle
<1>. HIDE DEF x
<1>2. /\ session' \in [Session -> SessionRow] /\ session'[s] = x
      /\ \A t \in Session \ {s} : session'[t] = session[t]
  BY <1>1, MoveKeepsTypes
<1>3. UNCHANGED <<task, lastRun, run, owner>>
  BY DEF BeginCheckpoint, rows, locks
<1>4. TypeOK' /\ Moves(s) /\ LeavesHeldRuns(s)
  BY <1>1, <1>2, <1>3 DEF TypeOK, Moves, LeavesHeldRuns, BeginCheckpoint, rows,
     locks
<1>5. HoldersKnowTheRun'
  BY <1>2, <1>4, <1>10, OthersKnowTheRun DEF HoldersKnowTheRun
<1>6. CheckpointersHaveRun'
  BY <1>2, <1>10 DEF Inv, CheckpointersHaveRun
<1>7. LockedRunsAreLive'
  BY <1>1, <1>3 DEF Inv, TypeOK, LockedRunsAreLive, LiveRuns, BeginCheckpoint,
     rows, locks
<1>8. EarlierRunsFailed' /\ LastRunIsLast'
  BY <1>3 DEF Inv, EarlierRunsFailed, LastRunIsLast
<1>9. CancellerKnowsRuns'
  BY <1>2, <1>3, <1>4, <1>10, OthersKnowLiveRuns DEF CancellerKnowsRuns
<1>. QED
  BY <1>4, <1>5, <1>6, <1>7, <1>8, <1>9 DEF Inv

\* Extending a claim locks a running run, or none.
LEMMA ExtendClaimKeepsInv ==
  ASSUME Inv, NEW s \in Session, ExtendClaim(s)
  PROVE  Inv'
<1>. DEFINE x == [session[s] EXCEPT !.at = "read owner"]
<1>1. TypeOK /\ x \in SessionRow /\ session' = [session EXCEPT ![s] = x]
  <2>1. TypeOK /\ session' = [session EXCEPT ![s] = x]
    BY DEF Inv, ExtendClaim, Goto
  <2>2. session[s] \in SessionRow
    BY <2>1 DEF TypeOK
  <2>3. x \in SessionRow
    BY <2>2 DEF SessionRow, Point
  <2>. QED
    BY <2>1, <2>3
<1>. HIDE DEF x
<1>2. /\ session' \in [Session -> SessionRow] /\ session'[s] = x
      /\ \A t \in Session \ {s} : session'[t] = session[t]
  BY <1>1, MoveKeepsTypes
<1>3. UNCHANGED <<task, lastRun, run, owner>>
  BY DEF ExtendClaim, rows, locks
<1>4. TypeOK' /\ Moves(s) /\ LeavesHeldRuns(s)
  BY <1>1, <1>2, <1>3 DEF TypeOK, Moves, LeavesHeldRuns, ExtendClaim, rows,
     locks
<1>5. HoldersKnowTheRun'
  <2>1. session'[s].at = "read owner"
    BY <1>1, <1>2 DEF x, TypeOK, SessionRow
  <2>. QED
    BY <1>4, <2>1, OthersKnowTheRun DEF HoldersKnowTheRun
<1>6. CheckpointersHaveRun'
  BY <1>1, <1>2 DEF Inv, TypeOK, SessionRow, CheckpointersHaveRun, ExtendClaim,
     At, x
<1>7. LockedRunsAreLive'
  <2>1. session[s].run \in Run
    BY DEF Inv, CheckpointersHaveRun, ExtendClaim, At
  <2>. QED
    BY <1>1, <1>3, <2>1 DEF Inv, TypeOK, LockedRunsAreLive, LiveRuns,
       LiveState,
         ExtendClaim
<1>8. EarlierRunsFailed' /\ LastRunIsLast'
  BY <1>3 DEF Inv, EarlierRunsFailed, LastRunIsLast
<1>9. CancellerKnowsRuns'
  <2>1. session'[s].at = "read owner"
    BY <1>1, <1>2 DEF x, TypeOK, SessionRow
  <2>. QED
    BY <1>3, <1>4, <2>1, OthersKnowLiveRuns DEF CancellerKnowsRuns
<1>. QED
  BY <1>4, <1>5, <1>6, <1>7, <1>8, <1>9 DEF Inv

\* The session goes on with what it has seen.
LEMMA ReadOwnerMoves ==
  ASSUME TypeOK, OwnerAttempt \in 0 .. MaxAttempts, NEW s \in Session,
         ReadOwner(s), OwnerAttempt <= session[s].run
  PROVE  LET x == [session[s] EXCEPT !.at = "write checkpoint", !.saw = OwnerAttempt]
         IN  /\ TypeOK /\ x \in SessionRow /\ x.at = "write checkpoint"
             /\ session' = [session EXCEPT ![s] = x]
<1>. DEFINE x == [session[s] EXCEPT !.at = "write checkpoint", !.saw = OwnerAttempt]
<1>1. session[s] \in SessionRow
  BY DEF TypeOK
<1>2. x \in SessionRow /\ x.at = "write checkpoint"
  BY <1>1 DEF SessionRow, Point
<1>3. session' = [session EXCEPT ![s] = x]
  BY DEF ReadOwner
<1>. QED
  BY <1>2, <1>3

\* Reading the owner changes no row.
LEMMA ReadOwnerKeepsInv ==
  ASSUME Inv, NEW s \in Session, ReadOwner(s)
  PROVE  Inv'
<1>1. CASE ~(OwnerAttempt <= session[s].run)
  BY <1>1, EndKeepsInv DEF Inv, TypeOK, ReadOwner, rows
<1>2. CASE OwnerAttempt <= session[s].run
  <2>. DEFINE x == [session[s] EXCEPT !.at = "write checkpoint", !.saw = OwnerAttempt]
  <2>1. TypeOK /\ x \in SessionRow /\ session' = [session EXCEPT ![s] = x]
    <3>1. OwnerAttempt \in 0 .. MaxAttempts
      BY DEF Inv, TypeOK, OwnerAttempt
    <3>. QED
      BY <1>2, <3>1, ReadOwnerMoves DEF Inv
  <2>2. x.at = "write checkpoint" /\ x.run \in Run
    BY <2>1 DEF Inv, TypeOK, SessionRow, CheckpointersHaveRun, ReadOwner, At
  <2>. HIDE DEF x
  <2>3. /\ session' \in [Session -> SessionRow] /\ session'[s] = x
        /\ \A t \in Session \ {s} : session'[t] = session[t]
    BY <2>1, MoveKeepsTypes
  <2>4. UNCHANGED <<task, lastRun, run, owner, runLock, taskLock>>
    BY <1>2 DEF ReadOwner, rows, locks
  <2>5. TypeOK' /\ Moves(s) /\ LeavesHeldRuns(s)
    BY <2>1, <2>3, <2>4 DEF TypeOK, Moves, LeavesHeldRuns
  <2>6. HoldersKnowTheRun'
    BY <2>2, <2>3, <2>5, OthersKnowTheRun DEF HoldersKnowTheRun
  <2>7. CheckpointersHaveRun'
    BY <2>2, <2>3 DEF Inv, CheckpointersHaveRun
  <2>8. LockedRunsAreLive' /\ EarlierRunsFailed' /\ LastRunIsLast'
    BY <2>4 DEF Inv, LockedRunsAreLive, LiveRuns, EarlierRunsFailed,
       LastRunIsLast
  <2>9. CancellerKnowsRuns'
    BY <2>2, <2>3, <2>4, <2>5, OthersKnowLiveRuns DEF CancellerKnowsRuns
  <2>. QED
    BY <2>5, <2>6, <2>7, <2>8, <2>9 DEF Inv
<1>. QED
  BY <1>1, <1>2

\* Writing a checkpoint changes neither the task nor its runs.
LEMMA WriteCheckpointKeepsInv ==
  ASSUME Inv, NEW s \in Session, WriteCheckpoint(s)
  PROVE  Inv'
<1>1. owner' \in 0 .. MaxAttempts
  <2>1. session[s].run \in Run
    BY DEF Inv, CheckpointersHaveRun, WriteCheckpoint, At
  <2>2. owner' = session[s].run
    BY DEF WriteCheckpoint
  <2>. QED
    BY <2>1, <2>2 DEF Run
<1>. QED
  BY <1>1, EndKeepsInv DEF WriteCheckpoint

\* A rollback changes no row.
LEMMA AbortKeepsInv ==
  ASSUME Inv, NEW s \in Session, Abort(s)
  PROVE  Inv'
<1>. QED
  BY EndKeepsInv DEF Inv, TypeOK, Abort, rows

\* Selecting a task for cleanup changes no row.
LEMMA SelectOldKeepsInv ==
  ASSUME Inv, NEW s \in Session, SelectOld(s)
  PROVE  Inv'
<1>. DEFINE x == [Idle EXCEPT !.at = "delete",
                            !.todo = {q \in Run : run[q] # "absent"}]
<1>1. TypeOK /\ x \in SessionRow /\ session' = [session EXCEPT ![s] = x]
  <2>1. TypeOK /\ session' = [session EXCEPT ![s] = x]
    BY DEF Inv, SelectOld, Goto
  <2>2. session[s] \in SessionRow
    BY <2>1 DEF TypeOK
  <2>3. x \in SessionRow
    BY IdleIsARow DEF SessionRow, Point
  <2>. QED
    BY <2>1, <2>3
<1>10. x.at = "delete"
  BY <1>1 DEF Idle
<1>. HIDE DEF x
<1>2. /\ session' \in [Session -> SessionRow] /\ session'[s] = x
      /\ \A t \in Session \ {s} : session'[t] = session[t]
  BY <1>1, MoveKeepsTypes
<1>3. UNCHANGED <<task, lastRun, run, owner>>
  BY DEF SelectOld, rows, locks
<1>4. TypeOK' /\ Moves(s) /\ LeavesHeldRuns(s)
  BY <1>1, <1>2, <1>3 DEF TypeOK, Moves, LeavesHeldRuns, SelectOld, rows, locks
<1>5. HoldersKnowTheRun'
  BY <1>2, <1>4, <1>10, OthersKnowTheRun DEF HoldersKnowTheRun
<1>6. CheckpointersHaveRun'
  BY <1>2, <1>10 DEF Inv, CheckpointersHaveRun
<1>7. LockedRunsAreLive'
  BY <1>1, <1>3 DEF Inv, TypeOK, LockedRunsAreLive, LiveRuns, SelectOld, rows,
     locks
<1>8. EarlierRunsFailed' /\ LastRunIsLast'
  BY <1>3 DEF Inv, EarlierRunsFailed, LastRunIsLast
<1>9. CancellerKnowsRuns'
  BY <1>2, <1>3, <1>4, <1>10, OthersKnowLiveRuns DEF CancellerKnowsRuns
<1>. QED
  BY <1>4, <1>5, <1>6, <1>7, <1>8, <1>9 DEF Inv

\* Completing a run ends the last run, and the task with it.
LEMMA CompleteKeepsInv ==
  ASSUME Inv, NEW s \in Session, Complete(s)
  PROVE  Inv'
<1>1. TypeOK /\ End(s)
  BY DEF Inv, Complete
<1>. DEFINE r == session[s].run
<1>2. /\ r \in Run /\ runLock[r] = s /\ r \in LiveRuns
      /\ run' = [run EXCEPT ![r] = "completed"]
  BY DEF Inv, HoldersKnowTheRun, LiveRuns, LiveState, Requires, Complete, At
<1>. HIDE DEF r
<1>3. LeavesHeldRuns(s)
  BY <1>1, <1>2 DEF TypeOK, LeavesHeldRuns
<1>4. TypeOK'
  <2>1. task' \in {task, "completed"} /\ lastRun' \in {lastRun, r}
    BY DEF Complete, TaskBecomes, r
  <2>2. r \in 0 .. MaxAttempts
    BY <1>2 DEF Run
  <2>. QED
    BY <1>1, <1>2, <2>1, <2>2, EndReleases DEF TypeOK, Complete, LiveState,
       TerminalState, Run
<1>5. HoldersKnowTheRun'
  BY <1>1, <1>3, EndReleases, OthersKnowTheRun DEF HoldersKnowTheRun
<1>6. CheckpointersHaveRun'
  BY <1>1, EndReleases DEF Inv, CheckpointersHaveRun, Moves
<1>7. LockedRunsAreLive'
  BY <1>1, <1>3, EndReleases DEF Inv, LockedRunsAreLive, LeavesHeldRuns,
     LiveRuns
<1>8. EarlierRunsFailed'
  BY <1>1, <1>2, LiveRunIsLast DEF Inv, TypeOK, EarlierRunsFailed, Run
<1>9. LastRunIsLast'
  <2>1. ASSUME task' # "deleted" PROVE task # "deleted" /\ task' = "completed" /\ lastRun' = r
    BY <2>1 DEF Complete, TaskBecomes, r
  <2>. QED
    BY <1>1, <1>2, <2>1, LiveRunIsLast DEF TypeOK, LastRunIsLast, Run
<1>10. CancellerKnowsRuns'
  <2>1. \A t \in Session \ {s} : taskLock # t
    BY <1>1 DEF Inv, Complete
  <2>2. \A t \in Session \ {s} : session[t].at # "cancel task"
    BY <2>1 DEF Inv, CancellerKnowsRuns
  <2>3. \A t \in Session : session'[t].at # "cancel task"
    BY <1>1, <2>2, EndReleases DEF Moves
  <2>. QED
    BY <2>3 DEF CancellerKnowsRuns
<1>. QED
  BY <1>4, <1>5, <1>6, <1>7, <1>8, <1>9, <1>10 DEF Inv

\* A run that is suspended or woken stays the last, live one.
LEMMA SuspendOrWakeKeepsInv ==
  ASSUME Inv, NEW s \in Session, Suspend(s) \/ Wake(s)
  PROVE  Inv'
<1>1. TypeOK /\ End(s)
  BY DEF Inv, Suspend, Wake
<1>. DEFINE r == session[s].run
<1>2. r \in Run /\ runLock[r] = s /\ r \in LiveRuns
  BY DEF Inv, HoldersKnowTheRun, LiveRuns, LiveState, Requires, Suspend, Wake, At
<1>11. PICK state \in {"sleeping", "pending"} :
         run' = [run EXCEPT ![r] = state] /\ TaskMoves(state)
  BY DEF Suspend, Wake
<1>. HIDE DEF r
<1>3. LeavesHeldRuns(s)
  BY <1>1, <1>2, <1>11 DEF TypeOK, LeavesHeldRuns
<1>4. TypeOK'
  <2>1. task' \in {task, state} /\ lastRun' = lastRun
    BY <1>11 DEF TaskMoves, TaskBecomes
  <2>2. owner' \in {owner, r} /\ r \in 0 .. MaxAttempts
    BY <1>2 DEF Suspend, Wake, r, Run
  <2>. QED
    BY <1>1, <1>2, <1>11, <2>1, <2>2, EndReleases DEF TypeOK, LiveState,
       TerminalState, Run
<1>5. HoldersKnowTheRun'
  BY <1>1, <1>3, EndReleases, OthersKnowTheRun DEF HoldersKnowTheRun
<1>6. CheckpointersHaveRun'
  BY <1>1, EndReleases DEF Inv, CheckpointersHaveRun, Moves
<1>7. LockedRunsAreLive'
  BY <1>1, <1>3, EndReleases DEF Inv, LockedRunsAreLive, LeavesHeldRuns,
     LiveRuns
<1>8. EarlierRunsFailed'
  BY <1>1, <1>2, <1>11, LiveRunIsLast DEF Inv, TypeOK, EarlierRunsFailed, Run
<1>9. LastRunIsLast'
  <2>1. ASSUME task' # "deleted" PROVE task # "deleted" /\ task' = state /\ lastRun' = lastRun
    BY <1>11, <2>1 DEF TaskMoves, TaskBecomes
  <2>. QED
    BY <1>1, <1>2, <1>11, <2>1, LiveRunIsLast DEF TypeOK, LastRunIsLast, Run
<1>10. CancellerKnowsRuns'
  <2>1. \A t \in Session \ {s} : taskLock # t
    BY <1>1 DEF Inv, Suspend, Wake
  <2>2. \A t \in Session \ {s} : session[t].at # "cancel task"
    BY <2>1 DEF Inv, CancellerKnowsRuns
  <2>3. \A t \in Session : session'[t].at # "cancel task"
    BY <1>1, <2>2, EndReleases DEF Moves
  <2>. QED
    BY <2>3 DEF CancellerKnowsRuns
<1>. QED
  BY <1>4, <1>5, <1>6, <1>7, <1>8, <1>9, <1>10 DEF Inv

\* A run that fails is followed by one run or none.
LEMMA FailKeepsInv ==
  ASSUME Inv, NEW s \in Session, Fail(s)
  PROVE  Inv'
<1>1. TypeOK /\ End(s)
  BY DEF Inv, Fail
<1>. DEFINE r == session[s].run
<1>2. /\ r \in Run /\ runLock[r] = s /\ r \in LiveRuns
  BY DEF Inv, HoldersKnowTheRun, LiveRuns, LiveState, Requires, Fail, At
<1>11. PICK outcome \in FailOutcomes(r) :
         IF outcome \in LiveState
         THEN /\ run' = [run EXCEPT ![r] = "failed", ![r + 1] = outcome]
              /\ TaskBecomes(outcome, r + 1)
         ELSE /\ run' = [run EXCEPT ![r] = "failed"]
              /\ TaskBecomes(outcome, r)
  BY DEF Fail
<1>. HIDE DEF r
<1>12. outcome \in {"failed", "pending", "sleeping", "cancelled"}
  BY DEF FailOutcomes
<1>13. ASSUME outcome \in LiveState
       PROVE  /\ r + 1 \in Run /\ run[r + 1] = "absent"
              /\ run' = [run EXCEPT ![r] = "failed", ![r + 1] = outcome]
  <2>1. r < MaxAttempts
    BY <1>13 DEF FailOutcomes, LiveState
  <2>2. r + 1 \in Run /\ r + 1 > r
    BY <1>2, <2>1 DEF Run
  <2>. QED
    BY <1>2, <1>11, <1>13, <2>2, LiveRunIsLast
<1>3. LeavesHeldRuns(s)
  <2>1. \A q \in Run : run[q] = "absent" => runLock[q] = Null
    BY DEF Inv, LockedRunsAreLive, LiveRuns, LiveState
  <2>. QED
    BY <1>1, <1>2, <1>11, <1>13, <2>1 DEF TypeOK, LeavesHeldRuns
<1>4. TypeOK'
  <2>1. run' \in [Run -> LiveState \union TerminalState \union {"absent"}]
    BY <1>1, <1>2, <1>11, <1>12, <1>13 DEF TypeOK, TerminalState
  <2>2. /\ task' \in {task, outcome}
        /\ lastRun' \in 0 .. MaxAttempts
    BY <1>1, <1>2, <1>11, <1>13 DEF TaskBecomes, TypeOK, Run
  <2>. QED
    BY <1>1, <1>12, <2>1, <2>2, EndReleases DEF TypeOK, Fail, LiveState,
       TerminalState
<1>5. HoldersKnowTheRun'
  BY <1>1, <1>3, EndReleases, OthersKnowTheRun DEF HoldersKnowTheRun
<1>6. CheckpointersHaveRun'
  BY <1>1, EndReleases DEF Inv, CheckpointersHaveRun, Moves
<1>7. LockedRunsAreLive'
  BY <1>1, <1>3, EndReleases DEF Inv, LockedRunsAreLive, LeavesHeldRuns,
     LiveRuns
<1>8. EarlierRunsFailed'
  <2>1. CASE outcome \in LiveState
    BY <1>1, <1>2, <1>13, <2>1, LiveRunIsLast DEF Inv, TypeOK,
       EarlierRunsFailed, Run
  <2>2. CASE outcome \notin LiveState
    BY <1>1, <1>2, <1>11, <2>2, LiveRunIsLast DEF Inv, TypeOK,
       EarlierRunsFailed, Run
  <2>. QED
    BY <2>1, <2>2
<1>9. LastRunIsLast'
  <2>1. CASE outcome \in LiveState
    <3>1. ASSUME task' # "deleted" PROVE task # "deleted" /\ task' = outcome /\ lastRun' = r + 1
      BY <1>11, <2>1, <3>1 DEF TaskBecomes
    <3>. QED
      BY <1>1, <1>2, <1>13, <2>1, <3>1, LiveRunIsLast DEF TypeOK,
         LastRunIsLast, Run
  <2>2. CASE outcome \notin LiveState
    <3>1. ASSUME task' # "deleted" PROVE task # "deleted" /\ task' = outcome /\ lastRun' = r
      BY <1>11, <2>2, <3>1 DEF TaskBecomes
    <3>2. outcome \in {"failed", "cancelled"}
      BY <1>12, <2>2 DEF LiveState
    <3>. QED
      BY <1>1, <1>2, <1>11, <2>2, <3>1, <3>2, LiveRunIsLast DEF TypeOK,
         LastRunIsLast, Run
  <2>. QED
    BY <2>1, <2>2
<1>10. CancellerKnowsRuns'
  <2>1. \A t \in Session \ {s} : taskLock # t
    BY <1>1 DEF Inv, Fail
  <2>2. \A t \in Session \ {s} : session[t].at # "cancel task"
    BY <2>1 DEF Inv, CancellerKnowsRuns
  <2>3. \A t \in Session : session'[t].at # "cancel task"
    BY <1>1, <2>2, EndReleases DEF Moves
  <2>. QED
    BY <2>3 DEF CancellerKnowsRuns
<1>. QED
  BY <1>4, <1>5, <1>6, <1>7, <1>8, <1>9, <1>10 DEF Inv

\* A cancellation ends the task and its live runs.
LEMMA CancelKeepsInv ==
  ASSUME Inv, NEW s \in Session, Cancel(s)
  PROVE  Inv'
<1>1. TypeOK /\ End(s)
  BY DEF Inv, Cancel
<1>2. /\ taskLock = s /\ task \in LiveState
      /\ Held(s) = LiveRuns
      /\ run' = [r \in Run |-> IF r \in LiveRuns THEN "cancelled" ELSE run[r]]
  <2>1. session[s].todo = {} /\ session[s].at = "cancel task"
    BY DEF Cancel, At
  <2>2. taskLock = s /\ task \in LiveState /\ LiveRuns \subseteq Held(s)
    BY <2>1 DEF Inv, CancellerKnowsRuns
  <2>3. Held(s) \subseteq LiveRuns
    BY DEF Inv, LockedRunsAreLive, Held
  <2>. QED
    BY <2>2, <2>3 DEF Cancel
<1>3. LeavesHeldRuns(s)
  BY <1>2 DEF LeavesHeldRuns, Held
<1>4. TypeOK'
  BY <1>1, <1>2, EndReleases DEF TypeOK, Cancel, TerminalState
<1>5. HoldersKnowTheRun'
  BY <1>1, <1>3, EndReleases, OthersKnowTheRun DEF HoldersKnowTheRun
<1>6. CheckpointersHaveRun'
  BY <1>1, EndReleases DEF Inv, CheckpointersHaveRun, Moves
<1>7. LockedRunsAreLive'
  BY <1>1, <1>3, EndReleases DEF Inv, LockedRunsAreLive, LeavesHeldRuns,
     LiveRuns
<1>8. EarlierRunsFailed'
  BY <1>1, <1>2, LiveRunIsLast DEF Inv, TypeOK, EarlierRunsFailed, LiveRuns,
     LiveState
<1>9. LastRunIsLast'
  <2>1. lastRun' = lastRun /\ task' = "cancelled" /\ task # "deleted"
    BY <1>2 DEF Cancel, LiveState
  <2>2. lastRun \in Run /\ run[lastRun] = task /\ \A r \in Run : r > lastRun => run[r] = "absent"
    BY <1>2, <2>1 DEF Inv, LastRunIsLast, LiveState
  <2>. QED
    BY <1>2, <2>1, <2>2 DEF LastRunIsLast, LiveRuns, LiveState
<1>10. CancellerKnowsRuns'
  <2>1. \A t \in Session \ {s} : taskLock # t
    BY <1>2
  <2>2. \A t \in Session \ {s} : session[t].at # "cancel task"
    BY <2>1 DEF Inv, CancellerKnowsRuns
  <2>3. \A t \in Session : session'[t].at # "cancel task"
    BY <1>1, <2>2, EndReleases DEF Moves
  <2>. QED
    BY <2>3 DEF CancellerKnowsRuns
<1>. QED
  BY <1>4, <1>5, <1>6, <1>7, <1>8, <1>9, <1>10 DEF Inv

\* Only runs that nobody holds are deleted.
LEMMA DeleteKeepsInv ==
  ASSUME Inv, NEW s \in Session, Delete(s)
  PROVE  Inv'
<1>1. TypeOK /\ End(s)
  BY DEF Inv, Delete
<1>2. /\ run' = [r \in Run |-> IF r \in session[s].todo THEN "absent" ELSE run[r]]
      /\ \A r \in session[s].todo : runLock[r] = Null
      /\ task' = "deleted" /\ lastRun' = 0 /\ owner' = 0
  BY DEF Delete
<1>3. LeavesHeldRuns(s)
  BY <1>2 DEF LeavesHeldRuns
<1>4. TypeOK'
  BY <1>1, <1>2, EndReleases DEF TypeOK
<1>5. HoldersKnowTheRun'
  BY <1>1, <1>3, EndReleases, OthersKnowTheRun DEF HoldersKnowTheRun
<1>6. CheckpointersHaveRun'
  BY <1>1, EndReleases DEF Inv, CheckpointersHaveRun, Moves
<1>7. LockedRunsAreLive'
  BY <1>1, <1>3, EndReleases DEF Inv, LockedRunsAreLive, LeavesHeldRuns,
     LiveRuns
<1>8. EarlierRunsFailed'
  BY <1>2 DEF Inv, EarlierRunsFailed
<1>9. LastRunIsLast'
  BY <1>2 DEF LastRunIsLast
<1>10. CancellerKnowsRuns'
  <2>1. \A t \in Session \ {s} : taskLock # t
    BY <1>1 DEF Inv, Delete
  <2>2. \A t \in Session \ {s} : session[t].at # "cancel task"
    BY <2>1 DEF Inv, CancellerKnowsRuns
  <2>3. \A t \in Session : session'[t].at # "cancel task"
    BY <1>1, <2>2, EndReleases DEF Moves
  <2>. QED
    BY <2>3 DEF CancellerKnowsRuns
<1>. QED
  BY <1>4, <1>5, <1>6, <1>7, <1>8, <1>9, <1>10 DEF Inv

\* Claiming takes a run nobody holds.
LEMMA ClaimKeepsInv ==
  ASSUME Inv, NEW r \in Run, Claim(r)
  PROVE  Inv'
<1>1. /\ TypeOK /\ r \in LiveRuns /\ task # "deleted"
      /\ runLock[r] = Null /\ taskLock = Null
      /\ run' = [run EXCEPT ![r] = "running"]
      /\ task' = "running" /\ lastRun' = r
      /\ UNCHANGED <<owner, taskLock, runLock, session>>
  BY DEF Inv, Claim, LiveRuns, LiveState, locks
<1>2. TypeOK'
  BY <1>1 DEF TypeOK, LiveState, Run
<1>3. HoldersKnowTheRun'
  BY <1>1 DEF Inv, TypeOK, HoldersKnowTheRun, Requires
<1>4. CheckpointersHaveRun'
  BY <1>1 DEF Inv, CheckpointersHaveRun
<1>5. LockedRunsAreLive'
  BY <1>1 DEF Inv, TypeOK, LockedRunsAreLive, LiveRuns
<1>6. EarlierRunsFailed'
  BY <1>1, LiveRunIsLast DEF Inv, TypeOK, EarlierRunsFailed, Run
<1>7. LastRunIsLast'
  BY <1>1, LiveRunIsLast DEF TypeOK, LastRunIsLast
<1>8. CancellerKnowsRuns'
  BY <1>1 DEF Inv, CancellerKnowsRuns
<1>. QED
  BY <1>2, <1>3, <1>4, <1>5, <1>6, <1>7, <1>8 DEF Inv

\* The run that retry_task makes follows the last.
LEMMA RetryKeepsInv ==
  ASSUME Inv, Retry
  PROVE  Inv'
<1>1. /\ TypeOK /\ task = "failed" /\ taskLock = Null
      /\ task' = "pending" /\ lastRun' = lastRun + 1
      /\ run' = [run EXCEPT ![lastRun + 1] = "pending"]
      /\ UNCHANGED <<owner, taskLock, runLock, session>>
  BY DEF Inv, Retry, locks
<1>2. /\ lastRun \in Run /\ lastRun + 1 \in Run
      /\ run[lastRun] = "failed"
      /\ \A r \in Run : r > lastRun => run[r] = "absent"
  BY <1>1 DEF Inv, LastRunIsLast, Retry, Run
<1>3. \A r \in Run : run[r] = "absent" => runLock[r] = Null
  BY DEF Inv, LockedRunsAreLive, LiveRuns, LiveState
<1>4. runLock[lastRun + 1] = Null
  BY <1>2, <1>3 DEF Run
<1>5. TypeOK'
  BY <1>1, <1>2 DEF TypeOK, LiveState, Run
<1>6. HoldersKnowTheRun'
  BY <1>1, <1>2, <1>4 DEF Inv, TypeOK, HoldersKnowTheRun
<1>7. CheckpointersHaveRun'
  BY <1>1 DEF Inv, CheckpointersHaveRun
<1>8. LockedRunsAreLive'
  BY <1>1, <1>2, <1>4 DEF Inv, TypeOK, LockedRunsAreLive, LiveRuns
<1>9. EarlierRunsFailed'
  BY <1>1, <1>2 DEF Inv, TypeOK, EarlierRunsFailed, Run
<1>10. LastRunIsLast'
  BY <1>1, <1>2 DEF TypeOK, LastRunIsLast, Run
<1>11. CancellerKnowsRuns'
  BY <1>1 DEF Inv, CancellerKnowsRuns
<1>. QED
  BY <1>5, <1>6, <1>7, <1>8, <1>9, <1>10, <1>11 DEF Inv

-----------------------------------------------------------------------------
(* The theorems.                                                           *)

\* The invariant holds of a task that has just been spawned.
LEMMA InitInv == Init => Inv
<1>. SUFFICES ASSUME Init PROVE Inv
  OBVIOUS
<1>1. Idle \in SessionRow /\ Idle.at = "idle"
  BY DEF Idle, SessionRow, Point
<1>2. TypeOK
  BY <1>1 DEF Init, TypeOK, LiveState, Run
<1>3. HoldersKnowTheRun /\ CheckpointersHaveRun /\ CancellerKnowsRuns
  BY <1>1 DEF Init, HoldersKnowTheRun, CheckpointersHaveRun, CancellerKnowsRuns
<1>4. LockedRunsAreLive
  BY DEF Init, LockedRunsAreLive
<1>5. EarlierRunsFailed /\ LastRunIsLast
  BY DEF Init, EarlierRunsFailed, LastRunIsLast, Run
<1>. QED
  BY <1>2, <1>3, <1>4, <1>5 DEF Inv

\* Every step keeps the invariant.
LEMMA NextInv == Inv /\ [Next]_vars => Inv'
<1>. SUFFICES ASSUME Inv, [Next]_vars PROVE Inv'
  OBVIOUS
<1>1. ASSUME NEW s \in Session, WorkerStep(s) PROVE Inv'
  BY <1>1, LockRunKeepsInv, CompleteKeepsInv, FailKeepsInv, SuspendOrWakeKeepsInv,
     BeginCheckpointKeepsInv, ExtendClaimKeepsInv, ReadOwnerKeepsInv,
     WriteCheckpointKeepsInv DEF WorkerStep
<1>2. ASSUME NEW s \in Session, CancelStep(s) PROVE Inv'
  BY <1>2, CancelScanKeepsInv, CancelLockRunKeepsInv, CancelLockTaskKeepsInv,
     CancelKeepsInv DEF CancelStep
<1>3. ASSUME NEW s \in Session, CleanupStep(s) PROVE Inv'
  BY <1>3, SelectOldKeepsInv, DeleteKeepsInv DEF CleanupStep
<1>4. CASE UNCHANGED vars
  BY <1>4 DEF vars, Inv, TypeOK, HoldersKnowTheRun, CheckpointersHaveRun,
       LockedRunsAreLive, LiveRuns, EarlierRunsFailed, LastRunIsLast,
       CancellerKnowsRuns, Held
<1>. QED
  BY <1>1, <1>2, <1>3, <1>4, AbortKeepsInv, ClaimKeepsInv, RetryKeepsInv DEF
     Next

\* The invariant holds in every reachable state.
THEOREM Invariance == Spec => []Inv
<1>. QED
  BY InitInv, NextInv, PTL DEF Spec

\* Rows, locks and sessions keep their types: no session writes or locks a
\* run that is none.
THEOREM TypeCorrect == Spec => []TypeOK
<1>1. Inv => TypeOK
  BY DEF Inv
<1>. QED
  BY <1>1, Invariance, PTL

\* complete_run, fail_run, the functions that suspend a run or wake it,
\* claim_task, retry_task, cancel_task and cleanup_tasks may run at the same time, each
\* of them in any number of sessions: the task never has two live runs.
THEOREM NeverTwoLiveRuns == Spec => []OneLiveRun
<1>1. Inv => OneLiveRun
  <2>. SUFFICES ASSUME Inv, NEW r \in LiveRuns, NEW q \in LiveRuns
                PROVE  r = q
    BY DEF OneLiveRun
  <2>1. /\ r \in Run /\ run[r] \notin {"failed", "absent"}
        /\ q \in Run /\ run[q] \notin {"failed", "absent"}
    BY DEF LiveRuns, LiveState
  <2>2. ~(q < r) /\ ~(q > r)
    BY <2>1, LiveRunIsLast
  <2>. QED
    BY <2>1, <2>2 DEF Run
<1>. QED
  BY <1>1, Invariance, PTL

\* Nor do they leave task and last run in disagreement.
THEOREM TaskAlwaysMirrorsLastRun == Spec => []TaskMirrorsLastRun
<1>1. Inv => TaskMirrorsLastRun
  BY DEF Inv, LastRunIsLast, TaskMirrorsLastRun
<1>. QED
  BY <1>1, Invariance, PTL

\* A run that has completed, failed or been cancelled is never written again:
\* a session that waited for its row finds it ended, and lets it be.
THEOREM FinishedRunsStay == Spec => FinishedRunsAreFinal
<1>1. ASSUME Inv, [Next]_vars, NEW r \in Run, run[r] \in TerminalState
      PROVE  run'[r] \in {run[r], "absent"}
  <2>. DEFINE Kept == run'[r] \in {run[r], "absent"}
  <2>1. TypeOK /\ r \notin LiveRuns /\ runLock[r] = Null
    BY <1>1 DEF Inv, LockedRunsAreLive, LiveRuns, LiveState, TerminalState
  <2>2. ASSUME NEW s \in Session, NEW point \in {"complete", "fail", "suspend", "wake"},
               At(s, point)
        PROVE  /\ session[s].run \in LiveRuns /\ session[s].run # r
               /\ session[s].run + 1 # r
    <3>1. session[s].run \in LiveRuns
      BY <1>1, <2>2 DEF At, Inv, HoldersKnowTheRun, LockedRunsAreLive
    <3>2. run[r] # "absent"
      BY <1>1 DEF TerminalState
    <3>. QED
      BY <1>1, <2>1, <3>1, <3>2, LiveRunIsLast DEF LiveRuns, Run
  <2>3. ASSUME NEW s \in Session, WorkerStep(s) PROVE Kept
    <3>1. CASE Complete(s)
      BY <2>1, <2>2, <3>1 DEF Complete, TypeOK
    <3>2. CASE Suspend(s) \/ Wake(s)
      BY <2>1, <2>2, <3>2 DEF Suspend, Wake, TypeOK
    <3>3. CASE Fail(s)
      BY <2>1, <2>2, <3>3 DEF Fail, TypeOK
    <3>4. CASE UNCHANGED run
      BY <3>4
    <3>. QED
      BY <2>3, <3>1, <3>2, <3>3, <3>4
         DEF WorkerStep, LockRun, BeginCheckpoint, ExtendClaim, ReadOwner,
             WriteCheckpoint, rows
  <2>4. ASSUME NEW s \in Session, CancelStep(s) PROVE Kept
    BY <2>1, <2>4 DEF CancelStep, CancelScan, CancelLockRun, CancelLockTask,
       Cancel, Held, rows
  <2>5. ASSUME NEW s \in Session, CleanupStep(s) PROVE Kept
    BY <2>5 DEF CleanupStep, SelectOld, Delete, rows
  <2>6. ASSUME NEW s \in Session, Abort(s) PROVE Kept
    BY <2>6 DEF Abort, rows
  <2>7. ASSUME NEW q \in Run, Claim(q) PROVE Kept
    BY <1>1, <2>1, <2>7 DEF Claim, TypeOK, TerminalState
  <2>8. ASSUME Retry PROVE Kept
    <3>1. \A q \in Run : q > lastRun => run[q] = "absent"
      BY <1>1, <2>8 DEF Inv, LastRunIsLast, Retry
    <3>2. lastRun + 1 # r
      BY <1>1, <2>1, <3>1 DEF TypeOK, TerminalState, Run
    <3>. QED
      BY <2>1, <2>8, <3>2 DEF Retry, TypeOK
  <2>9. CASE UNCHANGED vars
    BY <2>9 DEF vars
  <2>. QED
    BY <1>1, <2>3, <2>4, <2>5, <2>6, <2>7, <2>8, <2>9 DEF Next
<1>2. Inv /\ [Next]_vars =>
        [\A r \in Run : run[r] \in TerminalState => run'[r] \in {run[r], "absent"}]_vars
  BY <1>1
<1>. QED
  BY <1>2, Invariance, PTL DEF Spec, FinishedRunsAreFinal

-----------------------------------------------------------------------------
(* The transactions implement AtomicTask: what has to be known besides, to *)
(* see that, is which runs a cleanup has chosen.                           *)

\* A task that is there has all its runs up to the last.
RunsHaveNoGaps ==
  task # "deleted" => \A r \in Run : r <= lastRun => run[r] # "absent"

\* A cleanup deletes the runs from the first one on.
CleanersKnowFirstRuns ==
  \A s \in Session : session[s].at = "delete" =>
    \E last \in Run : session[s].todo = 1 .. last

\* The runs it has chosen have ended for good.
ChosenRunsHaveEnded ==
  \A s \in Session : session[s].at = "delete" =>
    \A r \in session[s].todo :
      run[r] \notin LiveState /\ (task # "deleted" => r <= lastRun)

\* A task that is deleted has no attempts.
DeletedHasNoRun == task = "deleted" => lastRun = 0

AtomicInv ==
  /\ Inv /\ DeletedHasNoRun
  /\ RunsHaveNoGaps /\ CleanersKnowFirstRuns /\ ChosenRunsHaveEnded

\* What AtomicTask says of the tables.
Shown == <<task, lastRun, run>>

\* Completing a run is a step of its own,
LEMMA CompleteIsAtomic ==
  ASSUME Inv, NEW s \in Session, Complete(s)
  PROVE  \E r \in Run : Atomic!Complete(r)
<1>1. session[s].run \in Run /\ run[session[s].run] = "running"
  BY DEF Inv, HoldersKnowTheRun, Requires, Complete, At
<1>2. Atomic!Complete(session[s].run)
  BY <1>1 DEF Complete, TaskBecomes, Atomic!Complete, Atomic!Follow
<1>. QED
  BY <1>1, <1>2

\* so is suspending or waking it,
LEMMA SuspendOrWakeIsAtomic ==
  ASSUME Inv, NEW s \in Session, Suspend(s) \/ Wake(s)
  PROVE  \E r \in Run : Atomic!Suspend(r) \/ Atomic!Wake(r)
<1>. USE DEF TaskMoves, TaskBecomes, Atomic!Move, Atomic!Follow
<1>1. CASE Suspend(s)
  <2>1. session[s].run \in Run /\ run[session[s].run] = "running"
    BY <1>1 DEF Inv, HoldersKnowTheRun, Requires, Suspend, At
  <2>2. Atomic!Suspend(session[s].run)
    BY <1>1, <2>1 DEF Suspend, Atomic!Suspend
  <2>. QED
    BY <2>1, <2>2
<1>2. CASE Wake(s)
  <2>1. session[s].run \in Run /\ run[session[s].run] = "sleeping"
    BY <1>2 DEF Inv, HoldersKnowTheRun, Requires, Wake, At
  <2>2. Atomic!Wake(session[s].run)
    BY <1>2, <2>1 DEF Wake, Atomic!Wake
  <2>. QED
    BY <2>1, <2>2
<1>. QED
  BY <1>1, <1>2

\* or failing it, with or without another attempt,
LEMMA FailIsAtomic ==
  ASSUME Inv, NEW s \in Session, Fail(s)
  PROVE  \E r \in Run : Atomic!FailForGood(r) \/ Atomic!FailAndRetry(r)
<1>. DEFINE r == session[s].run
<1>1. /\ r \in Run /\ r \in LiveRuns
      /\ run[r] \in {"running", "sleeping"}
  BY DEF Inv, HoldersKnowTheRun, Requires, Fail, At, LiveRuns, LiveState
<1>2. PICK outcome \in FailOutcomes(r) :
        IF outcome \in LiveState
        THEN /\ run' = [run EXCEPT ![r] = "failed", ![r + 1] = outcome]
             /\ TaskBecomes(outcome, r + 1)
        ELSE /\ run' = [run EXCEPT ![r] = "failed"]
             /\ TaskBecomes(outcome, r)
  BY DEF Fail
<1>. HIDE DEF r
<1>3. CASE outcome \in LiveState
  <2>1. r < MaxAttempts /\ outcome \in {"pending", "sleeping"}
    BY <1>3 DEF FailOutcomes, LiveState
  <2>2. r + 1 \in Run /\ r + 1 > r
    BY <1>1, <2>1 DEF Run
  <2>3. run[r + 1] = "absent"
    BY <1>1, <2>2, LiveRunIsLast
  <2>4. Atomic!FailAndRetry(r)
    BY <1>1, <1>2, <1>3, <2>1, <2>3
       DEF TaskBecomes, Atomic!FailAndRetry, Atomic!Follow
  <2>. QED
    BY <1>1, <2>4
<1>4. CASE outcome \notin LiveState
  <2>1. outcome \in {"failed", "cancelled"}
    BY <1>4 DEF FailOutcomes, LiveState
  <2>2. Atomic!FailForGood(r)
    BY <1>1, <1>2, <1>4, <2>1 DEF TaskBecomes, Atomic!FailForGood, Atomic!Follow
  <2>. QED
    BY <1>1, <2>2
<1>. QED
  BY <1>3, <1>4

\* or claiming it: the run is the task's last.
LEMMA ClaimIsAtomic ==
  ASSUME Inv, NEW r \in Run, Claim(r)
  PROVE  Atomic!Claim(r)
<1>1. r \in LiveRuns /\ task # "deleted"
  BY DEF Claim, LiveRuns, LiveState
<1>2. r = lastRun /\ task = run[r]
  BY <1>1, LiveRunIsLast
<1>. QED
  BY <1>2 DEF Claim, Atomic!Claim

\* A retry adds the first run that is not there.
LEMMA RetryIsAtomic ==
  ASSUME Inv, Retry
  PROVE  Atomic!Retry
<1>1. lastRun \in Run /\ lastRun < MaxAttempts /\ lastRun + 1 \in Run
  BY DEF Inv, LastRunIsLast, Retry, Run
<1>2. run[lastRun] = "failed" /\ run[lastRun + 1] = "absent"
  BY <1>1 DEF Inv, LastRunIsLast, Retry, Run
<1>. QED
  BY <1>1, <1>2 DEF Retry, Atomic!Retry

\* A cancellation that commits holds the runs that are live, all of them.
LEMMA CancelIsAtomic ==
  ASSUME Inv, NEW s \in Session, Cancel(s)
  PROVE  Atomic!Cancel
<1>1. task \in LiveState /\ LiveRuns \subseteq Held(s)
  BY DEF Inv, CancellerKnowsRuns, Cancel, At
<1>2. Held(s) \subseteq LiveRuns
  BY DEF Inv, LockedRunsAreLive, Held
<1>3. \A r \in Run : r \in Held(s) <=> run[r] \in LiveState
  BY <1>1, <1>2 DEF LiveRuns
<1>4. run' = [r \in Run |-> IF run[r] \in LiveState THEN "cancelled" ELSE run[r]]
  BY <1>3 DEF Cancel
<1>. QED
  BY <1>1, <1>4 DEF Cancel, Atomic!Cancel, Atomic!LiveState, Atomic!Run,
                    LiveState, Run

\* A cleanup deletes the runs it has chosen, from the first one on.
LEMMA DeleteIsAtomic ==
  ASSUME AtomicInv, NEW s \in Session, Delete(s)
  PROVE  \E last \in Run : Atomic!Delete(last)
<1>1. PICK last \in Run : session[s].todo = 1 .. last
  BY DEF AtomicInv, CleanersKnowFirstRuns, Delete, At
<1>2. \A r \in 1 .. last : run[r] \notin Atomic!LiveState
  BY <1>1 DEF AtomicInv, ChosenRunsHaveEnded, Delete, At, LiveState, Atomic!LiveState
<1>3. \A r \in Run : r \in session[s].todo <=> r <= last
  BY <1>1 DEF Run
<1>4. run' = [r \in Run |-> IF r <= last THEN "absent" ELSE run[r]]
  BY <1>3 DEF Delete
<1>5. Atomic!Delete(last)
  BY <1>2, <1>4 DEF Delete, Atomic!Delete, Atomic!Run, Run
<1>. QED
  BY <1>5

\* Every other action leaves the task and its runs alone.
LEMMA NextIsAtomic ==
  ASSUME AtomicInv, [Next]_vars
  PROVE  Atomic!Next \/ UNCHANGED Shown
<1>1. Run = Atomic!Run
  BY DEF Run, Atomic!Run
<1>2. ASSUME NEW s \in Session, WorkerStep(s)
      PROVE  Atomic!Next \/ UNCHANGED Shown
  <2>1. CASE Complete(s) \/ Fail(s) \/ Suspend(s) \/ Wake(s)
    BY <1>1, <2>1, CompleteIsAtomic, FailIsAtomic, SuspendOrWakeIsAtomic
       DEF AtomicInv, Atomic!Next
  <2>2. CASE ~(Complete(s) \/ Fail(s) \/ Suspend(s) \/ Wake(s))
    BY <1>2, <2>2 DEF WorkerStep, LockRun, BeginCheckpoint, ExtendClaim,
                      ReadOwner, WriteCheckpoint, rows, Shown
  <2>. QED
    BY <2>1, <2>2
<1>3. ASSUME NEW s \in Session, CancelStep(s)
      PROVE  Atomic!Next \/ UNCHANGED Shown
  <2>1. CASE Cancel(s)
    BY <2>1, CancelIsAtomic DEF AtomicInv, Atomic!Next
  <2>2. CASE ~Cancel(s)
    BY <1>3, <2>2 DEF CancelStep, CancelScan, CancelLockRun, CancelLockTask,
                      rows, Shown
  <2>. QED
    BY <2>1, <2>2
<1>4. ASSUME NEW s \in Session, CleanupStep(s)
      PROVE  Atomic!Next \/ UNCHANGED Shown
  <2>1. CASE Delete(s)
    BY <1>1, <2>1, DeleteIsAtomic DEF AtomicInv, Atomic!Next
  <2>2. CASE SelectOld(s)
    BY <2>2 DEF SelectOld, rows, Shown
  <2>. QED
    BY <1>4, <2>1, <2>2 DEF CleanupStep
<1>5. ASSUME NEW s \in Session, Abort(s) PROVE UNCHANGED Shown
  BY <1>5 DEF Abort, rows, Shown
<1>6. ASSUME NEW r \in Run, Claim(r) PROVE Atomic!Next
  BY <1>1, <1>6, ClaimIsAtomic DEF AtomicInv, Atomic!Next
<1>7. CASE Retry
  BY <1>7, RetryIsAtomic DEF AtomicInv, Atomic!Next
<1>8. CASE UNCHANGED vars
  BY <1>8 DEF vars, Shown
<1>. QED
  BY <1>2, <1>3, <1>4, <1>5, <1>6, <1>7, <1>8 DEF Next

\* A step of AtomicTask leaves no gap in the runs of a task that is there.
LEMMA AtomicStepsLeaveNoGaps ==
  ASSUME Inv, RunsHaveNoGaps, Atomic!Next \/ UNCHANGED Shown
  PROVE  RunsHaveNoGaps'
<1>1. TypeOK /\ Run = Atomic!Run /\ LiveState = Atomic!LiveState
  BY DEF Inv, Run, Atomic!Run, LiveState, Atomic!LiveState
<1>. SUFFICES ASSUME task' # "deleted", NEW q \in Run, q <= lastRun'
              PROVE  run'[q] # "absent"
  BY DEF RunsHaveNoGaps
<1>2. ASSUME task # "deleted"
      PROVE  lastRun \in Run /\ \A r \in Run : r <= lastRun => run[r] # "absent"
  BY <1>2 DEF Inv, LastRunIsLast, RunsHaveNoGaps
<1>3. ASSUME NEW r \in Run, Atomic!Complete(r) \/ Atomic!Suspend(r) \/ Atomic!Wake(r)
      PROVE  run'[q] # "absent"
  <2>1. r \in LiveRuns /\ task # "deleted" /\ lastRun' \in {r, lastRun}
    BY <1>3 DEF Atomic!Complete, Atomic!Suspend, Atomic!Wake, Atomic!Move,
                Atomic!Follow, LiveRuns, LiveState
  <2>2. r = lastRun
    BY <2>1, LiveRunIsLast
  <2>. QED
    BY <1>1, <1>2, <1>3, <2>1, <2>2
       DEF TypeOK, Atomic!Complete, Atomic!Suspend, Atomic!Wake
<1>4. ASSUME NEW r \in Run, Atomic!FailForGood(r) \/ Atomic!FailAndRetry(r)
      PROVE  run'[q] # "absent"
  <2>1. r \in LiveRuns /\ task # "deleted" /\ lastRun' \in {r, r + 1}
    BY <1>4 DEF Atomic!FailForGood, Atomic!FailAndRetry, Atomic!Follow,
                LiveRuns, LiveState
  <2>2. r = lastRun
    BY <2>1, LiveRunIsLast
  <2>3. CASE Atomic!FailForGood(r)
    <3>1. lastRun' = r
      BY <2>1, <2>3 DEF Atomic!FailForGood, Atomic!Follow
    <3>. QED
      BY <1>1, <1>2, <2>1, <2>2, <2>3, <3>1 DEF TypeOK, Atomic!FailForGood
  <2>4. CASE Atomic!FailAndRetry(r)
    <3>1. r + 1 \in Run
      BY <2>4 DEF Atomic!FailAndRetry, Run
    <3>2. PICK state \in {"pending", "sleeping"} :
            run' = [run EXCEPT ![r] = "failed", ![r + 1] = state]
      BY <2>4 DEF Atomic!FailAndRetry
    <3>3. q <= r \/ q = r + 1
      BY <2>1 DEF Run
    <3>. QED
      BY <1>1, <1>2, <2>1, <2>2, <3>1, <3>2, <3>3 DEF TypeOK
  <2>. QED
    BY <1>4, <2>3, <2>4
<1>5. ASSUME NEW r \in Run, Atomic!Claim(r) PROVE run'[q] # "absent"
  BY <1>1, <1>2, <1>5 DEF TypeOK, Atomic!Claim, LiveState
<1>6. CASE Atomic!Retry
  <2>1. lastRun + 1 \in Run /\ (q <= lastRun \/ q = lastRun + 1)
    BY <1>2, <1>6 DEF Atomic!Retry, Run
  <2>. QED
    BY <1>1, <1>2, <1>6, <2>1 DEF TypeOK, Atomic!Retry
<1>7. CASE Atomic!Cancel
  BY <1>1, <1>2, <1>7 DEF Atomic!Cancel, LiveState
<1>8. ASSUME NEW last \in Run, Atomic!Delete(last) PROVE FALSE
  BY <1>8 DEF Atomic!Delete
<1>9. CASE UNCHANGED Shown
  BY <1>2, <1>9 DEF Shown
<1>. QED
  BY <1>1, <1>3, <1>4, <1>5, <1>6, <1>7, <1>8, <1>9 DEF Atomic!Next

\* A cleanup that chooses an ended task chooses all its runs.
LEMMA SelectedRunsAreFirst ==
  ASSUME Inv, RunsHaveNoGaps, task \in TerminalState
  PROVE  \E last \in Run : {r \in Run : run[r] # "absent"} = 1 .. last
<1>1. task # "deleted"
  BY DEF TerminalState
<1>2. /\ lastRun \in Run
      /\ \A r \in Run : r <= lastRun <=> run[r] # "absent"
  BY <1>1 DEF Inv, LastRunIsLast, RunsHaveNoGaps, Run
<1>3. {r \in Run : run[r] # "absent"} = 1 .. lastRun
  BY <1>2 DEF Run
<1>. QED
  BY <1>2, <1>3

\* Every session at the delete has just chosen, or does not move.
DeletersHaveChosen ==
  \A s \in Session : session'[s].at = "delete" =>
    session'[s] = session[s] \/ SelectOld(s)

\* What a cleanup has chosen is its own until it deletes.
LEMMA NextKeepsChoice ==
  ASSUME TypeOK, [Next]_vars
  PROVE  DeletersHaveChosen
<1>1. TypeOK
  OBVIOUS
<1>2. ASSUME NEW s \in Session, NEW x,
             session' = [session EXCEPT ![s] = x],
             x.at = "delete" => SelectOld(s)
      PROVE  DeletersHaveChosen
  BY <1>1, <1>2 DEF TypeOK, DeletersHaveChosen
<1>3. ASSUME NEW s \in Session, End(s) PROVE DeletersHaveChosen
  BY <1>2, <1>3 DEF End, Idle
<1>4. ASSUME NEW s \in Session PROVE session[s] \in SessionRow
  BY <1>1, <1>4 DEF TypeOK
<1>5. ASSUME NEW s \in Session, WorkerStep(s) PROVE DeletersHaveChosen
  <2>1. CASE Complete(s) \/ Fail(s) \/ Suspend(s) \/ Wake(s) \/ WriteCheckpoint(s)
    BY <1>3, <2>1 DEF Complete, Fail, Suspend, Wake, WriteCheckpoint
  <2>2. ASSUME NEW r \in Run, NEW point \in {"complete", "fail", "suspend", "wake"},
               LockRun(s, r, point)
        PROVE  DeletersHaveChosen
    BY <1>2, <2>2 DEF LockRun, Idle
  <2>3. ASSUME NEW r \in Run, BeginCheckpoint(s, r)
        PROVE  DeletersHaveChosen
    BY <1>2, <2>3 DEF BeginCheckpoint, Idle
  <2>4. CASE ExtendClaim(s)
    BY <1>1, <1>2, <2>4 DEF ExtendClaim, Goto, TypeOK, SessionRow
  <2>5. CASE ReadOwner(s)
    <3>. DEFINE x == [session[s] EXCEPT !.at = "write checkpoint", !.saw = OwnerAttempt]
    <3>1. x.at = "write checkpoint"
      BY <1>4 DEF SessionRow
    <3>2. End(s) \/ session' = [session EXCEPT ![s] = x]
      BY <2>5 DEF ReadOwner
    <3>. HIDE DEF x
    <3>. QED
      BY <1>2, <1>3, <3>1, <3>2
  <2>. QED
    BY <1>5, <2>1, <2>2, <2>3, <2>4, <2>5 DEF WorkerStep
<1>6. ASSUME NEW s \in Session, CancelStep(s) PROVE DeletersHaveChosen
  <2>1. CASE CancelScan(s)
    BY <1>2, <2>1 DEF CancelScan, Idle
  <2>2. CASE CancelLockRun(s)
    <3>. DEFINE rest == session[s].todo \ {Min(session[s].todo)}
    <3>1. [session[s] EXCEPT !.todo = rest].at \in {"cancel runs", "cancel task"}
      BY <1>4, <2>2 DEF CancelLockRun, At, SessionRow
    <3>2. session' = [session EXCEPT ![s] = [session[s] EXCEPT !.todo = rest]]
      BY <2>2 DEF CancelLockRun
    <3>. HIDE DEF rest
    <3>. QED
      BY <1>2, <3>1, <3>2
  <2>3. CASE CancelLockTask(s)
    <3>1. [session[s] EXCEPT !.at = "cancel task", !.todo = LiveRuns].at
            = "cancel task"
      BY <1>4 DEF SessionRow
    <3>2. \/ End(s)
          \/ session' = [session EXCEPT ![s] =
               [session[s] EXCEPT !.at = "cancel task", !.todo = LiveRuns]]
      BY <2>3 DEF CancelLockTask
    <3>. QED
      BY <1>2, <1>3, <3>1, <3>2
  <2>4. CASE Cancel(s)
    BY <1>3, <2>4 DEF Cancel
  <2>. QED
    BY <1>6, <2>1, <2>2, <2>3, <2>4 DEF CancelStep
<1>7. ASSUME NEW s \in Session, CleanupStep(s) PROVE DeletersHaveChosen
  <2>1. CASE SelectOld(s)
    BY <1>2, <2>1 DEF SelectOld, Idle
  <2>2. CASE Delete(s)
    BY <1>3, <2>2 DEF Delete
  <2>. QED
    BY <1>7, <2>1, <2>2 DEF CleanupStep
<1>8. ASSUME UNCHANGED session PROVE DeletersHaveChosen
  BY <1>8 DEF DeletersHaveChosen
<1>. QED
  BY <1>3, <1>5, <1>6, <1>7, <1>8 DEF Next, Abort, Claim, Retry, vars

\* So a cleanup still knows the first runs,
LEMMA NextKeepsFirstRuns ==
  ASSUME AtomicInv, [Next]_vars
  PROVE  CleanersKnowFirstRuns'
<1>. SUFFICES ASSUME NEW s \in Session, session'[s].at = "delete"
              PROVE  \E last \in Run : session'[s].todo = 1 .. last
  BY DEF CleanersKnowFirstRuns
<1>1. CASE session'[s] = session[s]
  BY <1>1 DEF AtomicInv, CleanersKnowFirstRuns
<1>2. CASE SelectOld(s)
  <2>1. session'[s].todo = {r \in Run : run[r] # "absent"}
    BY <1>2 DEF AtomicInv, Inv, TypeOK, SelectOld, Idle
  <2>. QED
    BY <1>2, <2>1, SelectedRunsAreFirst DEF AtomicInv, SelectOld
<1>. QED
  BY <1>1, <1>2, NextKeepsChoice DEF AtomicInv, Inv, DeletersHaveChosen

\* The first runs, once they have ended, are not taken up again: a retry adds
\* a run after them.
LEMMA FirstRunsStayEnded ==
  ASSUME AtomicInv, Atomic!Next \/ UNCHANGED Shown,
         NEW last \in Run,
         \A r \in 1 .. last : run[r] \notin LiveState,
         task # "deleted" => last <= lastRun
  PROVE  /\ \A r \in 1 .. last : run'[r] \notin LiveState
         /\ task' # "deleted" => last <= lastRun'
<1>. DEFINE Goal == /\ \A r \in 1 .. last : run'[r] \notin LiveState
                    /\ task' # "deleted" => last <= lastRun'
<1>1. /\ TypeOK /\ Run = Atomic!Run /\ LiveState = Atomic!LiveState
      /\ \A r \in 1 .. last : r \in Run
  BY DEF AtomicInv, Inv, Run, Atomic!Run, LiveState, Atomic!LiveState
<1>2. ASSUME NEW r \in Run, r \in LiveRuns
      PROVE  r > last /\ (task # "deleted" => r = lastRun)
  <2>1. r > last
    BY <1>2 DEF LiveRuns, Run
  <2>. QED
    BY <1>2, <2>1, LiveRunIsLast DEF AtomicInv
<1>3. ASSUME NEW r \in Run, Atomic!Complete(r) \/ Atomic!Suspend(r) \/ Atomic!Wake(r)
      PROVE  Goal
  <2>1. r \in LiveRuns
    BY <1>3 DEF Atomic!Complete, Atomic!Suspend, Atomic!Wake, LiveRuns, LiveState
  <2>2. task' # "deleted" => task # "deleted" /\ lastRun' \in {r, lastRun}
    BY <1>3 DEF Atomic!Complete, Atomic!Suspend, Atomic!Wake, Atomic!Move, Atomic!Follow
  <2>3. \A q \in 1 .. last : run'[q] \in {run[q], "completed"}
    BY <1>1, <1>2, <1>3, <2>1
       DEF TypeOK, Run, Atomic!Complete, Atomic!Suspend, Atomic!Wake
  <2>4. \A q \in 1 .. last : run'[q] \notin LiveState
    BY <2>3 DEF LiveState
  <2>. QED
    BY <1>2, <2>1, <2>2, <2>4 DEF Run
<1>4. ASSUME NEW r \in Run, Atomic!FailForGood(r) PROVE Goal
  <2>1. r \in LiveRuns
    BY <1>4 DEF Atomic!FailForGood, LiveRuns, LiveState
  <2>2. task' # "deleted" => task # "deleted" /\ lastRun' = r
    BY <1>4 DEF Atomic!FailForGood, Atomic!Follow
  <2>. QED
    BY <1>1, <1>2, <1>4, <2>1, <2>2 DEF TypeOK, Run, Atomic!FailForGood
<1>5. ASSUME NEW r \in Run, Atomic!FailAndRetry(r) PROVE Goal
  <2>1. r \in LiveRuns
    BY <1>5 DEF Atomic!FailAndRetry, LiveRuns, LiveState
  <2>2. PICK state \in {"pending", "sleeping"} :
          /\ run' = [run EXCEPT ![r] = "failed", ![r + 1] = state]
          /\ Atomic!Follow(state, r + 1)
    BY <1>5 DEF Atomic!FailAndRetry
  <2>3. r > last /\ r + 1 > last
    BY <1>2, <2>1 DEF Run
  <2>4. \A q \in 1 .. last : run'[q] = run[q]
    BY <1>1, <2>2, <2>3 DEF TypeOK, Run
  <2>5. task' # "deleted" => lastRun' = r + 1
    BY <2>2 DEF Atomic!Follow
  <2>. QED
    BY <2>3, <2>4, <2>5 DEF Run
<1>6. ASSUME NEW r \in Run, Atomic!Claim(r) PROVE Goal
  <2>1. r \in LiveRuns
    BY <1>6 DEF Atomic!Claim, LiveRuns, LiveState
  <2>2. \A q \in 1 .. last : run'[q] = run[q]
    BY <1>1, <1>2, <1>6, <2>1 DEF TypeOK, Run, Atomic!Claim
  <2>. QED
    BY <1>2, <1>6, <2>1, <2>2 DEF Run, LiveRuns, LiveState, Atomic!Claim
<1>7. CASE Atomic!Retry
  <2>1. last <= lastRun /\ lastRun \in Nat /\ lastRun' = lastRun + 1
    BY <1>1, <1>7 DEF TypeOK, Atomic!Retry
  <2>2. \A q \in 1 .. last : run'[q] = run[q]
    BY <1>1, <1>7, <2>1 DEF TypeOK, Run, Atomic!Retry
  <2>. QED
    BY <2>1, <2>2 DEF Run
<1>8. CASE Atomic!Cancel
  BY <1>1, <1>8 DEF Atomic!Cancel, LiveState
<1>9. ASSUME NEW n \in Run, Atomic!Delete(n) PROVE Goal
  BY <1>1, <1>9 DEF Atomic!Delete, LiveState
<1>10. CASE UNCHANGED Shown
  BY <1>10 DEF Shown
<1>. QED
  BY <1>1, <1>3, <1>4, <1>5, <1>6, <1>7, <1>8, <1>9, <1>10 DEF Atomic!Next

\* and these have ended for good.
LEMMA NextKeepsEnded ==
  ASSUME AtomicInv, [Next]_vars
  PROVE  ChosenRunsHaveEnded'
<1>. SUFFICES ASSUME NEW s \in Session, session'[s].at = "delete"
              PROVE  \A r \in session'[s].todo :
                       run'[r] \notin LiveState /\ (task' # "deleted" => r <= lastRun')
  BY DEF ChosenRunsHaveEnded
<1>1. CASE session'[s] = session[s]
  <2>1. PICK last \in Run : session[s].todo = 1 .. last
    BY <1>1 DEF AtomicInv, CleanersKnowFirstRuns
  <2>2. last \in 1 .. last
    BY DEF Run
  <2>3. /\ \A r \in 1 .. last : run[r] \notin LiveState
        /\ task # "deleted" => last <= lastRun
    BY <1>1, <2>1, <2>2 DEF AtomicInv, ChosenRunsHaveEnded
  <2>4. /\ \A r \in 1 .. last : run'[r] \notin LiveState
        /\ task' # "deleted" => last <= lastRun'
    BY <2>3, NextIsAtomic, FirstRunsStayEnded
  <2>5. lastRun' \in Nat
    BY NextInv DEF AtomicInv, Inv, TypeOK
  <2>. QED
    BY <1>1, <2>1, <2>4, <2>5 DEF Run
<1>2. CASE SelectOld(s)
  <2>1. /\ session'[s].todo = {r \in Run : run[r] # "absent"}
        /\ task \in TerminalState /\ UNCHANGED rows
    BY <1>2 DEF AtomicInv, Inv, TypeOK, SelectOld, Idle
  <2>2. task # "deleted" /\ task \notin LiveState
    BY <2>1 DEF TerminalState, LiveState
  <2>3. \A r \in Run : run[r] \notin LiveState
    BY <2>2, LiveRunIsLast DEF AtomicInv, LiveRuns
  <2>4. \A r \in Run : run[r] # "absent" => r <= lastRun
    BY <2>2 DEF AtomicInv, Inv, LastRunIsLast, Run
  <2>. QED
    BY <2>1, <2>3, <2>4 DEF rows
<1>. QED
  BY <1>1, <1>2, NextKeepsChoice DEF AtomicInv, Inv, DeletersHaveChosen

\* A deleted task stays so.
LEMMA AtomicStepsKeepDeleted ==
  ASSUME DeletedHasNoRun, Atomic!Next \/ UNCHANGED Shown
  PROVE  DeletedHasNoRun'
<1>1. ASSUME NEW r \in Atomic!Run,
             Atomic!Complete(r) \/ Atomic!Suspend(r) \/ Atomic!Wake(r)
      PROVE  DeletedHasNoRun'
  BY <1>1 DEF DeletedHasNoRun, Atomic!Complete, Atomic!Suspend, Atomic!Wake,
              Atomic!Move, Atomic!Follow
<1>2. ASSUME NEW r \in Atomic!Run, Atomic!FailForGood(r) \/ Atomic!FailAndRetry(r)
      PROVE  DeletedHasNoRun'
  BY <1>2 DEF DeletedHasNoRun, Atomic!FailForGood, Atomic!FailAndRetry, Atomic!Follow
<1>3. ASSUME \/ \E r \in Atomic!Run : Atomic!Claim(r) \/ Atomic!Delete(r)
             \/ Atomic!Retry \/ Atomic!Cancel
      PROVE  DeletedHasNoRun'
  BY <1>3 DEF DeletedHasNoRun, Atomic!Claim, Atomic!Delete, Atomic!Retry, Atomic!Cancel
<1>4. CASE UNCHANGED Shown
  BY <1>4 DEF Shown, DeletedHasNoRun
<1>. QED
  BY <1>1, <1>2, <1>3, <1>4 DEF Atomic!Next

LEMMA InitAtomic == Init => AtomicInv /\ Atomic!Init
<1>. SUFFICES ASSUME Init PROVE AtomicInv /\ Atomic!Init
  OBVIOUS
<1>1. /\ RunsHaveNoGaps /\ CleanersKnowFirstRuns
      /\ ChosenRunsHaveEnded /\ DeletedHasNoRun
  BY DEF Init, Idle, RunsHaveNoGaps, CleanersKnowFirstRuns, ChosenRunsHaveEnded,
         DeletedHasNoRun, Run
<1>2. Atomic!Init
  BY DEF Init, Atomic!Init, Run, Atomic!Run
<1>. QED
  BY <1>1, <1>2, InitInv DEF AtomicInv

LEMMA NextKeepsAtomic ==
  ASSUME AtomicInv, [Next]_vars
  PROVE  AtomicInv' /\ (Atomic!Next \/ UNCHANGED Shown)
<1>1. Atomic!Next \/ UNCHANGED Shown
  BY NextIsAtomic
<1>. QED
  BY <1>1, NextInv, AtomicStepsLeaveNoGaps, NextKeepsFirstRuns, NextKeepsEnded,
     AtomicStepsKeepDeleted DEF AtomicInv

\* However their statements interleave, the functions change the task and its
\* runs as if each call ran alone, except that cleanup_tasks may delete a task
\* that was taken up again after it was chosen.
THEOREM FunctionsActAsOne == Spec => FunctionsAreAtomic
<1>1. AtomicInv /\ [Next]_vars => AtomicInv'
  BY NextKeepsAtomic
<1>2. AtomicInv /\ [Next]_vars => [Atomic!Next]_<<task, lastRun, run>>
  BY NextKeepsAtomic DEF Shown
<1>. QED
  BY <1>1, <1>2, InitAtomic, PTL DEF Spec, FunctionsAreAtomic, Atomic!Spec

\* Every step of AtomicTask is one of TaskLifecycle or deletes a task that
\* was taken up again.
LEMMA AtomicStepsKeepLifecycle ==
  ASSUME AtomicInv, Atomic!Next
  PROVE  Lifecycle!Next \/ RevivedTaskIsDeleted
<1>. DEFINE status == IF task \in LiveState THEN "live"
                      ELSE IF task = "deleted" THEN "absent" ELSE task
<1>. USE DEF LiveState, Lifecycle!Next, Lifecycle!TaskStep, Lifecycle!Becomes
<1>1. TypeOK /\ Run = Atomic!Run /\ LiveState = Atomic!LiveState
  BY DEF AtomicInv, Inv, Run, Atomic!Run, Atomic!LiveState
<1>2. ASSUME NEW r \in Run, run[r] \in LiveState, task # "deleted"
      PROVE  r = lastRun /\ task \in LiveState
  BY <1>2, LiveRunIsLast DEF AtomicInv, LiveRuns
<1>3. ASSUME UNCHANGED <<task, lastRun>> PROVE Lifecycle!Next
  BY <1>3 DEF Lifecycle!Stay
<1>4. ASSUME NEW r \in Run,
             \/ Atomic!Complete(r) \/ Atomic!Suspend(r) \/ Atomic!Wake(r)
             \/ Atomic!FailForGood(r) \/ Atomic!FailAndRetry(r)
      PROVE  Lifecycle!Next
  <2>1. CASE task = "deleted"
    <3>1. UNCHANGED <<task, lastRun>>
      BY <1>4, <2>1 DEF Atomic!Complete, Atomic!Suspend, Atomic!Wake,
            Atomic!FailForGood, Atomic!FailAndRetry, Atomic!Move, Atomic!Follow
    <3>. QED
      BY <1>3, <3>1
  <2>2. CASE task # "deleted"
    <3>1. r = lastRun /\ task \in LiveState
      BY <1>2, <1>4, <2>2 DEF Atomic!Complete, Atomic!Suspend, Atomic!Wake,
                              Atomic!FailForGood, Atomic!FailAndRetry
    <3>2. CASE Atomic!Complete(r) \/ Atomic!FailForGood(r)
      <4>1. task' \in {"completed", "failed", "cancelled"} /\ lastRun' = lastRun
        BY <2>2, <3>1, <3>2 DEF Atomic!Complete, Atomic!FailForGood, Atomic!Follow
      <4>. QED
        BY <3>1, <4>1 DEF Lifecycle!End, Lifecycle!Ended
    <3>3. CASE Atomic!Suspend(r) \/ Atomic!Wake(r)
      <4>1. task' \in {"sleeping", "pending"} /\ lastRun' = lastRun
        BY <2>2, <3>1, <3>3 DEF Atomic!Suspend, Atomic!Wake, Atomic!Move, Atomic!Follow
      <4>. QED
        BY <3>1, <4>1 DEF Lifecycle!Stay
    <3>4. CASE Atomic!FailAndRetry(r)
      <4>1. task' \in {"pending", "sleeping"} /\ lastRun' = lastRun + 1
        BY <2>2, <3>1, <3>4 DEF Atomic!FailAndRetry, Atomic!Follow
      <4>. QED
        BY <3>1, <4>1 DEF Lifecycle!AttemptAgain
    <3>. QED
      BY <1>4, <3>2, <3>3, <3>4
  <2>. QED
    BY <2>1, <2>2
<1>5. ASSUME NEW r \in Run, Atomic!Claim(r) PROVE Lifecycle!Next
  BY <1>5 DEF Atomic!Claim, Lifecycle!Stay
<1>6. CASE Atomic!Retry
  BY <1>6 DEF Atomic!Retry, Lifecycle!Retry
<1>7. CASE Atomic!Cancel
  BY <1>7 DEF Atomic!Cancel, Atomic!LiveState, Lifecycle!End, Lifecycle!Ended
<1>8. ASSUME NEW last \in Run, Atomic!Delete(last)
      PROVE  Lifecycle!Next \/ RevivedTaskIsDeleted
  <2>1. CASE task = "deleted"
    BY <1>3, <1>8, <2>1 DEF Atomic!Delete, AtomicInv, DeletedHasNoRun
  <2>2. CASE task \in TerminalState
    BY <1>8, <2>2 DEF Atomic!Delete, TerminalState, Lifecycle!Forget, Lifecycle!Ended
  <2>3. CASE task \in LiveState
    <3>1. lastRun \in Run /\ run[lastRun] = task
      BY <2>3 DEF AtomicInv, Inv, LastRunIsLast
    <3>2. lastRun \notin 1 .. last
      BY <1>1, <1>8, <2>3, <3>1 DEF Atomic!Delete
    <3>3. lastRun > last /\ lastRun > 1
      BY <3>1, <3>2 DEF Run
    <3>4. run'[lastRun] = run[lastRun]
      BY <1>1, <1>8, <3>1, <3>3 DEF Atomic!Delete, Run
    <3>. QED
      BY <1>8, <2>3, <3>1, <3>3, <3>4 DEF Atomic!Delete, RevivedTaskIsDeleted
  <2>. QED
    BY <1>1, <2>1, <2>2, <2>3 DEF TypeOK
<1>. QED
  BY <1>1, <1>4, <1>5, <1>6, <1>7, <1>8 DEF Atomic!Next

\* To its clients, a task that sessions work on at the same time is one that
\* TaskLifecycle describes, but for a cleanup that deletes it after
\* retry_task took it up again: then its run stays behind.
THEOREM OnlyCleanupBreaksLifecycle == Spec => KeepsLifecycle
<1>1. AtomicInv /\ [Next]_vars => AtomicInv'
  BY NextKeepsAtomic
<1>2. AtomicInv /\ [Next]_vars =>
        [Lifecycle!Next \/ RevivedTaskIsDeleted]_<<task, lastRun>>
  BY NextKeepsAtomic, AtomicStepsKeepLifecycle DEF Shown
<1>. QED
  BY <1>1, <1>2, InitAtomic, PTL DEF Spec, KeepsLifecycle

-----------------------------------------------------------------------------
(* Checkpoints.  An extended claim keeps an earlier attempt from replacing *)
(* the checkpoint of a later one: a session that holds the run it writes   *)
(* for holds the last run, and no checkpoint is ahead of that.             *)

\* Neither the last run of the task nor a live run comes before attempt r.
NotAhead(r) ==
  /\ task # "deleted" => r <= lastRun
  /\ \A q \in LiveRuns : r <= q

Checkpointing(s) == session[s].at \in {"extend", "read owner", "write checkpoint"}

\* Neither the checkpoint nor whoever is about to write it is ahead.
CheckpointersAreNotAhead ==
  /\ NotAhead(owner)
  /\ \A s \in Session : Checkpointing(s) => NotAhead(session[s].run)

\* Whoever is about to write it holds no run but its own, and has compared.
CheckpointersHoldTheirs ==
  \A s \in Session :
    /\ session[s].at = "idle" => Held(s) = {}
    /\ Checkpointing(s) => Held(s) \subseteq {session[s].run}
    /\ At(s, "write checkpoint") => session[s].saw <= session[s].run

KeptInv == AtomicInv /\ CheckpointersAreNotAhead /\ CheckpointersHoldTheirs

\* The last run does not go back, and a new live run comes after it or after
\* a live one.
LEMMA RunsGoForward ==
  ASSUME AtomicInv, Atomic!Next \/ UNCHANGED Shown
  PROVE  /\ task' # "deleted" => task # "deleted" /\ lastRun <= lastRun'
         /\ \A q \in LiveRuns' : \/ \E p \in LiveRuns : p <= q
                                 \/ task # "deleted" /\ lastRun <= q
<1>. DEFINE Later(q) == \/ \E p \in LiveRuns : p <= q
                        \/ task # "deleted" /\ lastRun <= q
            Goal == /\ task' # "deleted" => task # "deleted" /\ lastRun <= lastRun'
                    /\ \A q \in LiveRuns' : Later(q)
<1>1. /\ TypeOK /\ Run = Atomic!Run /\ LiveState = Atomic!LiveState
      /\ Run \subseteq Nat /\ lastRun \in Nat
  BY DEF AtomicInv, Inv, TypeOK, Run, Atomic!Run, LiveState, Atomic!LiveState
<1>2. ASSUME NEW r \in Run, run[r] \in LiveState
      PROVE  r \in LiveRuns /\ (task # "deleted" => r = lastRun)
  BY <1>2, LiveRunIsLast DEF AtomicInv, LiveRuns
<1>3. ASSUME LiveRuns' \subseteq LiveRuns PROVE \A q \in LiveRuns' : Later(q)
  BY <1>1, <1>3 DEF LiveRuns
<1>4. ASSUME NEW r \in Run,
             \/ Atomic!Complete(r) \/ Atomic!Suspend(r) \/ Atomic!Wake(r)
             \/ Atomic!FailForGood(r) \/ Atomic!Claim(r)
      PROVE  Goal
  <2>1. run[r] \in LiveState
    BY <1>4 DEF Atomic!Complete, Atomic!Suspend, Atomic!Wake, Atomic!FailForGood,
                Atomic!Claim, LiveState
  <2>2. /\ task' # "deleted" => task # "deleted"
        /\ task' # "deleted" => lastRun' \in {r, lastRun}
    BY <1>4 DEF Atomic!Complete, Atomic!Suspend, Atomic!Wake, Atomic!FailForGood,
                Atomic!Claim, Atomic!Move, Atomic!Follow
  <2>3. \A q \in Run \ {r} : run'[q] = run[q]
    BY <1>1, <1>4 DEF TypeOK, Atomic!Complete, Atomic!Suspend, Atomic!Wake,
                      Atomic!FailForGood, Atomic!Claim
  <2>4. LiveRuns' \subseteq LiveRuns
    BY <1>2, <2>1, <2>3 DEF LiveRuns
  <2>. QED
    BY <1>1, <1>2, <1>3, <2>1, <2>2, <2>4
<1>5. ASSUME NEW r \in Run, Atomic!FailAndRetry(r) PROVE Goal
  <2>1. PICK state \in {"pending", "sleeping"} :
          /\ run' = [run EXCEPT ![r] = "failed", ![r + 1] = state]
          /\ Atomic!Follow(state, r + 1)
    BY <1>5 DEF Atomic!FailAndRetry
  <2>2. run[r] \in LiveState
    BY <1>5 DEF Atomic!FailAndRetry, LiveState
  <2>3. task' # "deleted" => task # "deleted" /\ lastRun' = r + 1
    BY <2>1 DEF Atomic!Follow
  <2>4. \A q \in Run \ {r, r + 1} : run'[q] = run[q]
    BY <1>1, <2>1 DEF TypeOK
  <2>5. \A q \in LiveRuns' : q \in LiveRuns \/ q \in {r, r + 1}
    BY <2>4 DEF LiveRuns
  <2>6. \A q \in LiveRuns' : Later(q)
    <3>1. r \in LiveRuns /\ r \in Nat /\ LiveRuns \subseteq Nat
      BY <1>1, <1>2, <2>2 DEF LiveRuns
    <3>2. r <= r /\ r <= r + 1 /\ \A q \in LiveRuns : q <= q
      BY <3>1
    <3>. QED
      BY <2>5, <3>1, <3>2
  <2>. QED
    BY <1>1, <1>2, <2>2, <2>3, <2>6
<1>6. ASSUME Atomic!Retry PROVE Goal
  <2>1. task # "deleted" /\ lastRun' = lastRun + 1
    BY <1>6 DEF Atomic!Retry
  <2>2. \A q \in Run \ {lastRun + 1} : run'[q] = run[q]
    BY <1>1, <1>6 DEF TypeOK, Atomic!Retry
  <2>3. \A q \in LiveRuns' : q \in LiveRuns \/ q = lastRun + 1
    BY <2>2 DEF LiveRuns
  <2>4. \A q \in LiveRuns : q <= q
    BY <1>1 DEF LiveRuns
  <2>. QED
    BY <1>1, <2>1, <2>3, <2>4
<1>7. ASSUME Atomic!Cancel PROVE Goal
  <2>1. LiveRuns' \subseteq LiveRuns
    BY <1>1, <1>7 DEF Atomic!Cancel, LiveRuns, LiveState
  <2>2. task # "deleted" /\ lastRun' = lastRun
    BY <1>7 DEF Atomic!Cancel, Atomic!LiveState
  <2>. QED
    BY <1>1, <1>3, <2>1, <2>2
<1>8. ASSUME NEW last \in Run, Atomic!Delete(last) PROVE Goal
  <2>1. LiveRuns' \subseteq LiveRuns
    BY <1>1, <1>8 DEF Atomic!Delete, LiveRuns, LiveState
  <2>2. task' = "deleted"
    BY <1>8 DEF Atomic!Delete
  <2>. QED
    BY <1>3, <2>1, <2>2
<1>9. ASSUME UNCHANGED Shown PROVE Goal
  <2>1. LiveRuns' = LiveRuns /\ task' = task /\ lastRun' = lastRun
    BY <1>9 DEF Shown, LiveRuns
  <2>. QED
    BY <1>1, <1>3, <2>1
<1>. HIDE DEF Goal
<1>10. Goal
  BY <1>1, <1>4, <1>5, <1>6, <1>7, <1>8, <1>9 DEF Atomic!Next
<1>. QED
  BY <1>10 DEF Goal

\* So what is not ahead is never ahead.
LEMMA StaysNotAhead ==
  ASSUME AtomicInv, [Next]_vars
  PROVE  \A r \in 0 .. MaxAttempts : NotAhead(r) => NotAhead(r)'
<1>. SUFFICES ASSUME NEW r \in 0 .. MaxAttempts, NotAhead(r) PROVE NotAhead(r)'
  OBVIOUS
<1>1. Atomic!Next \/ UNCHANGED Shown
  BY NextIsAtomic
<1>2. /\ lastRun \in Nat /\ lastRun' \in Nat
      /\ LiveRuns \subseteq Nat /\ LiveRuns' \subseteq Nat
  BY NextInv DEF AtomicInv, Inv, TypeOK, LiveRuns, Run
<1>3. /\ task' # "deleted" => task # "deleted" /\ lastRun <= lastRun'
      /\ \A q \in LiveRuns' : \/ \E p \in LiveRuns : p <= q
                              \/ task # "deleted" /\ lastRun <= q
  BY <1>1, RunsGoForward
<1>4. task' # "deleted" => r <= lastRun'
  BY <1>2, <1>3 DEF NotAhead
<1>5. \A q \in LiveRuns' : r <= q
  BY <1>2, <1>3 DEF NotAhead
<1>. QED
  BY <1>4, <1>5 DEF NotAhead

\* No attempt that exists is ahead: of a live run, or of a task's run.
LEMMA RunsAreNotAhead ==
  ASSUME Inv
  PROVE  /\ NotAhead(0)
         /\ \A r \in LiveRuns : NotAhead(r)
         /\ task # "deleted" => \A r \in Run : run[r] # "absent" => NotAhead(r)
<1>1. lastRun \in Nat /\ Run \subseteq Nat /\ LiveRuns \subseteq Run
  BY DEF Inv, TypeOK, LiveRuns, Run
<1>2. NotAhead(0)
  BY <1>1 DEF NotAhead
<1>3. ASSUME NEW r \in Run, run[r] # "absent", NEW q \in LiveRuns PROVE r <= q
  BY <1>1, <1>3, LiveRunIsLast
<1>4. ASSUME NEW r \in LiveRuns PROVE NotAhead(r)
  <2>1. r \in Run /\ run[r] # "absent" /\ (task # "deleted" => r = lastRun)
    BY <1>4, LiveRunIsLast DEF LiveRuns, LiveState
  <2>. QED
    BY <1>1, <1>3, <2>1 DEF NotAhead
<1>5. ASSUME task # "deleted", NEW r \in Run, run[r] # "absent" PROVE NotAhead(r)
  <2>1. r <= lastRun
    BY <1>1, <1>5 DEF Inv, LastRunIsLast
  <2>. QED
    BY <1>3, <1>5, <2>1 DEF NotAhead
<1>. QED
  BY <1>2, <1>4, <1>5

\* A session that is about to write a checkpoint has just begun, or goes on
\* with its run; meanwhile it holds at most that run.
GoesOn(s) ==
  /\ session'[s].run = session[s].run
  /\ Held(s)' \subseteq Held(s) \union {session[s].run}
  /\ At(s, "write checkpoint")' =>
       session'[s].saw <= session'[s].run \/ session'[s] = session[s]

\* What a step does to the session that takes it.
Takes(s) ==
  /\ session'[s].at = "idle" => Held(s)' = {}
  /\ Checkpointing(s)' => \/ Checkpointing(s) /\ GoesOn(s)
                          \/ /\ session[s].at = "idle" /\ Held(s)' = Held(s)
                             /\ ~At(s, "write checkpoint")'
                             /\ \E r \in Run : /\ BeginCheckpoint(s, r)
                                               /\ session'[s].run = r

\* What it does to the others.
Leaves(s) == session'[s] = session[s] /\ Held(s)' \subseteq Held(s)

LEMMA StepsTakeOrLeave ==
  ASSUME Inv, [Next]_vars
  PROVE  \A s \in Session : Takes(s) \/ Leaves(s)
<1>. DEFINE Goal == \A s \in Session : Takes(s) \/ Leaves(s)
<1>1. TypeOK /\ \A s \in Session : session[s] \in SessionRow /\ s # Null
  BY DEF Inv, TypeOK
<1>2. ASSUME NEW s \in Session, NEW x, session' = [session EXCEPT ![s] = x],
             \A t \in Session \ {s} : Held(t)' \subseteq Held(t),
             session'[s] = x => Takes(s)
      PROVE  Goal
  BY <1>1, <1>2 DEF TypeOK, Leaves
<1>3. ASSUME NEW s \in Session, End(s) PROVE Goal
  <2>1. session' = [session EXCEPT ![s] = Idle] /\ Idle.at = "idle"
    BY <1>3 DEF End, Idle
  <2>2. Held(s)' = {} /\ \A t \in Session \ {s} : Held(t)' \subseteq Held(t)
    BY <1>1, <1>3 DEF End, Held, TypeOK
  <2>3. session'[s] = Idle => Takes(s)
    BY <2>1, <2>2 DEF Takes, Checkpointing
  <2>. QED
    BY <1>2, <2>1, <2>2, <2>3
<1>4. ASSUME NEW s \in Session, NEW x, session' = [session EXCEPT ![s] = x],
             x.at \notin {"idle", "extend", "read owner", "write checkpoint"},
             \A t \in Session \ {s} : Held(t)' \subseteq Held(t)
      PROVE  Goal
  BY <1>2, <1>4 DEF Takes, Checkpointing
<1>5. ASSUME UNCHANGED runLock PROVE \A t \in Session : Held(t)' = Held(t)
  BY <1>5 DEF Held
<1>6. ASSUME NEW s \in Session, NEW r, runLock' = [runLock EXCEPT ![r] = s]
      PROVE  /\ \A t \in Session \ {s} : Held(t)' \subseteq Held(t)
             /\ Held(s)' \subseteq Held(s) \union {r}
  BY <1>1, <1>6 DEF Held, TypeOK
<1>7. ASSUME NEW s \in Session, WorkerStep(s) PROVE Goal
  <2>1. CASE Complete(s) \/ Fail(s) \/ Suspend(s) \/ Wake(s) \/ WriteCheckpoint(s)
    BY <1>3, <2>1 DEF Complete, Fail, Suspend, Wake, WriteCheckpoint
  <2>2. ASSUME NEW r \in Run, NEW point \in {"complete", "fail", "suspend", "wake"},
               LockRun(s, r, point)
        PROVE  Goal
    <3>. DEFINE x == [Idle EXCEPT !.at = point, !.run = r]
    <3>1. x.at = point
      BY DEF Idle
    <3>2. session' = [session EXCEPT ![s] = x] /\ runLock' = [runLock EXCEPT ![r] = s]
      BY <2>2 DEF LockRun
    <3>3. \A t \in Session \ {s} : Held(t)' \subseteq Held(t)
      BY <1>6, <3>2
    <3>. HIDE DEF x
    <3>. QED
      BY <1>4, <3>1, <3>2, <3>3
  <2>3. ASSUME NEW r \in Run, BeginCheckpoint(s, r) PROVE Goal
    <3>. DEFINE x == [Idle EXCEPT !.at = "extend", !.run = r]
    <3>1. x.at = "extend" /\ x.run = r
      BY DEF Idle
    <3>2. session' = [session EXCEPT ![s] = x] /\ session[s].at = "idle"
      BY <2>3 DEF BeginCheckpoint, At
    <3>3. \A t \in Session : Held(t)' = Held(t)
      BY <1>5, <2>3 DEF BeginCheckpoint, locks
    <3>. HIDE DEF x
    <3>4. session'[s] = x => Takes(s)
      BY <2>3, <3>1, <3>2, <3>3 DEF Takes, At
    <3>. QED
      BY <1>2, <3>2, <3>3, <3>4
  <2>4. CASE ExtendClaim(s)
    <3>. DEFINE x == [session[s] EXCEPT !.at = "read owner"]
    <3>1. x.at = "read owner" /\ x.run = session[s].run
      BY <1>1 DEF SessionRow
    <3>2. session' = [session EXCEPT ![s] = x] /\ Checkpointing(s)
      BY <2>4 DEF ExtendClaim, Goto, At, Checkpointing
    <3>3. /\ \A t \in Session \ {s} : Held(t)' \subseteq Held(t)
          /\ Held(s)' \subseteq Held(s) \union {session[s].run}
      BY <1>5, <1>6, <2>4 DEF ExtendClaim
    <3>. HIDE DEF x
    <3>4. session'[s] = x => Takes(s)
      BY <3>1, <3>2, <3>3 DEF Takes, GoesOn, At
    <3>. QED
      BY <1>2, <3>2, <3>3, <3>4
  <2>5. CASE ReadOwner(s)
    <3>. DEFINE x == [session[s] EXCEPT !.at = "write checkpoint", !.saw = OwnerAttempt]
    <3>1. /\ x.at = "write checkpoint" /\ x.run = session[s].run
          /\ x.saw = OwnerAttempt
      BY <1>1 DEF SessionRow
    <3>2. \/ End(s)
          \/ /\ session' = [session EXCEPT ![s] = x] /\ Checkpointing(s)
             /\ UNCHANGED runLock /\ OwnerAttempt <= session[s].run
      BY <2>5 DEF ReadOwner, At, Checkpointing, locks
    <3>. HIDE DEF x
    <3>3. CASE End(s)
      BY <1>3, <3>3
    <3>4. CASE ~End(s)
      <4>1. session'[s] = x => Takes(s)
        BY <1>5, <3>1, <3>2, <3>4 DEF Takes, GoesOn, At
      <4>. QED
        BY <1>2, <1>5, <3>2, <3>4, <4>1
    <3>. QED
      BY <3>3, <3>4
  <2>. QED
    BY <1>7, <2>1, <2>2, <2>3, <2>4, <2>5 DEF WorkerStep
<1>8. ASSUME NEW s \in Session, CancelStep(s) PROVE Goal
  <2>1. CASE CancelScan(s)
    BY <1>4, <1>5, <2>1 DEF CancelScan, Idle, locks
  <2>2. CASE CancelLockRun(s)
    <3>. DEFINE x == [session[s] EXCEPT !.todo = session[s].todo \ {Min(session[s].todo)}]
    <3>1. x.at \in {"cancel runs", "cancel task"}
      BY <1>1, <2>2 DEF CancelLockRun, At, SessionRow
    <3>2. session' = [session EXCEPT ![s] = x]
      BY <2>2 DEF CancelLockRun
    <3>3. \A t \in Session \ {s} : Held(t)' \subseteq Held(t)
      BY <1>5, <1>6, <2>2 DEF CancelLockRun
    <3>. HIDE DEF x
    <3>. QED
      BY <1>4, <3>1, <3>2, <3>3
  <2>3. CASE CancelLockTask(s)
    <3>. DEFINE x == [session[s] EXCEPT !.at = "cancel task", !.todo = LiveRuns]
    <3>1. x.at = "cancel task"
      BY <1>1 DEF SessionRow
    <3>2. \/ End(s)
          \/ session' = [session EXCEPT ![s] = x] /\ UNCHANGED runLock
      BY <2>3 DEF CancelLockTask
    <3>. HIDE DEF x
    <3>. QED
      BY <1>3, <1>4, <1>5, <3>1, <3>2
  <2>4. CASE Cancel(s)
    BY <1>3, <2>4 DEF Cancel
  <2>. QED
    BY <1>8, <2>1, <2>2, <2>3, <2>4 DEF CancelStep
<1>9. ASSUME NEW s \in Session, CleanupStep(s) PROVE Goal
  <2>1. CASE SelectOld(s)
    BY <1>4, <1>5, <2>1 DEF SelectOld, Idle, locks
  <2>2. CASE Delete(s)
    BY <1>3, <2>2 DEF Delete
  <2>. QED
    BY <1>9, <2>1, <2>2 DEF CleanupStep
<1>10. ASSUME UNCHANGED <<session, runLock>> PROVE Goal
  BY <1>5, <1>10 DEF Leaves
<1>. HIDE DEF Goal
<1>11. Goal
  BY <1>3, <1>7, <1>8, <1>9, <1>10 DEF Next, Abort, Claim, Retry, locks, vars
<1>. QED
  BY <1>11 DEF Goal

\* Who writes the checkpoint, and for which attempt.
LEMMA OwnersAreWriters ==
  ASSUME Inv, [Next]_vars
  PROVE  \/ owner' = owner
         \/ owner' = 0 /\ task' = "deleted"
         \/ owner' \in LiveRuns
         \/ \E s \in Session : At(s, "write checkpoint") /\ owner' = session[s].run
<1>1. ASSUME NEW s \in Session, Wake(s) PROVE owner' = owner \/ owner' \in LiveRuns
  <2>1. session[s].run \in LiveRuns
    BY <1>1 DEF Wake, At, Inv, HoldersKnowTheRun, LockedRunsAreLive
  <2>. QED
    BY <1>1, <2>1 DEF Wake
<1>2. ASSUME NEW s \in Session, Delete(s) PROVE owner' = 0 /\ task' = "deleted"
  BY <1>2 DEF Delete
<1>3. ASSUME NEW s \in Session, WriteCheckpoint(s)
      PROVE  At(s, "write checkpoint") /\ owner' = session[s].run
  BY <1>3 DEF WriteCheckpoint
<1>4. ASSUME NEW s \in Session, WorkerStep(s), ~Wake(s), ~WriteCheckpoint(s)
      PROVE  owner' = owner
  BY <1>4 DEF WorkerStep, LockRun, Complete, Fail, Suspend, BeginCheckpoint,
              ExtendClaim, ReadOwner, rows
<1>5. ASSUME NEW s \in Session, CancelStep(s) PROVE owner' = owner
  BY <1>5 DEF CancelStep, CancelScan, CancelLockRun, CancelLockTask, Cancel, rows
<1>6. ASSUME NEW s \in Session, SelectOld(s) \/ Abort(s) PROVE owner' = owner
  BY <1>6 DEF SelectOld, Abort, rows
<1>7. ASSUME \/ \E r \in Run : Claim(r)
             \/ Retry
             \/ UNCHANGED vars
      PROVE  owner' = owner
  BY <1>7 DEF Claim, Retry, vars
<1>. QED
  BY <1>1, <1>2, <1>3, <1>4, <1>5, <1>6, <1>7 DEF Next, CleanupStep

LEMMA NextKeepsKept ==
  ASSUME KeptInv, [Next]_vars
  PROVE  KeptInv'
<1>1. AtomicInv /\ Inv /\ AtomicInv' /\ Inv' /\ TypeOK
  BY NextKeepsAtomic DEF KeptInv, AtomicInv, Inv
<1>2. /\ \A s \in Session : Takes(s) \/ Leaves(s)
      /\ \A r \in 0 .. MaxAttempts : NotAhead(r) => NotAhead(r)'
      /\ Run \subseteq 0 .. MaxAttempts /\ LiveRuns \subseteq Run
  BY <1>1, StepsTakeOrLeave, StaysNotAhead DEF Run, LiveRuns
<1>3. \A r \in {0, owner} \union LiveRuns : r \in 0 .. MaxAttempts /\ NotAhead(r)
  BY <1>1, <1>2, RunsAreNotAhead DEF KeptInv, CheckpointersAreNotAhead, TypeOK
<1>4. ASSUME NEW s \in Session, Checkpointing(s)
      PROVE  session[s].run \in 0 .. MaxAttempts /\ NotAhead(session[s].run)
  BY <1>1, <1>2, <1>4 DEF KeptInv, CheckpointersAreNotAhead, Checkpointing,
                          Inv, CheckpointersHaveRun
<1>5. NotAhead(owner)'
  <2>1. \A r \in 0 .. MaxAttempts : owner' = r /\ NotAhead(r)' => NotAhead(owner)'
    BY DEF NotAhead
  <2>2. \E r \in 0 .. MaxAttempts : owner' = r /\ NotAhead(r)
    BY <1>1, <1>3, <1>4, OwnersAreWriters DEF At, Checkpointing
  <2>. QED
    BY <1>2, <2>1, <2>2
<1>6. ASSUME NEW s \in Session, Checkpointing(s)' PROVE NotAhead(session[s].run)'
  <2>1. \A r \in 0 .. MaxAttempts :
          session'[s].run = r /\ NotAhead(r)' => NotAhead(session[s].run)'
    BY DEF NotAhead
  <2>2. \E r \in 0 .. MaxAttempts : session'[s].run = r /\ NotAhead(r)
    <3>1. CASE session'[s].run = session[s].run /\ Checkpointing(s)
      BY <1>4, <3>1
    <3>2. ASSUME NEW r \in Run, BeginCheckpoint(s, r), session'[s].run = r
          PROVE  r \in 0 .. MaxAttempts /\ session'[s].run = r /\ NotAhead(r)
      BY <1>1, <1>2, <3>2, RunsAreNotAhead DEF BeginCheckpoint
    <3>3. session'[s] = session[s] => Checkpointing(s)
      BY <1>6 DEF Checkpointing
    <3>. QED
      BY <1>2, <1>6, <3>1, <3>2, <3>3 DEF Takes, Leaves, GoesOn
  <2>. QED
    BY <1>2, <2>1, <2>2
<1>7. CheckpointersHoldTheirs'
  <2>. SUFFICES ASSUME NEW s \in Session
                PROVE  /\ session'[s].at = "idle" => Held(s)' = {}
                       /\ Checkpointing(s)' => Held(s)' \subseteq {session'[s].run}
                       /\ At(s, "write checkpoint")' => session'[s].saw <= session'[s].run
    BY DEF CheckpointersHoldTheirs
  <2>1. /\ session[s].at = "idle" => Held(s) = {}
        /\ Checkpointing(s) => Held(s) \subseteq {session[s].run}
        /\ At(s, "write checkpoint") => session[s].saw <= session[s].run
    BY DEF KeptInv, CheckpointersHoldTheirs
  <2>2. At(s, "write checkpoint")' => Checkpointing(s)'
    BY DEF At, Checkpointing
  <2>3. session'[s] = session[s] =>
          /\ At(s, "write checkpoint")' <=> At(s, "write checkpoint")
          /\ Checkpointing(s)' <=> Checkpointing(s)
    BY DEF At, Checkpointing
  <2>4. CASE Takes(s)
    BY <2>1, <2>2, <2>3, <2>4 DEF Takes, GoesOn
  <2>5. CASE Leaves(s)
    BY <2>1, <2>3, <2>5 DEF Leaves
  <2>. QED
    BY <1>2, <2>4, <2>5
<1>. QED
  BY <1>1, <1>5, <1>6, <1>7 DEF KeptInv, CheckpointersAreNotAhead

LEMMA InitKept == Init => KeptInv
<1>. SUFFICES ASSUME Init PROVE KeptInv
  OBVIOUS
<1>1. AtomicInv
  BY InitAtomic
<1>2. \A s \in Session : session[s].at = "idle" /\ Held(s) = {}
  BY DEF Init, Idle, Held
<1>3. CheckpointersHoldTheirs
  BY <1>2 DEF CheckpointersHoldTheirs, Checkpointing, At
<1>4. NotAhead(owner)
  BY <1>1, RunsAreNotAhead DEF Init, AtomicInv
<1>. QED
  BY <1>1, <1>2, <1>3, <1>4 DEF KeptInv, CheckpointersAreNotAhead, Checkpointing

\* A call that takes the checkpoint for an earlier attempt has read what was
\* stored before the later one wrote, and holds no run.
LEMMA EarlierWritersAreLate ==
  ASSUME KeptInv, [Next]_vars, owner' < owner, task' # "deleted"
  PROVE  \E s \in Session : /\ At(s, "write checkpoint")
                            /\ session[s].run = owner' /\ session[s].saw < owner
                            /\ Held(s) = {}
<1>1. Inv /\ TypeOK /\ TypeOK'
  BY NextInv DEF KeptInv, AtomicInv, Inv
<1>2. owner \in Nat /\ owner' \in Nat /\ LiveRuns \subseteq Nat
  BY <1>1 DEF TypeOK, LiveRuns, Run
<1>3. \A r \in LiveRuns : owner <= r
  BY DEF KeptInv, CheckpointersAreNotAhead, NotAhead
<1>4. ASSUME owner' \in LiveRuns PROVE FALSE
  <2>1. owner <= owner'
    BY <1>3, <1>4
  <2>. QED
    BY <1>2, <2>1
<1>5. owner' # owner
  BY <1>2
<1>6. PICK s \in Session : At(s, "write checkpoint") /\ owner' = session[s].run
  BY <1>1, <1>4, <1>5, OwnersAreWriters
<1>7. Checkpointing(s)
  BY <1>6 DEF Checkpointing, At
<1>8. /\ session[s].saw <= session[s].run
      /\ Held(s) \subseteq {session[s].run}
  BY <1>6, <1>7 DEF KeptInv, CheckpointersHoldTheirs
<1>9. session[s].saw \in Nat
  BY <1>1 DEF TypeOK, SessionRow
<1>10. Held(s) \subseteq LiveRuns
  BY <1>1 DEF Inv, TypeOK, LockedRunsAreLive, Held
<1>11. Held(s) = {}
  BY <1>4, <1>6, <1>8, <1>10
<1>12. session[s].saw < owner
  <2>1. session[s].saw <= owner'
    BY <1>6, <1>8
  <2>2. \A n \in Nat : n <= owner' => n < owner
    BY <1>2
  <2>. QED
    BY <1>9, <2>1, <2>2
<1>. QED
  BY <1>6, <1>11, <1>12

\* However their statements interleave, a checkpoint stays until its task is
\* deleted, and an earlier attempt takes it from a later one only if it has
\* not extended its claim and read what was stored before that one wrote.
THEOREM CheckpointsStay == Spec => CheckpointsAreKept
<1>1. KeptInv /\ [Next]_vars => KeptInv'
  BY NextKeepsKept
<1>2. KeptInv /\ [Next]_vars =>
        [owner' < owner =>
           \/ task' = "deleted"
           \/ \E s \in Session : /\ At(s, "write checkpoint")
                                 /\ session[s].run = owner' /\ session[s].saw < owner
                                 /\ Held(s) = {}]_vars
  BY EarlierWritersAreLate
<1>. QED
  BY <1>1, <1>2, InitKept, PTL DEF Spec, CheckpointsAreKept

=============================================================================

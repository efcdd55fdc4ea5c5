----------------------- MODULE WorkflowDoorbellProofs -----------------------
(***************************************************************************)
(* For any handler, and any number of workers, deferreds and doorbells:    *)
(* the handshake between a worker that parks an execution and the caller   *)
(* that completes a deferred, and the refinement of TaskLifecycle.         *)
(***************************************************************************)
EXTENDS WorkflowDoorbell, TLAPS

USE WorkflowAssumption

-----------------------------------------------------------------------------
(* Types.                                                                  *)

\* Only the transaction of a spawned child ends a child.
TxOK == \A k \in Child : tx[k] # "idle" => k \in spawned

TypeInv == TypeOK /\ TxOK

LEMMA StartTyped ==
  ASSUME TypeOK, Start
  PROVE  /\ run' \in RunRow
         /\ parked' \in [missing : SUBSET Signal, unresolved : SUBSET Signal,
                        kids : SUBSET Child, checked : BOOLEAN]
BY DEF TypeOK, Start, RunRow, LiveState, NotParked

LEMMA IdleIsTyped == IdleWorker \in WorkerRow
BY DEF IdleWorker, WorkerRow

LEMMA BecomeTyped ==
  ASSUME TypeOK, NEW w \in Worker, NEW row \in WorkerRow, Become(w, row)
  PROVE  worker' \in [Worker -> WorkerRow]
BY DEF TypeOK, Become

LEMMA RestTyped ==
  ASSUME TypeOK, NEW w \in Worker, Rest(w)
  PROVE  worker' \in [Worker -> WorkerRow]
BY IdleIsTyped, BecomeTyped DEF Rest

LEMMA ReadyTyped ==
  ASSUME TypeOK
  PROVE  Ready \in RunRow
BY DEF TypeOK, Ready, RunRow, LiveState

LEMMA RingTyped ==
  ASSUME TypeOK, NEW b, RingBell(b)
  PROVE  run' \in RunRow
BY ReadyTyped DEF RingBell, TypeOK

LEMMA SleepTyped ==
  ASSUME TypeOK, NEW b \in Bell, NEW alarm \in SUBSET (Clock \union {Poll}),
         Sleep(b, alarm)
  PROVE  run' \in RunRow
BY DEF TypeOK, Sleep, RunRow, LiveState

LEMMA FreshIsFresh ==
  ASSUME FreshBells # {}
  PROVE  FreshBell \in Bell /\ FreshBell \notin Held
BY DEF FreshBell, FreshBells

LEMMA GotTyped ==
  ASSUME TypeOK, NEW w \in Worker, NEW s \in Source, Got(w, s) \/ Missed(w, s)
  PROVE  worker' \in [Worker -> WorkerRow]
<1>1. worker[w] \in WorkerRow
  BY DEF TypeOK
<1>2. CASE Got(w, s)
  <2>1. [worker[w] EXCEPT !.got = @ \union {s},
                          !.awaited = @ \union ({s} \intersect Signal),
                          !.kids = @ \union ({s} \intersect Child)] \in WorkerRow
    BY <1>1 DEF WorkerRow
  <2> QED
    BY <1>2, <2>1, BecomeTyped DEF Got
<1>3. CASE Missed(w, s)
  <2>1. [worker[w] EXCEPT !.missing = @ \union {s},
                          !.awaited = @ \union ({s} \intersect Signal),
                          !.kids = @ \union ({s} \intersect Child)] \in WorkerRow
    BY <1>1 DEF WorkerRow
  <2> QED
    BY <1>3, <2>1, BecomeTyped DEF Missed
<1> QED
  BY <1>2, <1>3

\* The calls of the handler.
LEMMA ReplaysTyped ==
  ASSUME TypeInv, NEW w \in Worker, Replays(w)
  PROVE  TypeInv'
<1> USE DEF TypeInv, facts
<1>1. worker[w] \in WorkerRow
  BY DEF TypeOK
<1>2. ASSUME NEW d \in Deferred, AwaitDeferred(w, d) PROVE TypeInv'
  <2>1. worker' \in [Worker -> WorkerRow]
    BY <1>2, GotTyped DEF AwaitDeferred, Source
  <2> QED
    BY <1>2, <2>1 DEF AwaitDeferred, TypeOK, TxOK, Signal
<1>3. ASSUME NEW c \in Clock, AwaitClock(w, c) PROVE TypeInv'
  <2>1. worker' \in [Worker -> WorkerRow]
    BY <1>3, GotTyped DEF AwaitClock, Source
  <2> QED
    BY <1>3, <2>1 DEF AwaitClock, TypeOK, TxOK, Signal
<1>4. ASSUME NEW k \in Child, ExecuteChild(w, k) PROVE TypeInv'
  <2>1. worker' \in [Worker -> WorkerRow]
    BY <1>4, GotTyped DEF ExecuteChild, Source
  <2> QED
    BY <1>4, <2>1 DEF ExecuteChild, TypeOK, TxOK
<1>5. ASSUME NEW a \in Activity, StartActivity(w, a) PROVE TypeInv'
  <2>1. CASE Got(w, a)
    BY <1>5, <2>1, GotTyped DEF StartActivity, TypeOK, TxOK, Source
  <2>2. CASE Become(w, [worker[w] EXCEPT !.at = "exit", !.busy = {}])
    <3>1. [worker[w] EXCEPT !.at = "exit", !.busy = {}] \in WorkerRow
      BY <1>1 DEF WorkerRow
    <3> QED
      BY <1>5, <2>2, <3>1, BecomeTyped DEF StartActivity, TypeOK, TxOK
  <2>3. CASE Become(w, [worker[w] EXCEPT !.busy = @ \union {a}])
    <3>1. [worker[w] EXCEPT !.busy = @ \union {a}] \in WorkerRow
      BY <1>1 DEF WorkerRow
    <3> QED
      BY <1>5, <2>3, <3>1, BecomeTyped DEF StartActivity, TypeOK, TxOK
  <2> QED
    BY <1>5, <2>1, <2>2, <2>3 DEF StartActivity
<1>6. ASSUME NEW a \in Activity, FinishActivity(w, a) PROVE TypeInv'
  <2>1. [worker[w] EXCEPT !.busy = @ \ {a}, !.got = @ \union {a}] \in WorkerRow
    BY <1>1 DEF WorkerRow, Source
  <2> QED
    BY <1>6, <2>1, BecomeTyped DEF FinishActivity, TypeOK, TxOK
<1>7. CASE Suspend(w)
  <2>1. [worker[w] EXCEPT !.at = "exit", !.suspended = TRUE] \in WorkerRow
    BY <1>1 DEF WorkerRow
  <2> QED
    BY <1>7, <2>1, BecomeTyped DEF Suspend, TypeOK, TxOK
<1>8. CASE Succeed(w)
  <2>1. [worker[w] EXCEPT !.at = "exit"] \in WorkerRow
    BY <1>1 DEF WorkerRow
  <2> QED
    BY <1>8, <2>1, BecomeTyped DEF Succeed, TypeOK, TxOK
<1>9. CASE Preempt(w)
  BY <1>9, RestTyped, ReadyTyped DEF Preempt, TypeOK, TxOK
<1>10. CASE Exit(w)
  <2>1. [worker[w] EXCEPT !.at = "complete"] \in WorkerRow
    BY <1>1 DEF WorkerRow
  <2>2. [worker[w] EXCEPT !.at = "park", !.todo = ToCheck(w)] \in WorkerRow
    BY <1>1 DEF WorkerRow, ToCheck, Source, Signal
  <2> QED
    BY <1>10, <2>1, <2>2, BecomeTyped DEF Exit, TypeOK, TxOK
<1>11. CASE Complete(w)
  BY <1>11, RestTyped DEF Complete, TypeOK, TxOK, RunRow
<1> QED
  BY <1>2, <1>3, <1>4, <1>5, <1>6, <1>7, <1>8, <1>9, <1>10, <1>11 DEF Replays

\* Looking, parking, and looking again.
LEMMA ParksTyped ==
  ASSUME TypeInv, NEW w \in Worker, Parks(w)
  PROVE  TypeInv'
<1> USE DEF TypeInv, facts
<1>1. worker[w] \in WorkerRow
  BY DEF TypeOK
<1>2. ASSUME NEW s \in Source \union {Interrupt}, CheckResumes(w, s) PROVE TypeInv'
  BY <1>2, RestTyped, ReadyTyped DEF CheckResumes, TypeOK, TxOK
<1>3. ASSUME NEW s \in Source \union {Interrupt}, CheckPasses(w, s) PROVE TypeInv'
  <2> DEFINE row == [worker[w] EXCEPT !.todo = @ \ {s},
                       !.unresolved = IF Holds(s) THEN @
                                      ELSE @ \union ({s} \intersect Signal)]
  <2>1. row \in WorkerRow
    BY <1>1 DEF WorkerRow
  <2> QED
    BY <1>3, <2>1, BecomeTyped DEF CheckPasses, TypeOK, TxOK
<1>4. ASSUME NEW s \in Source \union {Interrupt}, RecheckRings(w, s) PROVE TypeInv'
  BY <1>4, RestTyped, RingTyped DEF RecheckRings, TypeOK, TxOK
<1>5. ASSUME NEW s \in Source \union {Interrupt}, RecheckPasses(w, s) PROVE TypeInv'
  <2>1. [worker[w] EXCEPT !.todo = @ \ {s}] \in WorkerRow
    BY <1>1 DEF WorkerRow
  <2> QED
    BY <1>5, <2>1, BecomeTyped DEF RecheckPasses, TypeOK, TxOK
<1>6. CASE Park(w)
  <2> DEFINE row == [IdleWorker EXCEPT !.at = "recheck",
                                       !.attempt = worker[w].attempt,
                                       !.bell = FreshBell,
                                       !.todo = ToRecheck(w)]
  <2>1. FreshBell \in Bell
    BY <1>6, FreshIsFresh DEF Park
  <2>2. row \in WorkerRow
    BY <1>1, <2>1, IdleIsTyped DEF WorkerRow, ToRecheck, Source, Signal
  <2>3. AlarmOf(w) \in SUBSET (Clock \union {Poll})
    BY DEF AlarmOf, TypeOK
  <2>4. run' \in RunRow
    BY <1>6, <2>1, <2>3, SleepTyped DEF Park
  <2>5. parked' \in [missing : SUBSET Signal, unresolved : SUBSET Signal,
                     kids : SUBSET Child, checked : BOOLEAN]
    BY <1>1, <1>6 DEF Park, WorkerRow
  <2>6. worker' \in [Worker -> WorkerRow]
    BY <1>6, <2>2, BecomeTyped DEF Park
  <2> QED
    BY <1>6, <2>4, <2>5, <2>6 DEF Park, TypeOK, TxOK
<1>7. CASE RecheckEnds(w)
  <2>1. parked' \in [missing : SUBSET Signal, unresolved : SUBSET Signal,
                     kids : SUBSET Child, checked : BOOLEAN]
    BY <1>7 DEF RecheckEnds, TypeOK
  <2> QED
    BY <1>7, <2>1, RestTyped DEF RecheckEnds, TypeOK, TxOK
<1>8. CASE DeferUnknown(w)
  <2>1. run' \in RunRow
    BY <1>8, FreshIsFresh, SleepTyped DEF DeferUnknown
  <2> QED
    BY <1>8, <2>1, RestTyped DEF DeferUnknown, TypeOK, TxOK
<1> QED
  BY <1>2, <1>3, <1>4, <1>5, <1>6, <1>7, <1>8 DEF Parks

LEMMA ClientTyped ==
  ASSUME TypeInv, Client
  PROVE  TypeInv'
<1> USE DEF TypeInv, facts
<1>1. ASSUME NEW d \in Deferred,
             EmitDeferred(d) \/ ReadBell(d) \/ RingForDeferred(d) \/ CallBreaks(d)
      PROVE  TypeInv'
  <2>1. CASE EmitDeferred(d)
    BY <1>1, <2>1 DEF EmitDeferred, TypeOK, TxOK, Signal
  <2>2. CASE ReadBell(d)
    BY <1>1, <2>2 DEF ReadBell, TypeOK, TxOK
  <2>3. CASE RingForDeferred(d)
    BY <1>1, <2>3, RingTyped DEF RingForDeferred, TypeOK, TxOK
  <2>4. CASE CallBreaks(d)
    BY <1>1, <2>4 DEF CallBreaks, TypeOK, TxOK
  <2> QED
    BY <1>1, <2>1, <2>2, <2>3, <2>4
<1>2. ASSUME NEW x \in Child \union {Interrupt}, Open(x) \/ Commit(x) \/ Rollback(x)
      PROVE  TypeInv'
  <2>1. CASE Open(x)
    BY <1>2, <2>1 DEF Open, TypeOK, TxOK, Source
  <2>2. CASE Commit(x)
    <3>1. run' \in RunRow
      BY <2>2, RingTyped DEF Commit
    <3>2. CASE x = Interrupt
      BY <1>2, <2>2, <3>1, <3>2 DEF Commit, TypeOK, TxOK
    <3>3. CASE x # Interrupt
      BY <1>2, <2>2, <3>1, <3>3 DEF Commit, TypeOK, TxOK
    <3> QED
      BY <3>2, <3>3
  <2>3. CASE Rollback(x)
    BY <1>2, <2>3 DEF Rollback, TypeOK, TxOK
  <2> QED
    BY <1>2, <2>1, <2>2, <2>3
<1>3. ASSUME NEW k \in Child, EndOutside(k) PROVE TypeInv'
  BY <1>3 DEF EndOutside, TypeOK, TxOK
<1>4. CASE Execute
  <2>1. run' \in RunRow
    <3>1. run \in RunRow /\ 1 \in 0 .. MaxAttempts
      BY DEF TypeOK
    <3> QED
      BY <1>4, <3>1 DEF Execute, RunRow, LiveState
  <2> QED
    BY <1>4, <2>1 DEF Execute, TypeOK, TxOK
<1>5. CASE Resume
  BY <1>5, RingTyped DEF Resume, TypeOK, TxOK
<1>6. CASE Cancel
  <2>1. run' \in RunRow
    BY <1>6 DEF Cancel, TypeOK, RunRow
  <2> QED
    BY <1>6, <2>1 DEF Cancel, TypeOK, TxOK
<1> QED
  BY <1>1, <1>2, <1>3, <1>4, <1>5, <1>6 DEF Client

LEMMA TypeInvariance == Spec => []TypeInv
<1>1. Init => TypeInv
  <2> SUFFICES ASSUME Init PROVE TypeInv
    OBVIOUS
  <2>1. run \in RunRow
    BY DEF Init, RunRow, LiveState
  <2>2. worker \in [Worker -> WorkerRow]
    BY IdleIsTyped DEF Init
  <2>3. parked \in [missing : SUBSET Signal, unresolved : SUBSET Signal,
                    kids : SUBSET Child, checked : BOOLEAN]
    BY DEF Init, NotParked
  <2> QED
    BY <2>1, <2>2, <2>3 DEF Init, TypeInv, TypeOK, TxOK
<1>2. TypeInv /\ [Next]_vars => TypeInv'
  <2> SUFFICES ASSUME TypeInv, [Next]_vars PROVE TypeInv'
    OBVIOUS
  <2> USE DEF TypeInv, facts
  <2>1. CASE UNCHANGED vars
    BY <2>1 DEF vars, TypeOK, TxOK
  <2>2. ASSUME NEW w \in Worker, NEW at \in {"handler", "unknown"}, Claim(w, at)
        PROVE  TypeInv'
    <3>1. [IdleWorker EXCEPT !.at = at, !.attempt = run.attempt] \in WorkerRow
      BY IdleIsTyped DEF TypeOK, RunRow, WorkerRow
    <3>2. worker' \in [Worker -> WorkerRow]
      BY <2>2, <3>1, BecomeTyped DEF Claim
    <3> QED
      BY <2>2, <3>2, StartTyped DEF Claim, TypeOK, TxOK
  <2>3. ASSUME NEW w \in Worker, Crash(w) \/ Superseded(w) \/ Restart(w)
        PROVE  TypeInv'
    BY <2>3, RestTyped DEF Crash, Superseded, Restart, TypeOK, TxOK
  <2>4. ASSUME NEW c \in Clock, Tick(c) PROVE TypeInv'
    BY <2>4 DEF Tick, TypeOK, TxOK
  <2>5. CASE Expire
    <3>1. run' \in RunRow
      <4>1. run \in RunRow /\ run.attempt \in 0 .. MaxAttempts
        BY DEF TypeOK, RunRow
      <4>2. CASE run.attempt < MaxAttempts
        <5>1. run.attempt + 1 \in 0 .. MaxAttempts
          BY <4>1, <4>2
        <5>2. run' = [run EXCEPT !.state = "pending", !.attempt = run.attempt + 1]
          BY <2>5, <4>2 DEF Expire
        <5> QED
          BY <4>1, <5>1, <5>2 DEF RunRow, LiveState
      <4>3. CASE ~(run.attempt < MaxAttempts)
        BY <2>5, <4>1, <4>3 DEF Expire, RunRow
      <4> QED
        BY <4>2, <4>3
    <3> QED
      BY <2>5, <3>1 DEF Expire, TypeOK, TxOK
  <2>6. ASSUME NEW w \in Worker, PollFails(w) PROVE TypeInv'
    <3>1. [IdleWorker EXCEPT !.at = "dead"] \in WorkerRow
      BY IdleIsTyped DEF WorkerRow
    <3>2. worker' \in [Worker -> WorkerRow]
      BY <2>6, <3>1, BecomeTyped DEF PollFails
    <3> QED
      BY <2>6, <3>2, StartTyped DEF PollFails, TypeOK, TxOK
  <2> QED
    BY <2>1, <2>2, <2>3, <2>4, <2>5, <2>6, ReplaysTyped, ParksTyped, ClientTyped DEF Next
<1> QED
  BY <1>1, <1>2, PTL DEF Spec

\* The execution, the facts, the fibers and the calls in flight have their
\* types, whatever comes between two calls of the engine.
THEOREM TypeCorrect == Spec => []TypeOK
BY TypeInvariance, PTL DEF TypeInv

-----------------------------------------------------------------------------
(* The handshake.                                                          *)

\* Worker w has parked the run on the doorbell it is parked on.
Rechecks(w) == worker[w].at = "recheck" /\ worker[w].bell = run.bell

\* A worker that looks again does so for a doorbell, which it does not
\* share, and has not finished.
RecheckersOK ==
  /\ \A w \in Worker : worker[w].at = "recheck" => worker[w].bell \in Bell
  /\ \A w \in Worker : Rechecks(w) => ~parked.checked
  /\ \A w, x \in Worker : Rechecks(w) /\ Rechecks(x) => w = x

\* A caller that has begun has emitted its event first.
EmittedFirst == \A d \in Deferred : call[d] # "idle" => d \in event

\* A caller that has gone past the doorbell of a parked run, or has read
\* another one, is seen by the worker that looks again.
CallersAreSeen ==
  \A d \in Deferred \intersect parked.unresolved :
    Asleep /\ call[d] \notin {"idle", "emitted", run.bell}
      => WillRecheck(d) \/ RecheckLost

HandInv ==
  /\ TypeInv
  /\ RecheckersOK
  /\ run.state = "running" => parked = NotParked
  /\ EmittedFirst
  /\ CallersAreSeen

\* The run stays as it is, or is not parked any more.
Unparked ==
  /\ run'.state \notin {"running", "sleeping"}
  /\ run'.bell \in {run.bell, NoBell}

\* Nobody begins or ends to look again.
SameRecheckers ==
  \A x \in Worker :
    /\ worker'[x].at = "recheck" <=> worker[x].at = "recheck"
    /\ worker[x].at = "recheck" =>
         worker'[x].bell = worker[x].bell /\ worker'[x].todo = worker[x].todo

LEMMA QuietKeeps ==
  ASSUME HandInv, TypeInv', SameRecheckers, UNCHANGED <<call, parked>>,
         event \subseteq event', run' = run \/ Unparked
  PROVE  HandInv'
<1>1. RecheckersOK'
  BY DEF HandInv, RecheckersOK, Rechecks, SameRecheckers, Unparked, TypeInv, TypeOK
<1>2. run'.state = "running" => parked' = NotParked
  BY DEF HandInv, Unparked
<1>3. EmittedFirst'
  BY DEF HandInv, EmittedFirst
<1>4. CallersAreSeen'
  <2>1. CASE Unparked
    BY <2>1 DEF Unparked, CallersAreSeen, Asleep
  <2>2. CASE run' = run
    BY <2>2 DEF HandInv, CallersAreSeen, Asleep, WillRecheck, RecheckLost, SameRecheckers
  <2> QED
    BY <2>1, <2>2
<1> QED
  BY <1>1, <1>2, <1>3, <1>4 DEF HandInv

\* A worker that goes from one part of the engine to another, but not to or
\* from the second look.
LEMMA BecomeKeeps ==
  ASSUME HandInv, TypeInv', NEW w \in Worker, NEW row, Become(w, row),
         worker[w].at # "recheck", row.at # "recheck",
         UNCHANGED <<call, parked>>, event \subseteq event', run' = run \/ Unparked
  PROVE  HandInv'
<1>1. SameRecheckers
  BY DEF Become, SameRecheckers, HandInv, TypeInv, TypeOK
<1> QED
  BY <1>1, QuietKeeps

\* A worker that ends, at any point.
LEMMA RestKeeps ==
  ASSUME HandInv, TypeInv', NEW w \in Worker, Rest(w),
         UNCHANGED <<call, parked, event>>, run' = run \/ Unparked
  PROVE  HandInv'
<1>1. /\ worker'[w].at = "idle"
      /\ \A x \in Worker \ {w} : worker'[x] = worker[x]
  BY DEF Rest, Become, IdleWorker, HandInv, TypeInv, TypeOK
<1>2. RecheckersOK'
  BY <1>1 DEF HandInv, RecheckersOK, Rechecks, Unparked, TypeInv, TypeOK
<1>3. (run'.state = "running" => parked' = NotParked) /\ EmittedFirst'
  BY DEF HandInv, Unparked, EmittedFirst
<1>4. CallersAreSeen'
  <2>1. CASE Unparked
    BY <2>1 DEF Unparked, CallersAreSeen, Asleep
  <2>2. CASE run' = run
    <3> SUFFICES ASSUME NEW d \in Deferred \intersect parked.unresolved,
                        Asleep, call[d] \notin {"idle", "emitted", run.bell}
                 PROVE  (WillRecheck(d) \/ RecheckLost)'
      BY <2>2 DEF CallersAreSeen, Asleep
    <3>1. WillRecheck(d) \/ RecheckLost
      BY DEF HandInv, CallersAreSeen
    <3>2. CASE Rechecks(w)
      BY <1>1, <2>2, <3>2 DEF HandInv, RecheckersOK, Rechecks, RecheckLost
    <3>3. CASE ~Rechecks(w)
      BY <1>1, <2>2, <3>1, <3>3 DEF Rechecks, WillRecheck, RecheckLost
    <3> QED
      BY <3>2, <3>3
  <2> QED
    BY <2>1, <2>2
<1> QED
  BY <1>2, <1>3, <1>4 DEF HandInv

LEMMA RingIsQuiet ==
  ASSUME TypeInv, NEW b, RingBell(b)
  PROVE  run' = run \/ (Unparked /\ Asleep /\ b = run.bell)
BY DEF TypeInv, TypeOK, RingBell, Ready, Unparked, CurrentBell, Asleep, RunRow

LEMMA ReadyIsUnparked ==
  ASSUME TypeInv, run' = Ready
  PROVE  Unparked
BY DEF TypeInv, TypeOK, Ready, Unparked, RunRow

LEMMA ReplaysKeep ==
  ASSUME HandInv, TypeInv', NEW w \in Worker, Replays(w)
  PROVE  HandInv'
<1> USE DEF facts
<1>1. worker[w] \in WorkerRow
  BY DEF HandInv, TypeInv, TypeOK
<1>2. ASSUME NEW s, worker[w].at = "handler", Got(w, s) \/ Missed(w, s),
             UNCHANGED <<run, call, parked>>, event \subseteq event'
      PROVE  HandInv'
  BY <1>1, <1>2, BecomeKeeps DEF Got, Missed, WorkerRow
<1>3. ASSUME NEW d \in Deferred, AwaitDeferred(w, d) PROVE HandInv'
  BY <1>2, <1>3 DEF AwaitDeferred, Asks
<1>4. ASSUME NEW c \in Clock, AwaitClock(w, c) PROVE HandInv'
  BY <1>2, <1>4 DEF AwaitClock, Asks
<1>5. ASSUME NEW k \in Child, ExecuteChild(w, k) PROVE HandInv'
  BY <1>2, <1>5 DEF ExecuteChild, Asks
<1>6. ASSUME NEW a \in Activity, StartActivity(w, a) PROVE HandInv'
  <2>1. UNCHANGED <<run, event, call, parked>> /\ worker[w].at = "handler"
    BY <1>6 DEF StartActivity, Asks
  <2>2. CASE Got(w, a)
    BY <1>2, <2>1, <2>2
  <2>3. CASE Become(w, [worker[w] EXCEPT !.at = "exit", !.busy = {}])
    BY <1>1, <2>1, <2>3, BecomeKeeps DEF WorkerRow
  <2>4. CASE Become(w, [worker[w] EXCEPT !.busy = @ \union {a}])
    BY <1>1, <2>1, <2>4, BecomeKeeps DEF WorkerRow
  <2> QED
    BY <1>6, <2>2, <2>3, <2>4 DEF StartActivity
<1>7. ASSUME NEW a \in Activity, FinishActivity(w, a) PROVE HandInv'
  BY <1>1, <1>7, BecomeKeeps DEF FinishActivity, WorkerRow
<1>8. CASE Suspend(w)
  BY <1>1, <1>8, BecomeKeeps DEF Suspend, WorkerRow
<1>9. CASE Succeed(w)
  BY <1>1, <1>9, BecomeKeeps DEF Succeed, WorkerRow
<1>10. CASE Preempt(w)
  BY <1>10, RestKeeps, ReadyIsUnparked DEF Preempt, HandInv
<1>11. CASE Exit(w)
  <2>1. UNCHANGED <<run, event, call, parked>> /\ worker[w].at = "exit"
    BY <1>11 DEF Exit
  <2>2. CASE Become(w, [worker[w] EXCEPT !.at = "complete"])
    BY <1>1, <2>1, <2>2, BecomeKeeps DEF WorkerRow
  <2>3. CASE Become(w, [worker[w] EXCEPT !.at = "park", !.todo = ToCheck(w)])
    BY <1>1, <2>1, <2>3, BecomeKeeps DEF WorkerRow
  <2> QED
    BY <1>11, <2>2, <2>3 DEF Exit
<1>12. CASE Complete(w)
  <2>1. Unparked
    BY <1>12 DEF Complete, Unparked, HandInv, TypeInv, TypeOK, RunRow
  <2> QED
    BY <1>12, <2>1, RestKeeps DEF Complete
<1> QED
  BY <1>3, <1>4, <1>5, <1>6, <1>7, <1>8, <1>9, <1>10, <1>11, <1>12 DEF Replays

\* Parking: the doorbell is fresh, so nobody else looks again for it, and
\* every deferred that was missing is looked at again.
LEMMA ParkKeeps ==
  ASSUME HandInv, TypeInv', NEW w \in Worker, Park(w)
  PROVE  HandInv'
<1>1. FreshBell \in Bell /\ FreshBell \notin Held
  BY FreshIsFresh DEF Park
<1>2. run'.bell = FreshBell /\ run'.state = "sleeping"
  BY DEF Park, Sleep, HandInv, TypeInv, TypeOK, RunRow
<1>3. /\ worker'[w].at = "recheck" /\ worker'[w].bell = FreshBell
      /\ worker'[w].todo = ToRecheck(w)
      /\ \A x \in Worker \ {w} : worker'[x] = worker[x]
  BY DEF Park, Become, IdleWorker, HandInv, TypeInv, TypeOK
<1>4. /\ parked'.unresolved = worker[w].unresolved /\ ~parked'.checked
      /\ UNCHANGED <<call, event>>
  BY DEF Park, facts
<1>5. \A x \in Worker : worker[x].bell # FreshBell
  BY <1>1 DEF Held
<1>6. RecheckersOK'
  BY <1>1, <1>2, <1>3, <1>4, <1>5 DEF HandInv, RecheckersOK, Rechecks
<1>7. CallersAreSeen'
  BY <1>2, <1>3, <1>4 DEF CallersAreSeen, WillRecheck, ToRecheck
<1> QED
  BY <1>2, <1>4, <1>6, <1>7 DEF HandInv, EmittedFirst

\* A deferred that the second look passes over has not been emitted.
LEMMA RecheckPassesKeeps ==
  ASSUME HandInv, TypeInv', NEW w \in Worker, NEW s \in Source \union {Interrupt},
         RecheckPasses(w, s)
  PROVE  HandInv'
<1>1. UNCHANGED <<run, event, call, parked>>
  BY DEF RecheckPasses, facts
<1>2. /\ worker'[w].at = "recheck" /\ worker'[w].bell = worker[w].bell
      /\ worker'[w].todo = worker[w].todo \ {s}
      /\ worker[w].at = "recheck"
      /\ \A x \in Worker \ {w} : worker'[x] = worker[x]
  BY DEF RecheckPasses, Become, HandInv, TypeInv, TypeOK, WorkerRow
<1>3. RecheckersOK'
  BY <1>1, <1>2 DEF HandInv, RecheckersOK, Rechecks
<1>4. CallersAreSeen'
  <2> SUFFICES ASSUME NEW d \in Deferred \intersect parked.unresolved,
                      Asleep, call[d] \notin {"idle", "emitted", run.bell}
               PROVE  (WillRecheck(d) \/ RecheckLost)'
    BY <1>1 DEF CallersAreSeen, Asleep
  <2>1. WillRecheck(d) \/ RecheckLost
    BY DEF HandInv, CallersAreSeen
  <2>2. d \in event
    BY DEF HandInv, EmittedFirst
  <2>3. d # s
    BY <2>2 DEF RecheckPasses, Holds
  <2> QED
    BY <1>1, <1>2, <2>1, <2>3 DEF WillRecheck, RecheckLost
<1> QED
  BY <1>1, <1>3, <1>4 DEF HandInv, EmittedFirst

\* The second look ends when it has looked at everything.
LEMMA RecheckEndsKeeps ==
  ASSUME HandInv, TypeInv', NEW w \in Worker, RecheckEnds(w)
  PROVE  HandInv'
<1>1. CASE run.bell # worker[w].bell
  BY <1>1, RestKeeps DEF RecheckEnds, facts
<1>2. CASE run.bell = worker[w].bell
  <2>1. /\ UNCHANGED <<run, event, call>> /\ worker[w].todo = {} /\ Rechecks(w)
        /\ parked' = [parked EXCEPT !.checked = TRUE]
    BY <1>2 DEF RecheckEnds, facts, Rechecks
  <2>2. /\ worker'[w].at = "idle"
        /\ \A x \in Worker \ {w} : worker'[x] = worker[x]
    BY DEF RecheckEnds, Rest, Become, IdleWorker, HandInv, TypeInv, TypeOK
  <2>3. parked'.unresolved = parked.unresolved /\ parked'.missing = parked.missing
    BY <2>1 DEF HandInv, TypeInv, TypeOK
  <2>4. \A x \in Worker : Rechecks(x) => x = w
    BY <2>1 DEF HandInv, RecheckersOK
  <2>5. RecheckersOK'
    BY <2>1, <2>2, <2>4 DEF HandInv, RecheckersOK, Rechecks
  <2>6. \A d : ~WillRecheck(d)
    BY <2>1, <2>4 DEF WillRecheck, Rechecks
  <2>7. ~RecheckLost
    BY <2>1 DEF RecheckLost, Rechecks
  <2>8. CallersAreSeen'
    BY <2>1, <2>3, <2>6, <2>7 DEF HandInv, CallersAreSeen, Asleep
  <2>9. run.state # "running"
    BY <2>1 DEF HandInv, RecheckersOK, NotParked
  <2> QED
    BY <2>1, <2>5, <2>8, <2>9 DEF HandInv, EmittedFirst
<1> QED
  BY <1>1, <1>2

\* A run put away by a worker without its handler was not parked.
LEMMA DeferUnknownKeeps ==
  ASSUME HandInv, TypeInv', NEW w \in Worker, DeferUnknown(w)
  PROVE  HandInv'
<1>1. FreshBell \in Bell /\ FreshBell \notin Held
  BY FreshIsFresh DEF DeferUnknown
<1>2. run'.bell = FreshBell /\ run'.state = "sleeping"
  BY DEF DeferUnknown, Sleep, HandInv, TypeInv, TypeOK, RunRow
<1>3. worker'[w].at = "idle" /\ \A x \in Worker \ {w} : worker'[x] = worker[x]
  BY DEF DeferUnknown, Rest, Become, IdleWorker, HandInv, TypeInv, TypeOK
<1>4. UNCHANGED <<call, event, parked>> /\ parked = NotParked
  BY DEF DeferUnknown, facts, Owns, HandInv
<1>5. \A x \in Worker : worker[x].bell # FreshBell
  BY <1>1 DEF Held
<1>6. RecheckersOK'
  BY <1>2, <1>3, <1>4, <1>5 DEF HandInv, RecheckersOK, Rechecks
<1>7. CallersAreSeen'
  BY <1>4 DEF CallersAreSeen, NotParked
<1> QED
  BY <1>2, <1>4, <1>6, <1>7 DEF HandInv, EmittedFirst

LEMMA ParksKeep ==
  ASSUME HandInv, TypeInv', NEW w \in Worker, Parks(w)
  PROVE  HandInv'
<1> USE DEF facts
<1>1. ASSUME NEW s \in Source \union {Interrupt}, CheckResumes(w, s) PROVE HandInv'
  BY <1>1, RestKeeps, ReadyIsUnparked DEF CheckResumes, HandInv
<1>2. ASSUME NEW s \in Source \union {Interrupt}, CheckPasses(w, s) PROVE HandInv'
  <2> DEFINE row == [worker[w] EXCEPT !.todo = @ \ {s},
                       !.unresolved = IF Holds(s) THEN @
                                      ELSE @ \union ({s} \intersect Signal)]
  <2>1. row.at # "recheck"
    BY <1>2 DEF CheckPasses, HandInv, TypeInv, TypeOK, WorkerRow
  <2> QED
    BY <1>2, <2>1, BecomeKeeps DEF CheckPasses
<1>3. ASSUME NEW s \in Source \union {Interrupt}, RecheckRings(w, s) PROVE HandInv'
  BY <1>3, RestKeeps, RingIsQuiet DEF RecheckRings, HandInv
<1> QED
  BY <1>1, <1>2, <1>3, ParkKeeps, RecheckPassesKeeps, RecheckEndsKeeps,
     DeferUnknownKeeps DEF Parks

\* The caller's side: emit, read the doorbell, ring it.
LEMMA CallerKeeps ==
  ASSUME HandInv, TypeInv', NEW d \in Deferred,
         EmitDeferred(d) \/ ReadBell(d) \/ RingForDeferred(d) \/ CallBreaks(d)
  PROVE  HandInv'
<1> USE DEF facts
<1>1. UNCHANGED <<worker, parked>> /\ event \subseteq event'
  BY DEF EmitDeferred, ReadBell, RingForDeferred, CallBreaks
<1>2. \A x \in Deferred \ {d} : call'[x] = call[x]
  BY DEF EmitDeferred, ReadBell, RingForDeferred, CallBreaks, HandInv, TypeInv, TypeOK
<1>3. run' = run \/ Unparked
  BY RingIsQuiet
     DEF EmitDeferred, ReadBell, RingForDeferred, CallBreaks, HandInv
<1>4. call'[d] # "idle" => d \in event'
  BY DEF EmitDeferred, ReadBell, RingForDeferred, CallBreaks, HandInv, EmittedFirst,
         TypeInv, TypeOK
<1>5. RecheckersOK'
  BY <1>1, <1>3 DEF HandInv, RecheckersOK, Rechecks, Unparked
<1>6. EmittedFirst'
  BY <1>1, <1>2, <1>4 DEF HandInv, EmittedFirst
<1>7. ASSUME run' = run, d \in parked.unresolved, Asleep,
             call'[d] \notin {"idle", "emitted", run.bell}
      PROVE  WillRecheck(d) \/ RecheckLost
  <2>1. CASE EmitDeferred(d)
    BY <1>7, <2>1 DEF EmitDeferred, HandInv, TypeInv, TypeOK
  <2>2. CASE ReadBell(d)
    BY <1>7, <2>2 DEF ReadBell, CurrentBell, Asleep, HandInv, TypeInv, TypeOK
  <2>3. CASE RingForDeferred(d)
    <3>1. call[d] # run.bell
      BY <1>7, <2>3 DEF RingForDeferred, RingBell, CurrentBell, Asleep, Ready,
                        HandInv, TypeInv, TypeOK, RunRow
    <3>2. call[d] \notin {"idle", "emitted"}
      BY <2>3 DEF RingForDeferred
    <3> QED
      BY <1>7, <3>1, <3>2 DEF HandInv, CallersAreSeen
  <2>4. CASE CallBreaks(d)
    BY <1>7, <2>4 DEF CallBreaks, HandInv, TypeInv, TypeOK
  <2> QED
    BY <2>1, <2>2, <2>3, <2>4
<1>8. CallersAreSeen'
  <2>1. CASE Unparked
    BY <2>1 DEF Unparked, CallersAreSeen, Asleep
  <2>2. CASE run' = run
    BY <1>1, <1>2, <1>7, <2>2
       DEF HandInv, CallersAreSeen, Asleep, WillRecheck, RecheckLost
  <2> QED
    BY <1>3, <2>1, <2>2
<1> QED
  BY <1>1, <1>3, <1>5, <1>6, <1>8 DEF HandInv, Unparked

LEMMA ClientKeeps ==
  ASSUME HandInv, TypeInv', Client
  PROVE  HandInv'
<1> USE DEF facts
<1>1. ASSUME UNCHANGED <<worker, call, parked, event>>, run' = run \/ Unparked
      PROVE  HandInv'
  BY <1>1, QuietKeeps DEF SameRecheckers
<1>2. ASSUME NEW x \in Child \union {Interrupt}, Open(x) \/ Commit(x) \/ Rollback(x)
      PROVE  HandInv'
  BY <1>1, <1>2, RingIsQuiet DEF Open, Commit, Rollback, HandInv
<1>3. ASSUME NEW k \in Child, EndOutside(k) PROVE HandInv'
  BY <1>1, <1>3 DEF EndOutside
<1>4. CASE Execute
  <2>1. Unparked
    BY <1>4 DEF Execute, Unparked, HandInv, TypeInv, TypeOK, RunRow
  <2> QED
    BY <1>1, <1>4, <2>1 DEF Execute
<1>5. CASE Resume
  BY <1>1, <1>5, RingIsQuiet DEF Resume, HandInv
<1>6. CASE Cancel
  <2>1. Unparked
    BY <1>6 DEF Cancel, Unparked, HandInv, TypeInv, TypeOK, RunRow
  <2> QED
    BY <1>1, <1>6, <2>1 DEF Cancel
<1> QED
  BY <1>2, <1>3, <1>4, <1>5, <1>6, CallerKeeps DEF Client

\* A claim, or one whose answer is lost: nobody looks again for the new run.
LEMMA StartKeeps ==
  ASSUME HandInv, TypeInv', Start, UNCHANGED <<call, event>>,
         NEW w \in Worker, NEW row, row.at # "recheck", Become(w, row)
  PROVE  HandInv'
<1>1. /\ run'.bell = NoBell /\ run'.state = "running" /\ parked' = NotParked
  BY DEF Start, HandInv, TypeInv, TypeOK, RunRow
<1>2. worker'[w].at # "recheck" /\ \A x \in Worker \ {w} : worker'[x] = worker[x]
  BY DEF Become, HandInv, TypeInv, TypeOK
<1>3. RecheckersOK'
  BY <1>1, <1>2 DEF HandInv, RecheckersOK, Rechecks
<1>4. CallersAreSeen'
  BY <1>1 DEF CallersAreSeen, NotParked
<1> QED
  BY <1>1, <1>3, <1>4 DEF HandInv, EmittedFirst

LEMMA ClaimKeeps ==
  ASSUME HandInv, TypeInv', NEW w \in Worker, NEW at \in {"handler", "unknown"},
         Claim(w, at)
  PROVE  HandInv'
<1> DEFINE row == [IdleWorker EXCEPT !.at = at, !.attempt = run.attempt]
<1>1. row.at # "recheck"
  BY DEF IdleWorker
<1>2. Start /\ UNCHANGED <<call, event>> /\ Become(w, row)
  BY DEF Claim, facts
<1> HIDE DEF row
<1> QED
  BY <1>1, <1>2, StartKeeps

LEMMA PollFailsKeeps ==
  ASSUME HandInv, TypeInv', NEW w \in Worker, PollFails(w)
  PROVE  HandInv'
<1> DEFINE row == [IdleWorker EXCEPT !.at = "dead"]
<1>1. row.at = "dead" /\ worker[w].at = "idle"
  BY DEF IdleWorker, PollFails
<1>2. UNCHANGED <<call, event>> /\ Become(w, row)
  BY DEF PollFails, facts
<1>3. Start \/ UNCHANGED <<run, parked>>
  BY DEF PollFails
<1> HIDE DEF row
<1>4. CASE Start
  BY <1>1, <1>2, <1>4, StartKeeps
<1>5. CASE UNCHANGED <<run, parked>>
  <2>1. SameRecheckers
    BY <1>1, <1>2 DEF SameRecheckers, Become, HandInv, TypeInv, TypeOK
  <2> QED
    BY <1>2, <1>5, <2>1, QuietKeeps
<1> QED
  BY <1>3, <1>4, <1>5

LEMMA NextKeeps ==
  ASSUME HandInv, TypeInv', [Next]_vars
  PROVE  HandInv'
<1> USE DEF facts
<1>1. CASE UNCHANGED vars
  BY <1>1, QuietKeeps DEF vars, SameRecheckers
<1>2. ASSUME NEW w \in Worker, Crash(w) \/ Superseded(w) \/ Restart(w)
      PROVE  HandInv'
  BY <1>2, RestKeeps DEF Crash, Superseded, Restart
<1>3. ASSUME NEW c \in Clock, Tick(c) PROVE HandInv'
  BY <1>3, QuietKeeps DEF Tick, SameRecheckers
<1>4. CASE Expire
  <2>1. Unparked
    BY <1>4 DEF Expire, Unparked, HandInv, TypeInv, TypeOK, RunRow
  <2> QED
    BY <1>4, <2>1, QuietKeeps DEF Expire, SameRecheckers
<1> QED
  BY <1>1, <1>2, <1>3, <1>4, ClaimKeeps, PollFailsKeeps, ReplaysKeep, ParksKeep,
     ClientKeeps DEF Next

LEMMA Handshake == Spec => []HandInv
<1>1. Init /\ TypeInv => HandInv
  BY DEF Init, HandInv, RecheckersOK, Rechecks, EmittedFirst, CallersAreSeen,
         IdleWorker, NotParked
<1>2. HandInv /\ TypeInv' /\ [Next]_vars => HandInv'
  BY NextKeeps
<1> QED
  BY <1>1, <1>2, TypeInvariance, PTL DEF Spec

\* A deferred that was missing when the run was about to park, and whose
\* completion has returned, does not leave the run asleep: the caller has
\* found the doorbell, or the worker finds the deferred when it looks again
\* (parkSuspended and deferredDone), whoever else rings, claims or crashes.
THEOREM NoMissedCompletion == Spec => []HandshakeHolds
<1>1. HandInv => HandshakeHolds
  BY DEF HandInv, CallersAreSeen, HandshakeHolds, Asleep
<1> QED
  BY <1>1, Handshake, PTL

-----------------------------------------------------------------------------
(* The refinement.                                                         *)

\* What a step may do to the run.
Stays == run'.state \in LiveState /\ run.state \in LiveState
         /\ run'.attempt = run.attempt

Moves ==
  \/ run' = run
  \/ Stays
  \/ run.state = "absent" /\ run'.state = "pending" /\ run'.attempt = 1
  \/ /\ run.state \in LiveState /\ run'.state = "pending"
     /\ run'.attempt = run.attempt + 1
  \/ /\ run.state \in LiveState /\ run'.attempt = run.attempt
     /\ run'.state \in {"completed", "failed", "cancelled"}

LEMMA ReadyStays ==
  ASSUME TypeOK, run' = Ready, run.state \in LiveState
  PROVE  Stays
BY DEF TypeOK, Ready, Stays, RunRow, LiveState

LEMMA RingMoves ==
  ASSUME TypeOK, NEW b, RingBell(b)
  PROVE  Moves
BY ReadyStays DEF RingBell, CurrentBell, LiveState, Moves

LEMMA SleepStays ==
  ASSUME TypeOK, run.state = "running", NEW b, NEW alarm, Sleep(b, alarm)
  PROVE  Stays
BY DEF TypeOK, Sleep, Stays, RunRow, LiveState

LEMMA WorkerMoves ==
  ASSUME TypeOK, NEW w \in Worker, Replays(w) \/ Parks(w)
  PROVE  Moves
<1>1. CASE UNCHANGED run
  BY <1>1 DEF Moves
<1>2. CASE Preempt(w)
  BY <1>2, ReadyStays DEF Preempt, Owns, LiveState, Moves
<1>3. CASE Complete(w)
  BY <1>3 DEF Complete, Owns, TypeOK, RunRow, LiveState, Moves
<1>4. ASSUME NEW s, CheckResumes(w, s) PROVE Moves
  BY <1>4, ReadyStays DEF CheckResumes, Owns, LiveState, Moves
<1>5. ASSUME NEW s, RecheckRings(w, s) PROVE Moves
  BY <1>5, RingMoves DEF RecheckRings
<1>6. CASE Park(w)
  BY <1>6, SleepStays DEF Park, Owns, Moves
<1>7. CASE DeferUnknown(w)
  BY <1>7, SleepStays DEF DeferUnknown, Owns, Moves
<1>8. CASE Replays(w)
  BY <1>1, <1>2, <1>3, <1>8
     DEF Replays, AwaitDeferred, AwaitClock, ExecuteChild, StartActivity,
         FinishActivity, Suspend, Succeed, Exit
<1>9. CASE Parks(w)
  BY <1>1, <1>4, <1>5, <1>6, <1>7, <1>9
     DEF Parks, CheckPasses, RecheckPasses, RecheckEnds
<1> QED
  BY <1>8, <1>9

LEMMA ClientMoves ==
  ASSUME TypeOK, Client
  PROVE  Moves
<1>1. CASE UNCHANGED run
  BY <1>1 DEF Moves
<1>2. ASSUME NEW b, RingBell(b) PROVE Moves
  BY <1>2, RingMoves
<1>3. CASE Execute
  BY <1>3 DEF Execute, TypeOK, RunRow, Moves
<1>4. CASE Cancel
  BY <1>4 DEF Cancel, Live, TypeOK, RunRow, Moves
<1> QED
  BY <1>1, <1>2, <1>3, <1>4
     DEF Client, EmitDeferred, ReadBell, RingForDeferred, CallBreaks, Open, Commit,
         Rollback, EndOutside, Resume

LEMMA StepMoves ==
  ASSUME TypeOK, [Next]_vars
  PROVE  Moves
<1>1. CASE UNCHANGED run
  BY <1>1 DEF Moves
<1>2. ASSUME Claimable, Start PROVE Moves
  BY <1>2 DEF Claimable, Start, TypeOK, RunRow, LiveState, Moves, Stays
<1>3. CASE Expire
  <2>1. run \in RunRow
    BY DEF TypeOK
  <2>2. CASE run.attempt < MaxAttempts
    BY <1>3, <2>1, <2>2 DEF Expire, RunRow, LiveState, Moves
  <2>3. CASE ~(run.attempt < MaxAttempts)
    BY <1>3, <2>1, <2>3 DEF Expire, RunRow, LiveState, Moves
  <2> QED
    BY <2>2, <2>3
<1> QED
  BY <1>1, <1>2, <1>3, WorkerMoves, ClientMoves
     DEF Next, vars, Claim, PollFails, Restart, Crash, Superseded, Tick

LEMMA MovesAreSteps ==
  ASSUME Moves
  PROVE  Lifecycle!Next
BY DEF Moves, Stays, Live, LiveState, Lifecycle!Next, Lifecycle!TaskStep,
       Lifecycle!Becomes, Lifecycle!Spawn, Lifecycle!AttemptAgain, Lifecycle!End,
       Lifecycle!Ended, Lifecycle!Stay

\* To its clients, an execution is a task as TaskLifecycle describes it:
\* parks, rings, preemptions and interrupts neither end it twice nor
\* bring it back.
THEOREM ExecutionImplementsLifecycle == Spec => ImplementsLifecycle
<1>1. Init => Lifecycle!Init
  BY DEF Init, Lifecycle!Init, Live, LiveState
<1>2. TypeOK /\ [Next]_vars => Lifecycle!Next
  BY StepMoves, MovesAreSteps
<1> QED
  BY <1>1, <1>2, TypeCorrect, PTL DEF Spec, ImplementsLifecycle, Lifecycle!Spec
=============================================================================

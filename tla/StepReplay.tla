----------------------------- MODULE StepReplay -----------------------------
(***************************************************************************)
(* The replay of a task's handler by the TypeScript SDK                    *)
(* (sdks/typescript/src/index.ts, TaskContext and executeTask).  A handler *)
(* is a sequence of steps, waits and sleeps.  Each time the task's run is  *)
(* claimed the handler starts again, and what an earlier replay has        *)
(* recorded under the name of a checkpoint is not done again.              *)
(*                                                                         *)
(*     run         the last run of the task: its state and attempt, the    *)
(*                 event it waits for or has waited for (wake), the        *)
(*                 position of the wait or sleep it is parked at (parkedAt)*)
(*     checkpoint  what is recorded under each checkpoint's name           *)
(*     emitted     the events that have been emitted                       *)
(*     due         the sleeps whose deadline has passed                    *)
(*     worker      the handlers that are being executed, in any process    *)
(*     seen        what the operation at each position returned to the     *)
(*                 handler the last time, in any replay (history)          *)
(*                                                                         *)
(* A call to the database takes effect at one step and is answered, or     *)
(* found to have failed, at another, any time later.                       *)
(***************************************************************************)
EXTENDS Naturals, Sequences, FiniteSets

CONSTANTS
  Script,     \* the handler: its operations, [kind, name, timed]
  Event, NoEvent, Worker, MaxAttempts,
  Failures    \* whether calls, handlers and processes fail, and tasks are cancelled

Position == 1 .. Len(Script)
Name == {Script[i].name : i \in Position}

ASSUME ReplayAssumption ==
  /\ Script \in Seq([kind : {"step", "await", "sleep"}, name : Name, timed : BOOLEAN])
  /\ \A i \in Position : Script[i].kind = "await" <=> Script[i].name \in Event
  /\ NoEvent \notin Event
  /\ MaxAttempts \in Nat \ {0}
  /\ Failures \in BOOLEAN

VARIABLES run, checkpoint, emitted, due, worker, seen

vars == <<run, checkpoint, emitted, due, worker, seen>>

Attempt == 1 .. MaxAttempts

\* What an operation returns.  Only the first three are recorded.
StepValue(i, a) == [is |-> "step", at |-> i, by |-> a]
Deadline == [is |-> "deadline"]
Payload == [is |-> "payload"]
Timeout == [is |-> "timeout"]     \* throws TimeoutError
Null == [is |-> "null"]           \* null, though nothing was emitted
Suspension == [is |-> "suspend"]  \* throws SuspendTask
Nothing == [is |-> "nothing"]

Value ==
  {Deadline, Payload, Timeout, Null, Suspension, Nothing}
  \union {StepValue(i, a) : i \in Position, a \in Attempt}

\* Mutant: all uses of a name share one checkpoint.
CheckpointNameShared(i) == <<Script[i].name, 1>>

\* getCheckpointName: the occurrences of a name are counted.
CheckpointName(i) ==
  <<Script[i].name, Cardinality({j \in 1 .. i : Script[j].name = Script[i].name})>>

CheckpointNames == Name \X Position

LiveState == {"pending", "running", "sleeping"}

RunRow ==
  [state : LiveState \union {"absent", "completed", "failed", "cancelled"},
   attempt : 0 .. MaxAttempts,
   wake : Event \union {NoEvent},
   parkedAt : Position \union {0}]

WorkerRow ==
  [at : {"idle", "handler", "body", "reply", "fail"},
   attempt : 0 .. MaxAttempts,
   pc : 1 .. Len(Script) + 1,
   wake : Event \union {NoEvent},              \* task.wake_event
   cache : [CheckpointNames -> Value],         \* checkpointCache
   reply : Value]                              \* on its way

NoCheckpoints == [n \in CheckpointNames |-> Nothing]

IdleWorker ==
  [at |-> "idle", attempt |-> 0, pc |-> 1, wake |-> NoEvent,
   cache |-> NoCheckpoints, reply |-> Nothing]

Init ==
  /\ run = [state |-> "absent", attempt |-> 0, wake |-> NoEvent, parkedAt |-> 0]
  /\ checkpoint = NoCheckpoints
  /\ emitted = {} /\ due = {}
  /\ worker = [w \in Worker |-> IdleWorker]
  /\ seen = [i \in Position |-> Nothing]

-----------------------------------------------------------------------------
(* The queue, as far as the SDK uses it.                                   *)

Live == run.state \in LiveState

\* A timeout may run out at any time, a deadline when it is due.
TimeIsUp ==
  \/ Script[run.parkedAt].kind = "await" /\ Script[run.parkedAt].timed
  \/ run.parkedAt \in due

Claimable ==
  \/ run.state = "pending"
  \/ run.state = "sleeping" /\ TimeIsUp

Owns(w) == run.state = "running" /\ run.attempt = worker[w].attempt

\* The run has failed, or the task is cancelled (AB001, AB002).
Refused(w) ==
  \/ run.state \in {"failed", "cancelled"}
  \/ run.attempt # worker[w].attempt

\* Mutant: the last attempt is retried, too.
FailedRunLate ==
  IF run.attempt <= MaxAttempts
  THEN [state |-> "pending", attempt |-> run.attempt + 1,
        wake |-> NoEvent, parkedAt |-> 0]
  ELSE [run EXCEPT !.state = "failed", !.wake = NoEvent, !.parkedAt = 0]

\* fail_run: a new run, which waits for nothing, or the end.
FailedRun ==
  IF run.attempt < MaxAttempts
  THEN [state |-> "pending", attempt |-> run.attempt + 1,
        wake |-> NoEvent, parkedAt |-> 0]
  ELSE [run EXCEPT !.state = "failed", !.wake = NoEvent, !.parkedAt = 0]

Park(i, event) ==
  run' = [run EXCEPT !.state = "sleeping", !.wake = event, !.parkedAt = i]

-----------------------------------------------------------------------------
(* The replay.                                                             *)

Become(w, row) == worker' = [worker EXCEPT ![w] = row]
Rest(w) == Become(w, IdleWorker)

\* claim_task, and TaskContext.create, which loads the checkpoints.
Claim(w) ==
  /\ worker[w].at = "idle" /\ Claimable
  /\ run' = [run EXCEPT !.state = "running", !.parkedAt = 0]
  /\ Become(w, [IdleWorker EXCEPT !.at = "handler", !.attempt = run.attempt,
                                  !.wake = run.wake, !.cache = checkpoint])
  /\ UNCHANGED <<checkpoint, emitted, due, seen>>

At(w, kind) ==
  /\ worker[w].at = "handler" /\ worker[w].pc \in Position
  /\ Script[worker[w].pc].kind = kind

Op(w) == Script[worker[w].pc]
Key(w) == CheckpointName(worker[w].pc)

\* lookupCheckpoint: the cache, or else the database.
Lookup(w) ==
  IF worker[w].cache[Key(w)] # Nothing THEN worker[w].cache[Key(w)]
  ELSE checkpoint[Key(w)]

\* The operation returns v, and the handler goes on.
Deliver(w, v) ==
  /\ seen' = [seen EXCEPT ![worker[w].pc] = v]
  /\ Become(w, [worker[w] EXCEPT !.at = "handler", !.pc = @ + 1, !.reply = Nothing,
                                 !.cache[Key(w)] = v])

\* A step or a wait whose result is recorded.
Replay(w) ==
  /\ At(w, "step") \/ At(w, "await")
  /\ Lookup(w) # Nothing
  /\ Deliver(w, Lookup(w))
  /\ UNCHANGED <<run, checkpoint, emitted, due>>

Replies(w, v) == Become(w, [worker[w] EXCEPT !.at = "reply", !.reply = v])
Errs(w) == Become(w, [worker[w] EXCEPT !.at = "fail"])

\* beginStep, and the function that it calls.
BeginStep(w) ==
  /\ At(w, "step") /\ Lookup(w) = Nothing
  /\ Become(w, [worker[w] EXCEPT !.at = "body"])
  /\ UNCHANGED <<run, checkpoint, emitted, due, seen>>

\* Mutant: the run that writes a checkpoint is not looked at.
CompleteStepUnfenced(w) ==
  LET v == StepValue(worker[w].pc, worker[w].attempt)
  IN /\ worker[w].at = "body"
     /\ checkpoint' = [checkpoint EXCEPT ![Key(w)] = v]
     /\ Replies(w, v)
     /\ UNCHANGED <<run, emitted, due, seen>>

\* completeStep.  A refusal ends the execution without a trace.
CompleteStep(w) ==
  LET v == StepValue(worker[w].pc, worker[w].attempt)
  IN /\ worker[w].at = "body"
     /\ IF Refused(w)
        THEN Rest(w) /\ UNCHANGED checkpoint
        ELSE checkpoint' = [checkpoint EXCEPT ![Key(w)] = v] /\ Replies(w, v)
     /\ UNCHANGED <<run, emitted, due, seen>>

\* Mutant: every replay sleeps anew.
SleepUntilAgain(w) ==
  /\ At(w, "sleep") /\ Owns(w)
  /\ Park(worker[w].pc, NoEvent)
  /\ Replies(w, Suspension)
  /\ UNCHANGED <<checkpoint, emitted, due, seen>>

\* sleepUntil: the deadline is recorded first; then the run is scheduled,
\* unless the deadline has passed.
SleepUntil(w) ==
  /\ At(w, "sleep")
  /\ \/ /\ Lookup(w) = Nothing
        /\ IF Refused(w)
           THEN Rest(w) /\ UNCHANGED checkpoint
           ELSE /\ checkpoint' = [checkpoint EXCEPT ![Key(w)] = Deadline]
                /\ Replies(w, Deadline)
        /\ UNCHANGED <<run, seen>>
     \/ /\ Lookup(w) # Nothing /\ worker[w].pc \in due
        /\ Deliver(w, Lookup(w))
        /\ UNCHANGED <<run, checkpoint>>
     \/ /\ Lookup(w) # Nothing /\ worker[w].pc \notin due
        /\ IF Owns(w)
           THEN Park(worker[w].pc, NoEvent) /\ Replies(w, Suspension)
           ELSE Errs(w) /\ UNCHANGED run
        /\ UNCHANGED <<checkpoint, seen>>
  /\ UNCHANGED <<emitted, due>>

\* awaitEvent after a timeout: the claim says that the run was woken for
\* this event, and nothing is recorded.  The handler catches the error.
TimesOut(w) ==
  /\ At(w, "await") /\ Lookup(w) = Nothing /\ worker[w].wake = Op(w).name
  /\ seen' = [seen EXCEPT ![worker[w].pc] = Timeout]
  /\ Become(w, [worker[w] EXCEPT !.pc = @ + 1, !.wake = NoEvent])
  /\ UNCHANGED <<run, checkpoint, emitted, due>>

\* awaitEvent, and await_event: the payload, or null for a run that was
\* woken for this event by a timeout, or a wait.
AwaitEvent(w) ==
  /\ At(w, "await") /\ Lookup(w) = Nothing /\ worker[w].wake # Op(w).name
  /\ \/ /\ run.state = "cancelled"
        /\ Rest(w)
        /\ UNCHANGED <<run, checkpoint>>
     \/ /\ run.state # "cancelled" /\ ~Owns(w)
        /\ Errs(w)
        /\ UNCHANGED <<run, checkpoint>>
     \/ /\ Owns(w) /\ Op(w).name \in emitted
        /\ checkpoint' = [checkpoint EXCEPT ![Key(w)] = Payload]
        /\ Replies(w, Payload)
        /\ UNCHANGED run
     \/ /\ Owns(w) /\ Op(w).name \notin emitted
        /\ IF run.wake = Op(w).name
           THEN run' = [run EXCEPT !.wake = NoEvent] /\ Replies(w, Null)
           ELSE Park(worker[w].pc, Op(w).name) /\ Replies(w, Suspension)
        /\ UNCHANGED checkpoint
  /\ UNCHANGED <<emitted, due, seen>>

\* An answer arrives.  SuspendTask ends the execution; the answer to a
\* deadline is followed by the schedule.
ReplyArrives(w) ==
  /\ worker[w].at = "reply"
  /\ CASE worker[w].reply = Suspension -> Rest(w) /\ UNCHANGED seen
       [] worker[w].reply = Deadline ->
            /\ Become(w, [worker[w] EXCEPT !.at = "handler", !.reply = Nothing,
                                           !.cache[Key(w)] = Deadline])
            /\ UNCHANGED seen
       [] OTHER -> Deliver(w, worker[w].reply)
  /\ UNCHANGED <<run, checkpoint, emitted, due>>

\* An answer is lost, or the handler throws: executeTask fails the run.
Throws(w) ==
  /\ Failures /\ worker[w].at \in {"handler", "body", "reply"}
  /\ Errs(w)
  /\ UNCHANGED <<run, checkpoint, emitted, due, seen>>

\* completeTaskRun.  A refusal is ignored, any other error fails the run.
Complete(w) ==
  /\ worker[w].at = "handler" /\ worker[w].pc > Len(Script)
  /\ \/ Owns(w) /\ run' = [run EXCEPT !.state = "completed"] /\ Rest(w)
     \/ ~Owns(w) /\ (IF Refused(w) THEN Rest(w) ELSE Errs(w)) /\ UNCHANGED run
  /\ UNCHANGED <<checkpoint, emitted, due, seen>>

\* The run is completed, but the worker does not learn it.
CompleteUnheard(w) ==
  /\ Failures /\ worker[w].at = "handler" /\ worker[w].pc > Len(Script) /\ Owns(w)
  /\ run' = [run EXCEPT !.state = "completed"]
  /\ Errs(w)
  /\ UNCHANGED <<checkpoint, emitted, due, seen>>

\* Mutant: fail_run fails a run in any state.
FailAnyRun(w) ==
  /\ worker[w].at = "fail"
  /\ run' = IF run.attempt = worker[w].attempt THEN FailedRun ELSE run
  /\ Rest(w)
  /\ UNCHANGED <<checkpoint, emitted, due, seen>>

\* failTaskRun: of the run that was claimed, whoever has it by now.
Fail(w) ==
  /\ worker[w].at = "fail"
  /\ run' = IF ~Refused(w) /\ run.state \in {"running", "sleeping"}
            THEN FailedRun ELSE run
  /\ Rest(w)
  /\ UNCHANGED <<checkpoint, emitted, due, seen>>

\* The process dies, or the last call does not reach the database.
Crash(w) ==
  /\ Failures /\ worker[w].at # "idle"
  /\ Rest(w)
  /\ UNCHANGED <<run, checkpoint, emitted, due, seen>>

-----------------------------------------------------------------------------
(* The others.                                                             *)

Spawn ==
  /\ run.state = "absent"
  /\ run' = [run EXCEPT !.state = "pending", !.attempt = 1]
  /\ UNCHANGED <<checkpoint, emitted, due, worker, seen>>

Expire ==
  /\ Failures /\ run.state = "running"
  /\ run' = FailedRun
  /\ UNCHANGED <<checkpoint, emitted, due, worker, seen>>

\* emit_event: a run that waits is woken with the payload recorded for it,
\* unless its timeout has run out.
Emit(e) ==
  /\ e \notin emitted
  /\ emitted' = emitted \union {e}
  /\ \/ /\ run.state = "sleeping" /\ run.wake = e
        /\ run' = [run EXCEPT !.state = "pending", !.wake = NoEvent, !.parkedAt = 0]
        /\ checkpoint' = [checkpoint EXCEPT ![CheckpointName(run.parkedAt)] = Payload]
     \/ /\ run.state = "sleeping" /\ run.wake = e => Script[run.parkedAt].timed
        /\ UNCHANGED <<run, checkpoint>>
  /\ UNCHANGED <<due, worker, seen>>

Cancel ==
  /\ Failures /\ Live
  /\ run' = [run EXCEPT !.state = "cancelled", !.wake = NoEvent, !.parkedAt = 0]
  /\ UNCHANGED <<checkpoint, emitted, due, worker, seen>>

\* A recorded deadline passes.
Tick(i) ==
  /\ i \notin due /\ Script[i].kind = "sleep"
  /\ checkpoint[CheckpointName(i)] # Nothing
  /\ due' = due \union {i}
  /\ UNCHANGED <<run, checkpoint, emitted, worker, seen>>

-----------------------------------------------------------------------------

Handler(w) ==
  \/ Replay(w) \/ BeginStep(w) \/ CompleteStep(w) \/ SleepUntil(w)
  \/ TimesOut(w) \/ AwaitEvent(w) \/ ReplyArrives(w)
  \/ Complete(w) \/ CompleteUnheard(w) \/ Fail(w)

Next ==
  \/ \E w \in Worker : Claim(w) \/ Handler(w) \/ Throws(w) \/ Crash(w)
  \/ \E e \in Event : Emit(e)
  \/ \E i \in Position : Tick(i)
  \/ Spawn \/ Expire \/ Cancel

Spec == Init /\ [][Next]_vars

\* Workers poll and go on, handlers return, expired runs are swept and time
\* passes.  Nobody has to emit anything.
Fairness ==
  /\ \A w \in Worker : WF_vars(Claim(w)) /\ WF_vars(Handler(w))
  /\ \A i \in Position : WF_vars(Tick(i))
  /\ WF_vars(Expire)

FairSpec == Spec /\ Fairness

-----------------------------------------------------------------------------
(* Properties.                                                             *)

\* The row, the checkpoints and the executions have their types.
TypeOK ==
  /\ run \in RunRow
  /\ checkpoint \in [CheckpointNames -> Value]
  /\ emitted \subseteq Event
  /\ due \subseteq Position
  /\ worker \in [Worker -> WorkerRow]
  /\ seen \in [Position -> Value]

\* Every use of a name has a checkpoint of its own: a step returns what was
\* computed for it, by this replay or another, and never the value of an
\* earlier step of the same name.
OwnValues ==
  \A i \in Position : seen[i].is = "step" => seen[i].at = i

\* Once a step has returned a value to a handler, it returns the same to
\* every handler, in whatever attempt and process, the stale ones included.
\* So does a wait that has returned a payload, but for a handler of an
\* earlier attempt that was answered null before the event was emitted.  The
\* module takes a refusal and the write that it prevents for one step; what a
\* run can do that fails between the two, inside set_task_checkpoint_state, is
\* said by CheckpointsAreKept of TaskTransactions.
ValuesAreSticky ==
  [][\A i \in Position :
       \/ seen'[i] = seen[i]
       \/ seen[i].is \notin {"step", "payload"}
       \/ /\ seen[i] = Payload /\ seen'[i] = Null
          /\ \E w \in Worker :
               worker'[w] # worker[w] /\ worker[w].attempt < run.attempt]_seen

\* To its clients the task is one that TaskLifecycle describes: in
\* particular a worker that does not hear that it has completed the task
\* does not fail it.
Lifecycle == INSTANCE TaskLifecycle WITH
  TaskId <- {"task"},
  status <- [t \in {"task"} |-> IF Live THEN "live" ELSE run.state],
  attempts <- [t \in {"task"} |-> run.attempt]

ImplementsLifecycle == Lifecycle!Spec

\* A handler that waits with timeouts and sleeps ends, however often it is
\* replayed.
Finishes == Live ~> ~Live

\* "If the event doesn't arrive before the timeout expires, a TimeoutError
\* is thrown" (docs/concepts.md): a run that is parked with a timeout is
\* not parked there for ever.
TimeoutsAreThrown ==
  \A i \in Position :
    run.state = "sleeping" /\ run.parkedAt = i /\ Script[i].timed
      ~> seen[i] # Nothing \/ ~Live
=============================================================================

-------------------------- MODULE WorkflowDoorbell --------------------------
(***************************************************************************)
(* The Effect workflow engine                                              *)
(* (sdks/effect/src/unstable/workflow/AbsurdWorkflowEngine.ts) executing   *)
(* one workflow.  A worker claims the run of the workflow's task, replays  *)
(* the handler, and parks the run on a fresh event, its doorbell, when the *)
(* handler waits for something that is not there.  Whoever provides it     *)
(* records it first and then rings the doorbell on which the run is        *)
(* parked at that time, if it is.                                          *)
(*                                                                         *)
(*     run         the last run of the task; bell is its wake_event, and   *)
(*                 alarm says what may wake it without a bell              *)
(*     checkpoint  the checkpoints of the task: results of deferreds,      *)
(*                 clocks and activities, and the interrupt marker         *)
(*     event       the deferreds and clocks whose event is emitted         *)
(*     armed, due  the clocks whose deadline is stored, and has passed     *)
(*     spawned, ended   the child workflows that exist, and have ended     *)
(*     worker      the fibers that serve the queue, in any process         *)
(*     call        the call of deferredDone for each deferred              *)
(*     tx          the transactions that end a child, or record the        *)
(*                 interrupt, and ring this workflow's doorbell            *)
(*     parked      what the run was parked for (history)                   *)
(*                                                                         *)
(* An action is one call of the engine to the database with what the       *)
(* engine does until the next call; calls that only write what the caller  *)
(* has just read are joined with the reading.                              *)
(***************************************************************************)
EXTENDS Naturals, Sequences, FiniteSets

CONSTANTS
  Deferred, Clock, Child, Activity,  \* what a handler can wait for
  Script,       \* the handler: a sequence of sets that it waits for at once
  Interrupt,    \* the interrupt marker, and who sets it
  Poll,         \* the alarm of a wait that ends after a fixed time
  Worker, MaxAttempts, Bell, NoBell

Source == Deferred \union Clock \union Child \union Activity
Signal == Deferred \union Clock     \* clocks are deferreds of their own

ASSUME WorkflowAssumption ==
  /\ MaxAttempts \in Nat \ {0}
  /\ Script \in Seq(SUBSET Source)
  /\ Interrupt \notin Source
  /\ Poll \notin Source
  /\ NoBell \notin Bell
  /\ Bell \intersect {"idle", "emitted", "returned", "open"} = {}
  /\ Deferred \intersect (Clock \union Child \union Activity) = {}
  /\ Clock \intersect (Child \union Activity) = {}
  /\ Child \intersect Activity = {}

VARIABLES
  run, checkpoint, event, armed, due, spawned, ended, worker, call, tx, parked

facts == <<checkpoint, event, armed, due, spawned, ended>>
vars == <<run, checkpoint, event, armed, due, spawned, ended,
          worker, call, tx, parked>>

LiveState == {"pending", "running", "sleeping"}

RunRow ==
  [state : LiveState \union {"absent", "completed", "failed", "cancelled"},
   attempt : 0 .. MaxAttempts,
   bell : Bell \union {NoBell},
   alarm : SUBSET (Clock \union {Poll})]

\* A fiber between two calls: at says which call is next.  A dead one makes
\* no more calls.
WorkerRow ==
  [at : {"idle", "dead", "unknown", "handler", "exit", "complete", "park", "recheck"},
   attempt : 0 .. MaxAttempts,        \* the run of its claim
   got : SUBSET Source,               \* what this replay has read
   missing : SUBSET Source,           \* what it has read as not there
   awaited : SUBSET Signal,           \* instance.awaitedDeferreds
   kids : SUBSET Child,               \* claim.awaitedChildren
   busy : SUBSET Activity,            \* activities being executed
   suspended : BOOLEAN,               \* the handler suspended
   todo : SUBSET (Source \union {Interrupt}),  \* what it has yet to look at
   unresolved : SUBSET Signal,        \* unresolvedDeferreds
   bell : Bell \union {NoBell}]       \* the doorbell it has parked on

IdleWorker ==
  [at |-> "idle", attempt |-> 0, got |-> {}, missing |-> {}, awaited |-> {},
   kids |-> {}, busy |-> {}, suspended |-> FALSE, todo |-> {},
   unresolved |-> {}, bell |-> NoBell]

NotParked == [missing |-> {}, unresolved |-> {}, kids |-> {}, checked |-> TRUE]

Init ==
  /\ run = [state |-> "absent", attempt |-> 0, bell |-> NoBell, alarm |-> {}]
  /\ checkpoint = {} /\ event = {} /\ armed = {} /\ due = {}
  /\ spawned = {} /\ ended = {}
  /\ worker = [w \in Worker |-> IdleWorker]
  /\ call = [d \in Deferred |-> "idle"]
  /\ tx = [x \in Child \union {Interrupt} |-> "idle"]
  /\ parked = NotParked

-----------------------------------------------------------------------------
(* The queue, as far as the engine uses it.                                *)

Live == run.state \in LiveState

\* claim_task takes runs that are ready, or whose time has come.
Claimable ==
  \/ run.state = "pending"
  \/ run.state = "sleeping" /\ run.alarm \intersect (due \union {Poll}) # {}

\* Writes and transitions are refused unless the claim's run is running.
Owns(w) == run.state = "running" /\ worker[w].attempt = run.attempt

\* schedule_run(0) or a rung bell: the run can be claimed at once.
Ready == [run EXCEPT !.state = "pending", !.bell = NoBell, !.alarm = {}]

\* currentWakeEvent
CurrentBell == IF run.state = "sleeping" THEN run.bell ELSE NoBell

\* emit_event of a doorbell: wakes the run that waits on it, if any does.
RingBell(b) ==
  run' = IF b \in Bell /\ CurrentBell = b THEN Ready ELSE run

Held ==
  {run.bell} \union {worker[w].bell : w \in Worker}
  \union {call[d] : d \in Deferred}
  \union {tx[x] : x \in Child \union {Interrupt}}

\* Doorbells are named at random, so a new one is one nobody has read.
FreshBells == Bell \ Held
FreshBell == CHOOSE b \in FreshBells : TRUE

Become(w, row) == worker' = [worker EXCEPT ![w] = row]
Rest(w) == Become(w, IdleWorker)

\* deferredAvailable, childIsTerminal and the interrupt marker
Holds(s) ==
  IF s \in Child THEN s \in ended ELSE s \in checkpoint \union event

-----------------------------------------------------------------------------
(* A claim and the replay of the handler (processClaim).                   *)

Start ==
  /\ run' = [run EXCEPT !.state = "running", !.bell = NoBell, !.alarm = {}]
  /\ parked' = NotParked

Claim(w, at) ==
  /\ worker[w].at = "idle" /\ Claimable /\ Start
  /\ Become(w, [IdleWorker EXCEPT !.at = at, !.attempt = run.attempt])
  /\ UNCHANGED <<facts, call, tx>>

\* await_event on a fresh doorbell: the run sleeps until it is rung or
\* one of its alarms goes off.
Sleep(b, alarm) ==
  run' = [run EXCEPT !.state = "sleeping", !.bell = b, !.alarm = alarm]

\* deferUnknownRun: this worker has no handler for the workflow.
DeferUnknown(w) ==
  /\ worker[w].at = "unknown" /\ Owns(w) /\ FreshBells # {}
  /\ Sleep(FreshBell, {Poll})
  /\ Rest(w)
  /\ UNCHANGED <<facts, call, tx, parked>>

\* The sources the handler can ask for next.
Asks(w, s) ==
  /\ worker[w].at = "handler"
  /\ s \notin worker[w].got \union worker[w].missing \union worker[w].busy
  /\ \E i \in 1 .. Len(Script) :
       s \in Script[i] /\ \A j \in 1 .. i - 1 : Script[j] \subseteq worker[w].got

Got(w, s) ==
  Become(w, [worker[w] EXCEPT !.got = @ \union {s},
                              !.awaited = @ \union ({s} \intersect Signal),
                              !.kids = @ \union ({s} \intersect Child)])

Missed(w, s) ==
  Become(w, [worker[w] EXCEPT !.missing = @ \union {s},
                              !.awaited = @ \union ({s} \intersect Signal),
                              !.kids = @ \union ({s} \intersect Child)])

\* deferredResult: the checkpoint, or else the event, which is then stored.
AwaitDeferred(w, d) ==
  /\ Asks(w, d)
  /\ \/ d \in checkpoint /\ Got(w, d) /\ UNCHANGED checkpoint
     \/ /\ d \notin checkpoint /\ d \in event /\ Owns(w)
        /\ checkpoint' = checkpoint \union {d}
        /\ Got(w, d)
     \/ d \notin checkpoint \union event /\ Missed(w, d) /\ UNCHANGED checkpoint
  /\ UNCHANGED <<run, event, armed, due, spawned, ended, call, tx, parked>>

\* scheduleClock and the await that follows it.  The deadline is stored
\* once; a replay after it stores and announces the completion.
AwaitClock(w, c) ==
  /\ Asks(w, c)
  /\ \/ /\ c \in due /\ Owns(w)
        /\ checkpoint' = checkpoint \union {c}
        /\ event' = event \union {c}
        /\ Got(w, c)
        /\ UNCHANGED armed
     \/ /\ c \notin due /\ (c \in armed \/ Owns(w))
        /\ armed' = armed \union {c}
        /\ Missed(w, c)
        /\ UNCHANGED <<checkpoint, event>>
  /\ UNCHANGED <<run, due, spawned, ended, call, tx, parked>>

\* execute with a parent: spawn_task with the child's key, then its result.
ExecuteChild(w, k) ==
  /\ Asks(w, k)
  /\ spawned' = spawned \union {k}
  /\ IF k \in ended THEN Got(w, k) ELSE Missed(w, k)
  /\ UNCHANGED <<run, checkpoint, event, armed, due, ended, call, tx, parked>>

\* activityExecute: a stored result, an interrupt, or the execution.
StartActivity(w, a) ==
  /\ Asks(w, a)
  /\ \/ a \in checkpoint /\ Got(w, a)
     \/ /\ a \notin checkpoint /\ Interrupt \in checkpoint
        /\ Become(w, [worker[w] EXCEPT !.at = "exit", !.busy = {}])
     \/ /\ a \notin checkpoint /\ Interrupt \notin checkpoint
        /\ Become(w, [worker[w] EXCEPT !.busy = @ \union {a}])
  /\ UNCHANGED <<run, facts, call, tx, parked>>

FinishActivity(w, a) ==
  /\ worker[w].at = "handler" /\ a \in worker[w].busy /\ Owns(w)
  /\ checkpoint' = checkpoint \union {a}
  /\ Become(w, [worker[w] EXCEPT !.busy = @ \ {a}, !.got = @ \union {a}])
  /\ UNCHANGED <<run, event, armed, due, spawned, ended, call, tx, parked>>

\* Suspension waits for the activities that are being executed.
Suspend(w) ==
  /\ worker[w].at = "handler"
  /\ worker[w].missing # {} /\ worker[w].busy = {}
  /\ Become(w, [worker[w] EXCEPT !.at = "exit", !.suspended = TRUE])
  /\ UNCHANGED <<run, facts, call, tx, parked>>

Succeed(w) ==
  /\ worker[w].at = "handler"
  /\ \A i \in 1 .. Len(Script) : Script[i] \subseteq worker[w].got
  /\ Become(w, [worker[w] EXCEPT !.at = "exit"])
  /\ UNCHANGED <<run, facts, call, tx, parked>>

\* waitForActiveWake wins the race against the handler: something that this
\* replay has found missing is there.
Preempt(w) ==
  /\ worker[w].at \in {"handler", "exit"} /\ Owns(w)
  /\ \E s \in worker[w].missing \intersect Signal :
       s \in checkpoint \union event \union due
  /\ run' = Ready
  /\ Rest(w)
  /\ UNCHANGED <<facts, call, tx, parked>>

\* What parkSuspended looks at before it parks: the marker, the children
\* and every deferred that was awaited, those with a result included.
ToCheck(w) == {Interrupt} \union worker[w].kids \union worker[w].awaited

\* onExit: an interrupt turns any outcome into an interrupted completion.
Exit(w) ==
  /\ worker[w].at = "exit"
  /\ IF Interrupt \in checkpoint \/ ~worker[w].suspended
     THEN Become(w, [worker[w] EXCEPT !.at = "complete"])
     ELSE Become(w, [worker[w] EXCEPT !.at = "park", !.todo = ToCheck(w)])
  /\ UNCHANGED <<run, facts, call, tx, parked>>

\* Mutant: the completion is not fenced by the claim.
CompleteUnfenced(w) ==
  /\ worker[w].at = "complete"
  /\ run' = [run EXCEPT !.state = "completed"]
  /\ Rest(w)
  /\ UNCHANGED <<facts, call, tx, parked>>

Complete(w) ==
  /\ worker[w].at = "complete" /\ Owns(w)
  /\ run' = [run EXCEPT !.state = "completed"]
  /\ Rest(w)
  /\ UNCHANGED <<facts, call, tx, parked>>

-----------------------------------------------------------------------------
(* parkSuspended: look, park, look again.                                  *)

\* Sources are looked at one by one: the marker, then the children, ...
NextToCheck(todo) ==
  IF Interrupt \in todo THEN {Interrupt}
  ELSE IF todo \intersect Child # {} THEN todo \intersect Child ELSE todo

\* ... and the second time the deferreds before the children.
NextToRecheck(todo) ==
  IF Interrupt \in todo THEN {Interrupt}
  ELSE IF todo \intersect Signal # {} THEN todo \intersect Signal ELSE todo

\* An interrupt or an ended child: run again at once.
CheckResumes(w, s) ==
  /\ worker[w].at = "park" /\ s \in NextToCheck(worker[w].todo)
  /\ s \notin Signal /\ Holds(s) /\ Owns(w)
  /\ run' = Ready
  /\ Rest(w)
  /\ UNCHANGED <<facts, call, tx, parked>>

\* Anything else is passed over, a deferred that is there included.
CheckPasses(w, s) ==
  /\ worker[w].at = "park" /\ s \in NextToCheck(worker[w].todo)
  /\ s \in Signal \/ ~Holds(s)
  /\ Become(w, [worker[w] EXCEPT !.todo = @ \ {s},
                                 !.unresolved = IF Holds(s) THEN @ ELSE @ \union ({s} \intersect Signal)])
  /\ UNCHANGED <<run, facts, call, tx, parked>>

\* Mutant: a timeout for children only.
AlarmOfChildren(w) == IF worker[w].kids # {} THEN {Poll} ELSE {}

\* The timeout of the wait: the earliest deadline, and the poll of children.
AlarmOf(w) ==
  (worker[w].unresolved \intersect armed)
  \union (IF worker[w].kids # {} THEN {Poll} ELSE {})

\* Mutants: the second look leaves out the deferreds, or the marker.
ToRecheckNoSignal(w) == {Interrupt} \union worker[w].kids
ToRecheckNoMarker(w) == worker[w].kids \union worker[w].unresolved

ToRecheck(w) == {Interrupt} \union worker[w].kids \union worker[w].unresolved

\* A fresh doorbell has no event yet, so await_event always parks the run.
Park(w) ==
  /\ worker[w].at = "park" /\ worker[w].todo = {}
  /\ Owns(w) /\ FreshBells # {}
  /\ Sleep(FreshBell, AlarmOf(w))
  /\ Become(w, [IdleWorker EXCEPT !.at = "recheck",
                                  !.attempt = worker[w].attempt,
                                  !.bell = FreshBell,
                                  !.todo = ToRecheck(w)])
  /\ parked' = [missing |-> worker[w].missing \intersect Signal,
                unresolved |-> worker[w].unresolved,
                kids |-> worker[w].kids, checked |-> FALSE]
  /\ UNCHANGED <<facts, call, tx>>

RecheckRings(w, s) ==
  /\ worker[w].at = "recheck" /\ s \in NextToRecheck(worker[w].todo)
  /\ Holds(s)
  /\ RingBell(worker[w].bell)
  /\ Rest(w)
  /\ UNCHANGED <<facts, call, tx, parked>>

RecheckPasses(w, s) ==
  /\ worker[w].at = "recheck" /\ s \in NextToRecheck(worker[w].todo)
  /\ ~Holds(s)
  /\ Become(w, [worker[w] EXCEPT !.todo = @ \ {s}])
  /\ UNCHANGED <<run, facts, call, tx, parked>>

RecheckEnds(w) ==
  /\ worker[w].at = "recheck" /\ worker[w].todo = {}
  /\ Rest(w)
  /\ parked' = IF run.bell = worker[w].bell
               THEN [parked EXCEPT !.checked = TRUE] ELSE parked
  /\ UNCHANGED <<run, facts, call, tx>>

-----------------------------------------------------------------------------
(* Workers that are lost.                                                  *)

\* The process dies and is started again, or a call fails that processClaim
\* makes: the loop goes on with the next claim.
Crash(w) ==
  /\ worker[w].at \notin {"idle", "dead"}
  /\ Rest(w)
  /\ UNCHANGED <<run, facts, call, tx, parked>>

\* claimTask fails, before or after it has claimed the run.  Nothing catches
\* that, and it ends the fiber of the loop ...
PollFails(w) ==
  /\ worker[w].at = "idle"
  /\ \/ UNCHANGED <<run, parked>>
     \/ Claimable /\ Start
  /\ Become(w, [IdleWorker EXCEPT !.at = "dead"])
  /\ UNCHANGED <<facts, call, tx>>

\* ... until the process is started again, if it ever is.
Restart(w) ==
  /\ worker[w].at = "dead"
  /\ Rest(w)
  /\ UNCHANGED <<run, facts, call, tx, parked>>

AllLoopsDead == \A w \in Worker : worker[w].at = "dead"

\* A write or the heartbeat finds that the claim is gone.
Superseded(w) ==
  /\ worker[w].at \notin {"idle", "dead", "recheck"} /\ ~Owns(w)
  /\ Rest(w)
  /\ UNCHANGED <<run, facts, call, tx, parked>>

\* Mutant: the limit on attempts is tested after the increment is made.
ExpireLate ==
  /\ run.state = "running"
  /\ run' = IF run.attempt <= MaxAttempts
            THEN [run EXCEPT !.state = "pending", !.attempt = @ + 1]
            ELSE [run EXCEPT !.state = "failed"]
  /\ UNCHANGED <<facts, worker, call, tx, parked>>

\* A worker died, or stalled for longer than its lease: the next poll fails
\* the run and, up to the limit, makes the next attempt.
Expire ==
  /\ run.state = "running"
  /\ run' = IF run.attempt < MaxAttempts
            THEN [run EXCEPT !.state = "pending", !.attempt = @ + 1]
            ELSE [run EXCEPT !.state = "failed"]
  /\ UNCHANGED <<facts, worker, call, tx, parked>>

-----------------------------------------------------------------------------
(* The others.                                                             *)

\* execute, without a parent: spawn_task with the execution's key.
Execute ==
  /\ run.state = "absent"
  /\ run' = [run EXCEPT !.state = "pending", !.attempt = 1]
  /\ UNCHANGED <<facts, worker, call, tx, parked>>

\* deferredDone: emit the deferred's event, read the doorbell, ring it.
\* A call that broke off may be made again.
EmitDeferred(d) ==
  /\ call[d] = "idle"
  /\ event' = event \union {d}
  /\ call' = [call EXCEPT ![d] = "emitted"]
  /\ UNCHANGED <<run, checkpoint, armed, due, spawned, ended, worker, tx, parked>>

ReadBell(d) ==
  /\ call[d] = "emitted"
  /\ call' = [call EXCEPT ![d] = IF CurrentBell \in Bell THEN CurrentBell
                                 ELSE "returned"]
  /\ UNCHANGED <<run, facts, worker, tx, parked>>

RingForDeferred(d) ==
  /\ call[d] \in Bell
  /\ RingBell(call[d])
  /\ call' = [call EXCEPT ![d] = "returned"]
  /\ UNCHANGED <<facts, worker, tx, parked>>

CallBreaks(d) ==
  /\ call[d] \in Bell \union {"emitted"}
  /\ call' = [call EXCEPT ![d] = "idle"]
  /\ UNCHANGED <<run, facts, worker, tx, parked>>

\* resume: reads the doorbell and rings it.
Resume ==
  /\ CurrentBell \in Bell
  /\ RingBell(CurrentBell)
  /\ UNCHANGED <<facts, worker, call, tx, parked>>

\* interrupt: one transaction writes the marker, reads the doorbell and
\* rings it, and nobody sees any of it before it commits.  The same holds
\* of the transaction that completes a child and rings its parent.
Open(x) ==
  /\ tx[x] = "idle"
  /\ IF x = Interrupt THEN Live ELSE x \in spawned \ ended
  /\ tx' = [tx EXCEPT ![x] = IF CurrentBell \in Bell THEN CurrentBell ELSE "open"]
  /\ UNCHANGED <<run, facts, worker, call, parked>>

Commit(x) ==
  /\ tx[x] # "idle"
  /\ IF x = Interrupt
     THEN checkpoint' = checkpoint \union {x} /\ UNCHANGED ended
     ELSE ended' = ended \union {x} /\ UNCHANGED checkpoint
  /\ RingBell(tx[x])
  /\ tx' = [tx EXCEPT ![x] = "idle"]
  /\ UNCHANGED <<event, armed, due, spawned, worker, call, parked>>

Rollback(x) ==
  /\ tx[x] # "idle"
  /\ tx' = [tx EXCEPT ![x] = "idle"]
  /\ UNCHANGED <<run, facts, worker, call, parked>>

\* A child is cancelled, or fails, without this engine: nobody rings.
EndOutside(k) ==
  /\ k \in spawned \ ended /\ tx[k] = "idle"
  /\ ended' = ended \union {k}
  /\ UNCHANGED <<run, checkpoint, event, armed, due, spawned, worker, call, tx, parked>>

\* interruptUnsafe: cancel_task.
Cancel ==
  /\ Live
  /\ run' = [run EXCEPT !.state = "cancelled", !.bell = NoBell, !.alarm = {}]
  /\ UNCHANGED <<facts, worker, call, tx, parked>>

\* A stored deadline passes.
Tick(c) ==
  /\ c \in armed \ due
  /\ due' = due \union {c}
  /\ UNCHANGED <<run, checkpoint, event, armed, spawned, ended, worker, call, tx, parked>>

-----------------------------------------------------------------------------

Replays(w) ==
  \/ \E d \in Deferred : AwaitDeferred(w, d)
  \/ \E c \in Clock : AwaitClock(w, c)
  \/ \E k \in Child : ExecuteChild(w, k)
  \/ \E a \in Activity : StartActivity(w, a) \/ FinishActivity(w, a)
  \/ Suspend(w) \/ Succeed(w) \/ Preempt(w) \/ Exit(w) \/ Complete(w)

Parks(w) ==
  \/ \E s \in Source \union {Interrupt} :
       CheckResumes(w, s) \/ CheckPasses(w, s)
       \/ RecheckRings(w, s) \/ RecheckPasses(w, s)
  \/ Park(w) \/ RecheckEnds(w) \/ DeferUnknown(w)

Client ==
  \/ \E d \in Deferred :
       EmitDeferred(d) \/ ReadBell(d) \/ RingForDeferred(d) \/ CallBreaks(d)
  \/ \E x \in Child \union {Interrupt} : Open(x) \/ Commit(x) \/ Rollback(x)
  \/ \E k \in Child : EndOutside(k)
  \/ Execute \/ Resume \/ Cancel

Next ==
  \/ \E w \in Worker :
       \/ Claim(w, "handler") \/ Claim(w, "unknown")
       \/ Replays(w) \/ Parks(w) \/ Crash(w) \/ Superseded(w)
       \/ PollFails(w) \/ Restart(w)
  \/ Client
  \/ \E c \in Clock : Tick(c)
  \/ Expire

Spec == Init /\ [][Next]_vars

\* A loop that lives polls and goes on with what it does; an expired claim is
\* swept by any poll, while a loop lives; time passes.  No poll has to succeed:
\* a loop may die at any claim, and no process has to be started again.
\* Nobody has to provide anything, and a client may break off.  Strong
\* fairness of claims: a worker without the handler puts the run away for at
\* least 15 s, and one with it polls every 250 ms.
Fairness ==
  /\ \A w \in Worker :
       /\ SF_vars(Claim(w, "handler"))
       /\ WF_vars(Replays(w) \/ Parks(w) \/ Superseded(w))
  /\ \A c \in Clock : WF_vars(Tick(c))
  /\ WF_vars(~AllLoopsDead /\ Expire)

FairSpec == Spec /\ Fairness

-----------------------------------------------------------------------------
(* Properties.                                                             *)

\* The rows, the facts, the fibers and the calls in flight have their
\* types; only a stored deadline passes and only a spawned child ends.
TypeOK ==
  /\ run \in RunRow
  /\ checkpoint \subseteq Signal \union Activity \union {Interrupt}
  /\ event \subseteq Signal
  /\ due \subseteq armed /\ armed \subseteq Clock
  /\ ended \subseteq spawned /\ spawned \subseteq Child
  /\ worker \in [Worker -> WorkerRow]
  /\ call \in [Deferred -> Bell \union {"idle", "emitted", "returned"}]
  /\ tx \in [Child \union {Interrupt} -> Bell \union {"idle", "open"}]
  /\ parked \in [missing : SUBSET Signal, unresolved : SUBSET Signal,
                 kids : SUBSET Child, checked : BOOLEAN]

Asleep == run.state = "sleeping" /\ run.bell \in Bell

\* The worker that has parked the run has not looked at s again yet.
WillRecheck(s) ==
  \E w \in Worker : /\ worker[w].at = "recheck" /\ worker[w].bell = run.bell
                    /\ s \in worker[w].todo

\* That worker has died meanwhile.
RecheckLost ==
  /\ ~parked.checked
  /\ \A w \in Worker : ~(worker[w].at = "recheck" /\ worker[w].bell = run.bell)

\* A deferred that was missing when the run was about to park, and whose
\* deferredDone has returned, does not leave the run asleep: either the
\* caller has found the doorbell, or the worker finds the deferred when it
\* looks again.  Both may come between any two steps of the other.
HandshakeHolds ==
  \A d \in Deferred \intersect parked.unresolved :
    Asleep /\ call[d] = "returned" => WillRecheck(d) \/ RecheckLost

\* What the comment in parkSuspended says, "this closes both sides of the
\* check/register race", of every deferred that the handler found missing.
NoLostSignal ==
  \A d \in Deferred \intersect parked.missing :
    Asleep /\ call[d] = "returned" /\ run.alarm = {}
      => WillRecheck(d) \/ RecheckLost

\* To its clients the execution is a task as TaskLifecycle describes it:
\* attempted again and again until it ends, once.
Lifecycle == INSTANCE TaskLifecycle WITH
  TaskId <- {"workflow"},
  status <- [t \in {"workflow"} |-> IF Live THEN "live" ELSE run.state],
  attempts <- [t \in {"workflow"} |-> run.attempt]

ImplementsLifecycle == Lifecycle!Spec

\* An execution whose deferreds are stored ends, or comes to wait for a
\* child, and ends after that child: no crash, no clock, no ring that came
\* too early and no child that ended without ringing leaves it asleep.  Only
\* when every loop of the queue has died at a claim nobody takes it up.
Finishes ==
  Live /\ Deferred \subseteq checkpoint
    ~> ~Live \/ spawned \ ended # {} \/ AllLoopsDead

\* An interrupt that commits while the execution is not asleep ends it,
\* unless the worker dies between parking and looking again, or every loop
\* of the queue dies.
InterruptEnds ==
  Interrupt \in checkpoint /\ run.state \in {"pending", "running"}
    ~> ~Live \/ (Asleep /\ RecheckLost) \/ AllLoopsDead
=============================================================================

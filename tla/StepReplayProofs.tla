-------------------------- MODULE StepReplayProofs --------------------------
(***************************************************************************)
(* For every handler and any number of executions: a step never returns    *)
(* the value of another step of its name, to its clients the task is one   *)
(* that TaskLifecycle describes, and executions that overlap return the    *)
(* same results.                                                           *)
(***************************************************************************)
EXTENDS StepReplay, FiniteSetTheorems, TLAPS

USE ReplayAssumption

-----------------------------------------------------------------------------
(* The names of checkpoints.                                               *)

\* The uses of a name up to position i.
Uses(i) == {j \in 1 .. i : Script[j].name = Script[i].name}

\* They are finitely many, at least one and at most i.
LEMMA UsesAreCounted ==
  ASSUME NEW i \in Position
  PROVE  /\ IsFiniteSet(Uses(i))
         /\ Cardinality(Uses(i)) \in Position
<1>1. Len(Script) \in Nat /\ i \in Nat /\ 1 <= i /\ i <= Len(Script)
  BY DEF Position
<1>2. IsFiniteSet(1 .. i) /\ Cardinality(1 .. i) = i
  BY <1>1, FS_Interval
<1>3. Uses(i) \in SUBSET (1 .. i)
  BY DEF Uses
<1>4. IsFiniteSet(Uses(i)) /\ Cardinality(Uses(i)) <= i
  BY <1>2, <1>3, FS_Subset
<1>5. i \in Uses(i)
  BY <1>1 DEF Uses
<1>6. Cardinality(Uses(i)) # 0 /\ Cardinality(Uses(i)) \in Nat
  BY <1>4, <1>5, FS_EmptySet, FS_CardinalityType
<1> QED
  BY <1>1, <1>4, <1>6 DEF Position

\* getCheckpointName gives every position a name of the declared kind.
LEMMA NamesAreNames ==
  ASSUME NEW i \in Position
  PROVE  CheckpointName(i) \in CheckpointNames
<1>1. Cardinality(Uses(i)) \in Position
  BY UsesAreCounted
<1> QED
  BY <1>1 DEF CheckpointName, CheckpointNames, Name, Uses

\* No two positions share a name: the later use is counted higher.
LEMMA EarlierUsesAreFewer ==
  ASSUME NEW i \in Position, NEW j \in Position, i < j
  PROVE  CheckpointName(i) # CheckpointName(j)
<1> SUFFICES ASSUME Script[i].name = Script[j].name,
                    Cardinality(Uses(i)) = Cardinality(Uses(j))
             PROVE  FALSE
  BY DEF CheckpointName, Uses
<1>1. Len(Script) \in Nat /\ i \in Nat /\ j \in Nat /\ 1 <= i
  BY DEF Position
<1>2. Uses(i) \in SUBSET Uses(j)
  BY <1>1 DEF Uses
<1>3. IsFiniteSet(Uses(j))
  BY UsesAreCounted
<1>4. Uses(i) = Uses(j)
  BY <1>2, <1>3, FS_Subset
<1>5. j \in Uses(j) /\ j \notin Uses(i)
  BY <1>1 DEF Uses
<1> QED
  BY <1>4, <1>5

LEMMA NamesDiffer ==
  ASSUME NEW i \in Position, NEW j \in Position,
         CheckpointName(i) = CheckpointName(j)
  PROVE  i = j
<1>1. Len(Script) \in Nat /\ i \in Nat /\ j \in Nat
  BY DEF Position
<1>2. CASE i < j
  BY <1>2, EarlierUsesAreFewer
<1>3. CASE j < i
  BY <1>3, EarlierUsesAreFewer
<1> QED
  BY <1>1, <1>2, <1>3

-----------------------------------------------------------------------------
(* The inductive invariant.                                                *)

\* If v is the value of a step, it is the step at position i.
Own(v, i) == v.is = "step" => v.at = i

\* A run that exists has an attempt.
RunOK(row) == row \in RunRow /\ (row.state # "absent" => row.attempt \in Attempt)

\* Checkpoints, in the database or in a cache, hold values of their own.
StoreOK(store) ==
  /\ store \in [CheckpointNames -> Value]
  /\ \A i \in Position : Own(store[CheckpointName(i)], i)

\* So do answers on their way.
RowOK(row) ==
  /\ row \in WorkerRow
  /\ row.at # "idle" => row.attempt \in Attempt
  /\ row.at \in {"body", "reply"} => row.pc \in Position
  /\ StoreOK(row.cache)
  /\ row.at = "reply" => Own(row.reply, row.pc)

SeenOK(s) == s \in [Position -> Value] /\ \A i \in Position : Own(s[i], i)

Inv ==
  /\ RunOK(run)
  /\ StoreOK(checkpoint)
  /\ emitted \subseteq Event /\ due \subseteq Position
  /\ worker \in [Worker -> WorkerRow] /\ \A w \in Worker : RowOK(worker[w])
  /\ SeenOK(seen)

-----------------------------------------------------------------------------
(* What the pieces of actions keep.                                        *)

LEMMA ValuesAreValues ==
  /\ {Deadline, Payload, Timeout, Null, Suspension, Nothing} \subseteq Value
  /\ \A i \in Position, a \in Attempt : StepValue(i, a) \in Value
BY DEF Value

\* A value that is of no step is nobody's, and a step's value its own.
LEMMA OwnOfValues ==
  /\ \A i \in Position, v \in {Deadline, Payload, Timeout, Null, Suspension, Nothing} : Own(v, i)
  /\ \A i \in Position, a \in Attempt : Own(StepValue(i, a), i)
BY DEF Own, Deadline, Payload, Timeout, Null, Suspension, Nothing, StepValue

LEMMA StoreKept ==
  ASSUME NEW store, StoreOK(store), NEW i \in Position, NEW v \in Value, Own(v, i)
  PROVE  StoreOK([store EXCEPT ![CheckpointName(i)] = v])
<1> DEFINE new == [store EXCEPT ![CheckpointName(i)] = v]
<1>1. new \in [CheckpointNames -> Value]
  BY DEF StoreOK
<1>2. ASSUME NEW j \in Position PROVE Own(new[CheckpointName(j)], j)
  <2>1. CheckpointName(j) \in CheckpointNames
    BY NamesAreNames
  <2>2. CASE j = i
    BY <2>1, <2>2 DEF StoreOK
  <2>3. CASE j # i
    <3>1. CheckpointName(j) # CheckpointName(i)
      BY <2>3, NamesDiffer
    <3>2. new[CheckpointName(j)] = store[CheckpointName(j)]
      BY <2>1, <3>1 DEF StoreOK
    <3> QED
      BY <3>2 DEF StoreOK
  <2> QED
    BY <2>2, <2>3
<1> QED
  BY <1>1, <1>2 DEF StoreOK

LEMMA NothingIsStored == StoreOK(NoCheckpoints)
<1>1. NoCheckpoints \in [CheckpointNames -> Value]
  BY ValuesAreValues DEF NoCheckpoints
<1>2. \A i \in Position : NoCheckpoints[CheckpointName(i)] = Nothing
  BY NamesAreNames DEF NoCheckpoints
<1> QED
  BY <1>1, <1>2, OwnOfValues DEF StoreOK

LEMMA IdleIsOK == RowOK(IdleWorker)
<1>1. Len(Script) \in Nat
  OBVIOUS
<1>2. IdleWorker \in WorkerRow
  BY <1>1, ValuesAreValues, NothingIsStored DEF IdleWorker, WorkerRow, StoreOK
<1> QED
  BY <1>2, NothingIsStored DEF IdleWorker, RowOK

LEMMA BecomeKept ==
  ASSUME Inv, NEW w \in Worker, NEW row, RowOK(row), Become(w, row)
  PROVE  worker' \in [Worker -> WorkerRow] /\ \A x \in Worker : RowOK(worker'[x])
BY DEF Inv, Become, RowOK

LEMMA RestKept ==
  ASSUME Inv, NEW w \in Worker, Rest(w)
  PROVE  worker' \in [Worker -> WorkerRow] /\ \A x \in Worker : RowOK(worker'[x])
BY BecomeKept, IdleIsOK DEF Rest

LEMMA ErrsKept ==
  ASSUME Inv, NEW w \in Worker, Errs(w), worker[w].at # "idle"
  PROVE  worker' \in [Worker -> WorkerRow] /\ \A x \in Worker : RowOK(worker'[x])
<1>1. RowOK([worker[w] EXCEPT !.at = "fail"])
  BY DEF Inv, RowOK, WorkerRow
<1> QED
  BY <1>1, BecomeKept DEF Errs

LEMMA RepliesKept ==
  ASSUME Inv, NEW w \in Worker, NEW v \in Value, Replies(w, v),
         worker[w].at # "idle", worker[w].pc \in Position, Own(v, worker[w].pc)
  PROVE  worker' \in [Worker -> WorkerRow] /\ \A x \in Worker : RowOK(worker'[x])
<1>1. RowOK([worker[w] EXCEPT !.at = "reply", !.reply = v])
  BY DEF Inv, RowOK, WorkerRow
<1> QED
  BY <1>1, BecomeKept DEF Replies

LEMMA DeliverKept ==
  ASSUME Inv, NEW w \in Worker, NEW v \in Value, Deliver(w, v),
         worker[w].at # "idle", worker[w].pc \in Position, Own(v, worker[w].pc)
  PROVE  /\ worker' \in [Worker -> WorkerRow]
         /\ \A x \in Worker : RowOK(worker'[x])
         /\ SeenOK(seen')
<1> DEFINE i == worker[w].pc
           cache == [worker[w].cache EXCEPT ![CheckpointName(i)] = v]
           row == [worker[w] EXCEPT !.at = "handler", !.pc = i + 1,
                                    !.reply = Nothing, !.cache = cache]
<1>1. StoreOK(cache)
  BY StoreKept DEF Inv, RowOK
<1>2. i + 1 \in 1 .. Len(Script) + 1
  BY DEF Position
<1>3. RowOK(row)
  BY <1>1, <1>2, ValuesAreValues DEF Inv, RowOK, WorkerRow, StoreOK
<1>4. Become(w, row)
  BY DEF Deliver, Become, Key, Inv, WorkerRow
<1>5. SeenOK(seen')
  BY DEF Deliver, Inv, SeenOK
<1> QED
  BY <1>3, <1>4, <1>5, BecomeKept

\* What a lookup finds is of the position that asks.
LEMMA LookupOwn ==
  ASSUME Inv, NEW w \in Worker, worker[w].pc \in Position
  PROVE  Lookup(w) \in Value /\ Own(Lookup(w), worker[w].pc)
BY NamesAreNames DEF Lookup, Key, Inv, RowOK, StoreOK

LEMMA FailedRunOK ==
  ASSUME RunOK(run), run.state # "absent"
  PROVE  RunOK(FailedRun)
<1>1. run \in RunRow /\ run.attempt \in Attempt
  BY DEF RunOK
<1>2. CASE run.attempt < MaxAttempts
  <2>1. FailedRun = [state |-> "pending", attempt |-> run.attempt + 1,
                     wake |-> NoEvent, parkedAt |-> 0]
    BY <1>2 DEF FailedRun
  <2>2. run.attempt + 1 \in Attempt
    BY <1>1, <1>2 DEF Attempt
  <2> QED
    BY <2>1, <2>2 DEF RunOK, RunRow, LiveState, Attempt
<1>3. CASE ~(run.attempt < MaxAttempts)
  <2>1. FailedRun = [run EXCEPT !.state = "failed", !.wake = NoEvent, !.parkedAt = 0]
    BY <1>3 DEF FailedRun
  <2> QED
    BY <1>1, <2>1 DEF RunOK, RunRow
<1> QED
  BY <1>2, <1>3

LEMMA ParkOK ==
  ASSUME RunOK(run), NEW i \in Position, NEW e \in Event \union {NoEvent},
         Park(i, e), run.state # "absent"
  PROVE  RunOK(run')
BY DEF Park, RunOK, RunRow, LiveState

-----------------------------------------------------------------------------
(* Every action keeps the invariant.                                       *)

LEMMA InitOK == Init => Inv
<1> SUFFICES ASSUME Init PROVE Inv
  OBVIOUS
<1>1. RunOK(run)
  BY DEF Init, RunOK, RunRow
<1>2. worker \in [Worker -> WorkerRow] /\ \A w \in Worker : RowOK(worker[w])
  BY IdleIsOK DEF Init, RowOK
<1>3. SeenOK(seen)
  BY ValuesAreValues, OwnOfValues DEF Init, SeenOK
<1> QED
  BY <1>1, <1>2, <1>3, NothingIsStored DEF Init, Inv

LEMMA ClaimOK ==
  ASSUME Inv, NEW w \in Worker, Claim(w)
  PROVE  Inv'
<1> DEFINE row == [IdleWorker EXCEPT !.at = "handler", !.attempt = run.attempt,
                                     !.wake = run.wake, !.cache = checkpoint]
<1>1. run.attempt \in Attempt
  BY DEF Inv, RunOK, Claim, Claimable
<1>2. RowOK(row)
  <2>1. row \in WorkerRow
    BY <1>1, IdleIsOK DEF Inv, RunOK, RunRow, RowOK, WorkerRow, StoreOK, Attempt
  <2> QED
    BY <1>1, <2>1 DEF Inv, RowOK, IdleWorker
<1>3. worker' \in [Worker -> WorkerRow] /\ \A x \in Worker : RowOK(worker'[x])
  BY <1>2, BecomeKept DEF Claim
<1>4. RunOK(run')
  BY <1>1 DEF Claim, Inv, RunOK, RunRow, LiveState
<1> QED
  BY <1>3, <1>4 DEF Claim, Inv

LEMMA ReplayOK ==
  ASSUME Inv, NEW w \in Worker, Replay(w)
  PROVE  Inv'
<1>1. worker[w].pc \in Position /\ worker[w].at # "idle"
  BY DEF Replay, At
<1>2. Lookup(w) \in Value /\ Own(Lookup(w), worker[w].pc)
  BY <1>1, LookupOwn
<1>3. Deliver(w, Lookup(w))
  BY DEF Replay
<1> QED
  BY <1>1, <1>2, <1>3, DeliverKept DEF Replay, Inv

LEMMA BeginStepOK ==
  ASSUME Inv, NEW w \in Worker, BeginStep(w)
  PROVE  Inv'
<1>1. RowOK([worker[w] EXCEPT !.at = "body"])
  BY DEF BeginStep, At, Inv, RowOK, WorkerRow
<1> QED
  BY <1>1, BecomeKept DEF BeginStep, Inv

LEMMA CompleteStepOK ==
  ASSUME Inv, NEW w \in Worker, CompleteStep(w)
  PROVE  Inv'
<1> DEFINE i == worker[w].pc
           v == StepValue(i, worker[w].attempt)
<1>1. i \in Position /\ worker[w].attempt \in Attempt /\ worker[w].at # "idle"
  BY DEF CompleteStep, Inv, RowOK
<1>2. v \in Value /\ Own(v, i)
  BY <1>1, ValuesAreValues, OwnOfValues
<1>3. CASE Refused(w)
  BY <1>3, RestKept DEF CompleteStep, Inv
<1>4. CASE ~Refused(w)
  <2>1. checkpoint' = [checkpoint EXCEPT ![CheckpointName(i)] = v] /\ Replies(w, v)
    BY <1>4 DEF CompleteStep, Key
  <2>2. StoreOK(checkpoint')
    BY <1>1, <1>2, <2>1, StoreKept DEF Inv
  <2> QED
    BY <1>1, <1>2, <2>1, <2>2, RepliesKept DEF CompleteStep, Inv
<1> QED
  BY <1>3, <1>4

LEMMA SleepUntilOK ==
  ASSUME Inv, NEW w \in Worker, SleepUntil(w)
  PROVE  Inv'
<1> DEFINE i == worker[w].pc
<1>1. i \in Position /\ worker[w].at # "idle"
  BY DEF SleepUntil, At
<1>2. /\ Deadline \in Value /\ Own(Deadline, i)
      /\ Suspension \in Value /\ Own(Suspension, i)
  BY <1>1, ValuesAreValues, OwnOfValues
<1>3. CASE Lookup(w) = Nothing
  <2>1. UNCHANGED <<run, seen, emitted, due>>
    BY <1>3 DEF SleepUntil
  <2>2. CASE Refused(w)
    <3>1. Rest(w) /\ UNCHANGED checkpoint
      BY <1>3, <2>2 DEF SleepUntil
    <3> QED
      BY <2>1, <3>1, RestKept DEF Inv
  <2>3. CASE ~Refused(w)
    <3>1. checkpoint' = [checkpoint EXCEPT ![CheckpointName(i)] = Deadline]
          /\ Replies(w, Deadline)
      BY <1>3, <2>3 DEF SleepUntil, Key
    <3>2. StoreOK(checkpoint')
      BY <1>1, <1>2, <3>1, StoreKept DEF Inv
    <3> QED
      BY <1>1, <1>2, <2>1, <3>1, <3>2, RepliesKept DEF Inv
  <2> QED
    BY <2>2, <2>3
<1>4. CASE Lookup(w) # Nothing /\ i \in due
  <2>1. Deliver(w, Lookup(w)) /\ UNCHANGED <<run, checkpoint, emitted, due>>
    BY <1>4 DEF SleepUntil
  <2>2. Lookup(w) \in Value /\ Own(Lookup(w), i)
    BY <1>1, LookupOwn
  <2> QED
    BY <1>1, <2>1, <2>2, DeliverKept DEF Inv
<1>5. CASE Lookup(w) # Nothing /\ i \notin due
  <2>1. UNCHANGED <<checkpoint, seen, emitted, due>>
    BY <1>5 DEF SleepUntil
  <2>2. CASE Owns(w)
    <3>1. Park(i, NoEvent) /\ Replies(w, Suspension)
      BY <1>5, <2>2 DEF SleepUntil
    <3>2. RunOK(run')
      BY <1>1, <2>2, <3>1, ParkOK DEF Inv, Owns
    <3> QED
      BY <1>1, <1>2, <2>1, <3>1, <3>2, RepliesKept DEF Inv
  <2>3. CASE ~Owns(w)
    <3>1. Errs(w) /\ UNCHANGED run
      BY <1>5, <2>3 DEF SleepUntil
    <3> QED
      BY <1>1, <2>1, <3>1, ErrsKept DEF Inv
  <2> QED
    BY <2>2, <2>3
<1> QED
  BY <1>3, <1>4, <1>5

LEMMA TimesOutOK ==
  ASSUME Inv, NEW w \in Worker, TimesOut(w)
  PROVE  Inv'
<1> DEFINE i == worker[w].pc
           row == [worker[w] EXCEPT !.pc = i + 1, !.wake = NoEvent]
<1>1. i \in Position /\ worker[w].at = "handler"
  BY DEF TimesOut, At
<1>2. i + 1 \in 1 .. Len(Script) + 1
  BY <1>1 DEF Position
<1>3. RowOK(row)
  BY <1>1, <1>2 DEF Inv, RowOK, WorkerRow
<1>4. Become(w, row)
  BY DEF TimesOut, Become, Inv, WorkerRow
<1>5. SeenOK(seen')
  BY <1>1, ValuesAreValues, OwnOfValues DEF TimesOut, Inv, SeenOK
<1> QED
  BY <1>3, <1>4, <1>5, BecomeKept DEF TimesOut, Inv

LEMMA AwaitEventOK ==
  ASSUME Inv, NEW w \in Worker, AwaitEvent(w)
  PROVE  Inv'
<1> DEFINE i == worker[w].pc
           e == Op(w).name
<1>1. i \in Position /\ worker[w].at # "idle" /\ e \in Event
  BY DEF AwaitEvent, At, Op
<1>2. /\ Payload \in Value /\ Own(Payload, i)
      /\ Null \in Value /\ Own(Null, i)
      /\ Suspension \in Value /\ Own(Suspension, i)
  BY <1>1, ValuesAreValues, OwnOfValues
<1>3. UNCHANGED <<emitted, due, seen>>
  BY DEF AwaitEvent
<1>4. CASE run.state = "cancelled" /\ Rest(w) /\ UNCHANGED <<run, checkpoint>>
  BY <1>3, <1>4, RestKept DEF Inv
<1>5. CASE Errs(w) /\ UNCHANGED <<run, checkpoint>>
  BY <1>1, <1>3, <1>5, ErrsKept DEF Inv
<1>6. CASE /\ checkpoint' = [checkpoint EXCEPT ![Key(w)] = Payload]
           /\ Replies(w, Payload) /\ UNCHANGED run
  <2>1. StoreOK(checkpoint')
    BY <1>1, <1>2, <1>6, StoreKept DEF Inv, Key
  <2> QED
    BY <1>1, <1>2, <1>3, <1>6, <2>1, RepliesKept DEF Inv
<1>7. CASE Owns(w) /\ UNCHANGED checkpoint
           /\ run' = [run EXCEPT !.wake = NoEvent] /\ Replies(w, Null)
  <2>1. RunOK(run')
    BY <1>7 DEF Inv, RunOK, RunRow
  <2> QED
    BY <1>1, <1>2, <1>3, <1>7, <2>1, RepliesKept DEF Inv
<1>8. CASE Owns(w) /\ UNCHANGED checkpoint
           /\ Park(i, e) /\ Replies(w, Suspension)
  <2>1. RunOK(run')
    BY <1>1, <1>8, ParkOK DEF Inv, Owns
  <2> QED
    BY <1>1, <1>2, <1>3, <1>8, <2>1, RepliesKept DEF Inv
<1> QED
  BY <1>4, <1>5, <1>6, <1>7, <1>8 DEF AwaitEvent

LEMMA ReplyArrivesOK ==
  ASSUME Inv, NEW w \in Worker, ReplyArrives(w)
  PROVE  Inv'
<1> DEFINE i == worker[w].pc
           v == worker[w].reply
<1>1. /\ worker[w].at = "reply" /\ i \in Position
      /\ v \in Value /\ Own(v, i)
  BY DEF ReplyArrives, Inv, RowOK, WorkerRow
<1>2. UNCHANGED <<run, checkpoint, emitted, due>>
  BY DEF ReplyArrives
<1>3. CASE v = Suspension
  <2>1. Rest(w) /\ UNCHANGED seen
    BY <1>3 DEF ReplyArrives, Suspension, Deadline
  <2> QED
    BY <1>2, <2>1, RestKept DEF Inv
<1>4. CASE v # Suspension /\ v = Deadline
  <2> DEFINE cache == [worker[w].cache EXCEPT ![CheckpointName(i)] = Deadline]
             row == [worker[w] EXCEPT !.at = "handler", !.reply = Nothing,
                                      !.cache = cache]
  <2>1. StoreOK(cache)
    BY <1>1, ValuesAreValues, OwnOfValues, StoreKept DEF Inv, RowOK
  <2>2. RowOK(row)
    BY <1>1, <2>1, ValuesAreValues DEF Inv, RowOK, WorkerRow, StoreOK
  <2>3. Become(w, row) /\ UNCHANGED seen
    BY <1>4 DEF ReplyArrives, Become, Key, Inv, WorkerRow
  <2> QED
    BY <1>2, <2>2, <2>3, BecomeKept DEF Inv
<1>5. CASE v # Suspension /\ v # Deadline
  <2>1. Deliver(w, v)
    BY <1>5 DEF ReplyArrives
  <2> QED
    BY <1>1, <1>2, <2>1, DeliverKept DEF Inv
<1> QED
  BY <1>3, <1>4, <1>5

LEMMA ThrowsOK ==
  ASSUME Inv, NEW w \in Worker, Throws(w)
  PROVE  Inv'
BY ErrsKept DEF Throws, Inv

LEMMA CompleteOK ==
  ASSUME Inv, NEW w \in Worker, Complete(w) \/ CompleteUnheard(w)
  PROVE  Inv'
<1>1. UNCHANGED <<checkpoint, emitted, due, seen>> /\ worker[w].at # "idle"
  BY DEF Complete, CompleteUnheard
<1>2. Rest(w) \/ Errs(w)
  BY DEF Complete, CompleteUnheard
<1>3. run' = run \/ (Owns(w) /\ run' = [run EXCEPT !.state = "completed"])
  BY DEF Complete, CompleteUnheard
<1>4. RunOK(run')
  BY <1>3 DEF Owns, Inv, RunOK, RunRow
<1> QED
  BY <1>1, <1>2, <1>4, RestKept, ErrsKept DEF Inv

LEMMA FailOK ==
  ASSUME Inv, NEW w \in Worker, Fail(w) \/ Crash(w)
  PROVE  Inv'
<1>1. UNCHANGED <<checkpoint, emitted, due, seen>> /\ Rest(w)
  BY DEF Fail, Crash
<1>2. run' = run \/ (run.state \in {"running", "sleeping"} /\ run' = FailedRun)
  BY DEF Fail, Crash
<1>3. RunOK(run')
  BY <1>2, FailedRunOK DEF Inv
<1> QED
  BY <1>1, <1>3, RestKept DEF Inv

LEMMA OthersOK ==
  ASSUME Inv, Spawn \/ Expire \/ Cancel
  PROVE  Inv'
<1>1. UNCHANGED <<checkpoint, emitted, due, worker, seen>>
  BY DEF Spawn, Expire, Cancel
<1>2. CASE Spawn
  <2>1. 1 \in Attempt /\ 1 \in 0 .. MaxAttempts
    BY DEF Attempt
  <2>2. run' \in RunRow /\ run'.attempt = 1
    BY <1>2, <2>1 DEF Spawn, Inv, RunOK, RunRow, LiveState
  <2> QED
    BY <1>1, <2>1, <2>2 DEF Inv, RunOK
<1>3. CASE Expire
  BY <1>1, <1>3, FailedRunOK DEF Expire, Inv
<1>4. CASE Cancel
  BY <1>1, <1>4 DEF Cancel, Live, LiveState, Inv, RunOK, RunRow
<1> QED
  BY <1>2, <1>3, <1>4

LEMMA EmitOK ==
  ASSUME Inv, NEW e \in Event, Emit(e)
  PROVE  Inv'
<1>1. UNCHANGED <<due, worker, seen>> /\ emitted' \subseteq Event
  BY DEF Emit, Inv
<1>2. CASE UNCHANGED <<run, checkpoint>>
  BY <1>1, <1>2 DEF Inv
<1>3. CASE /\ run' = [run EXCEPT !.state = "pending", !.wake = NoEvent, !.parkedAt = 0]
           /\ run.state = "sleeping"
           /\ checkpoint' = [checkpoint EXCEPT ![CheckpointName(run.parkedAt)] = Payload]
  <2>1. RunOK(run')
    BY <1>3 DEF Inv, RunOK, RunRow, LiveState
  <2>2. StoreOK(checkpoint')
    BY <1>3, ValuesAreValues, OwnOfValues, NamesAreNames DEF Inv, StoreOK
  <2> QED
    BY <1>1, <2>1, <2>2 DEF Inv
<1> QED
  BY <1>2, <1>3 DEF Emit

LEMMA TickOK ==
  ASSUME Inv, NEW i \in Position, Tick(i)
  PROVE  Inv'
BY DEF Tick, Inv

LEMMA NextOK == Inv /\ [Next]_vars => Inv'
<1> SUFFICES ASSUME Inv, [Next]_vars PROVE Inv'
  OBVIOUS
<1>1. CASE UNCHANGED vars
  BY <1>1 DEF vars, Inv
<1>2. CASE \E w \in Worker : Claim(w) \/ Handler(w) \/ Throws(w) \/ Crash(w)
  <2> PICK w \in Worker : Claim(w) \/ Handler(w) \/ Throws(w) \/ Crash(w)
    BY <1>2
  <2> QED
    BY ClaimOK, ReplayOK, BeginStepOK, CompleteStepOK, SleepUntilOK, TimesOutOK,
       AwaitEventOK, ReplyArrivesOK, ThrowsOK, CompleteOK, FailOK DEF Handler
<1>3. CASE \E e \in Event : Emit(e)
  BY <1>3, EmitOK
<1>4. CASE \E i \in Position : Tick(i)
  BY <1>4, TickOK
<1>5. CASE Spawn \/ Expire \/ Cancel
  BY <1>5, OthersOK
<1> QED
  BY <1>1, <1>2, <1>3, <1>4, <1>5 DEF Next

\* The invariant holds in every reachable state.
THEOREM Invariance == Spec => []Inv
BY InitOK, NextOK, PTL DEF Spec

-----------------------------------------------------------------------------
(* What it implies.                                                        *)

\* The rows, checkpoints, executions and results always have their types.
THEOREM TypeCorrect == Spec => []TypeOK
<1>1. Inv => TypeOK
  BY DEF Inv, TypeOK, RunOK, StoreOK, SeenOK
<1> QED
  BY <1>1, Invariance, PTL

\* Whatever the handler is, and however many executions of it run at once: a
\* step returns what was computed for it, never the value of another step
\* of its name (getCheckpointName counts the uses of a name).
THEOREM StepsReturnTheirOwn == Spec => []OwnValues
<1>1. Inv => OwnValues
  BY DEF Inv, OwnValues, SeenOK, Own
<1> QED
  BY <1>1, Invariance, PTL

-----------------------------------------------------------------------------
(* The refinement.                                                         *)

\* The task's status, as its clients see it.
Status(row) == IF row.state \in LiveState THEN "live" ELSE row.state

\* A step moves the task as TaskLifecycle allows.
Moves(old, new) ==
  \/ Status(old) = "absent" /\ Status(new) = "live" /\ new.attempt = 1
  \/ /\ Status(old) = "live" /\ Status(new) = "live"
     /\ new.attempt \in {old.attempt, old.attempt + 1}
  \/ /\ Status(old) = "live" /\ Status(new) \in {"completed", "failed", "cancelled"}
     /\ new.attempt = old.attempt
  \/ new = old

LEMMA FailedRunMoves ==
  ASSUME RunOK(run), run.state \in LiveState
  PROVE  Moves(run, FailedRun)
<1>1. CASE run.attempt < MaxAttempts
  BY <1>1 DEF FailedRun, Moves, Status, LiveState
<1>2. CASE ~(run.attempt < MaxAttempts)
  <2>1. FailedRun.state = "failed" /\ FailedRun.attempt = run.attempt
    BY <1>2 DEF FailedRun, RunOK, RunRow
  <2> QED
    BY <2>1 DEF Moves, Status, LiveState
<1> QED
  BY <1>1, <1>2

LEMMA LiveStays ==
  ASSUME RunOK(run), run.state \in LiveState, NEW s \in LiveState,
         run'.state = s, run'.attempt = run.attempt
  PROVE  Moves(run, run')
BY DEF Moves, Status

LEMMA ParkMoves ==
  ASSUME RunOK(run), run.state = "running",
         NEW i, NEW e, Park(i, e)
  PROVE  Moves(run, run')
BY LiveStays DEF Park, RunOK, RunRow, LiveState

LEMMA HandlerMoves ==
  ASSUME Inv, NEW w \in Worker, Claim(w) \/ Handler(w) \/ Throws(w) \/ Crash(w)
  PROVE  Moves(run, run')
<1>1. RunOK(run)
  BY DEF Inv
<1>2. CASE UNCHANGED run
  BY <1>2 DEF Moves
<1>3. CASE Claim(w)
  BY <1>1, <1>3, LiveStays DEF Claim, Claimable, RunOK, RunRow, LiveState
<1>4. CASE SleepUntil(w)
  BY <1>1, <1>2, <1>4, ParkMoves DEF SleepUntil, Owns
<1>5. CASE AwaitEvent(w)
  <2>1. CASE Owns(w) /\ run' = [run EXCEPT !.wake = NoEvent]
    BY <1>1, <2>1, LiveStays DEF Owns, RunOK, RunRow, LiveState
  <2> QED
    BY <1>1, <1>2, <1>5, <2>1, ParkMoves DEF AwaitEvent, Owns
<1>6. CASE Complete(w) \/ CompleteUnheard(w)
  <2>1. CASE Owns(w) /\ run' = [run EXCEPT !.state = "completed"]
    BY <1>1, <2>1 DEF Owns, RunOK, RunRow, LiveState, Moves, Status
  <2> QED
    BY <1>2, <1>6, <2>1 DEF Complete, CompleteUnheard
<1>7. CASE Fail(w)
  BY <1>1, <1>2, <1>7, FailedRunMoves DEF Fail, LiveState
<1> QED
  BY <1>2, <1>3, <1>4, <1>5, <1>6, <1>7
     DEF Handler, Replay, BeginStep, CompleteStep, TimesOut, ReplyArrives, Throws, Crash

LEMMA StepMoves ==
  ASSUME Inv, [Next]_vars
  PROVE  Moves(run, run')
<1>1. RunOK(run)
  BY DEF Inv
<1>2. CASE UNCHANGED run
  BY <1>2 DEF Moves
<1>3. CASE \E w \in Worker : Claim(w) \/ Handler(w) \/ Throws(w) \/ Crash(w)
  BY <1>3, HandlerMoves
<1>4. ASSUME NEW e \in Event, Emit(e) PROVE Moves(run, run')
  BY <1>1, <1>2, <1>4, LiveStays DEF Emit, RunOK, RunRow, LiveState
<1>5. CASE Spawn
  BY <1>1, <1>5 DEF Spawn, RunOK, RunRow, LiveState, Moves, Status
<1>6. CASE Expire
  BY <1>1, <1>6, FailedRunMoves DEF Expire, LiveState
<1>7. CASE Cancel
  BY <1>1, <1>7 DEF Cancel, Live, RunOK, RunRow, LiveState, Moves, Status
<1> QED
  BY <1>2, <1>3, <1>4, <1>5, <1>6, <1>7 DEF Next, vars, Tick

LEMMA InitMoves == Init => Lifecycle!Init
BY DEF Init, Lifecycle!Init, Live, LiveState

LEMMA MovesAreSteps ==
  ASSUME Moves(run, run')
  PROVE  Lifecycle!Next
BY DEF Moves, Status, Live, Lifecycle!Next, Lifecycle!TaskStep, Lifecycle!Becomes,
       Lifecycle!Spawn, Lifecycle!AttemptAgain, Lifecycle!End, Lifecycle!Ended,
       Lifecycle!Stay

\* To its clients, the task of a replayed handler is one that TaskLifecycle
\* describes: attempted until it ends, once.  In particular a worker that
\* does not hear that it has completed the task does not fail it.
THEOREM ReplayImplementsLifecycle == Spec => ImplementsLifecycle
<1>1. Inv /\ [Next]_vars => Lifecycle!Next
  BY StepMoves, MovesAreSteps
<1> QED
  BY InitMoves, <1>1, Invariance, PTL DEF Spec, ImplementsLifecycle, Lifecycle!Spec
-----------------------------------------------------------------------------
(* Executions that overlap.                                                *)

\* Worker w executes the last attempt, if any, ...
Current(w) == worker[w].attempt = run.attempt

\* ... and can still do something about it.
Works(w) ==
  \/ worker[w].at \in {"handler", "body"}
  \/ worker[w].at = "reply" /\ worker[w].reply # Suspension

AtWork(w) == Works(w) /\ Current(w)

Stored(i) == checkpoint[CheckpointName(i)]

\* An answer on its way is what is recorded.  Null is answered while nothing
\* is, and only a later attempt records something then.
AnswerOK(w) ==
  /\ worker[w].reply = Null =>
       /\ Op(w).kind = "await"
       /\ Current(w) => checkpoint[Key(w)] = Nothing
  /\ worker[w].reply \notin {Suspension, Null} =>
       worker[w].reply # Nothing /\ checkpoint[Key(w)] = worker[w].reply

\* What an execution knows: of the present attempt only that no step is
\* recorded while it is in its body, and of any attempt that what its cache
\* has for the operations to come is recorded.
Standing(w) ==
  /\ worker[w].at # "idle" =>
       run.state # "absent" /\ worker[w].attempt <= run.attempt
  /\ AtWork(w) => run.state \in {"running", "failed", "cancelled"}
  /\ worker[w].at = "body" =>
       /\ Op(w).kind = "step"
       /\ Current(w) => checkpoint[Key(w)] = Nothing
  /\ worker[w].at = "reply" => AnswerOK(w)
  /\ \A i \in Position : i >= worker[w].pc =>
       worker[w].cache[CheckpointName(i)] \in {Nothing, Stored(i)}

\* A run that waits for an event waits at an operation without a result.
ParkedOK ==
  run.state = "sleeping" /\ run.wake # NoEvent =>
    run.parkedAt \in Position /\ Stored(run.parkedAt) = Nothing

\* A step or payload that a handler has seen is recorded.
SeenIsStored ==
  \A i \in Position : seen[i].is \in {"step", "payload"} => Stored(i) = seen[i]

KindsOK == \A i \in Position : Stored(i).is = "step" => Script[i].kind = "step"

OneWorks == \A w, x \in Worker : AtWork(w) /\ AtWork(x) => w = x

StickyInv ==
  /\ Inv
  /\ \A w \in Worker : Standing(w)
  /\ OneWorks /\ ParkedOK /\ SeenIsStored /\ KindsOK

LEMMA Kinds ==
  /\ Deadline.is = "deadline" /\ Payload.is = "payload" /\ Timeout.is = "timeout"
  /\ Null.is = "null" /\ Suspension.is = "suspend" /\ Nothing.is = "nothing"
  /\ \A i, a : StepValue(i, a).is = "step"
BY DEF Deadline, Payload, Timeout, Null, Suspension, Nothing, StepValue

\* Recorded results are never replaced, and attempts go up.
Grows ==
  /\ \A i \in Position : Stored(i) # Nothing => Stored(i)' = Stored(i)
  /\ run.state # "absent" => run'.state # "absent" /\ run'.attempt >= run.attempt

\* What an execution that does not act knows stays true, if the one that
\* does is alone at work or records nothing.
LEMMA OthersStand ==
  ASSUME Inv, Inv', NEW x \in Worker, Standing(x), worker'[x] = worker[x], Grows,
         AtWork(x) => /\ UNCHANGED checkpoint
                      /\ Current(x)' => run'.state \in {"running", "failed", "cancelled"}
  PROVE  Standing(x)' /\ (AtWork(x)' => AtWork(x))
<1>1. /\ worker[x] \in WorkerRow /\ RowOK(worker[x])
      /\ run.attempt \in Nat /\ run'.attempt \in Nat
  BY DEF Inv, RunOK, RunRow
<1>2. worker[x].attempt \in Nat
  BY <1>1 DEF WorkerRow
<1>3. worker[x].at # "idle" => run'.state # "absent" /\ worker[x].attempt <= run'.attempt
  BY <1>1, <1>2 DEF Standing, Grows
<1>4. worker[x].at # "idle" /\ Current(x)' => Current(x)
  BY <1>1, <1>2 DEF Standing, Grows, Current
<1>5. AtWork(x)' => AtWork(x)
  BY <1>4 DEF AtWork, Works
<1>6. AtWork(x)' => run'.state \in {"running", "failed", "cancelled"}
  BY <1>5 DEF AtWork
<1>7. Key(x)' = Key(x) /\ Op(x)' = Op(x)
  BY DEF Key, Op
<1>8. ASSUME worker[x].at = "body"
      PROVE  Op(x)'.kind = "step" /\ (Current(x)' => checkpoint'[Key(x)'] = Nothing)
  BY <1>4, <1>7, <1>8 DEF Standing, AtWork, Works
<1>9. ASSUME worker[x].at = "reply" PROVE AnswerOK(x)'
  <2>1. worker[x].pc \in Position /\ Key(x) = CheckpointName(worker[x].pc)
    BY <1>1, <1>9 DEF RowOK, Key
  <2>2. worker[x].reply = Null => worker[x].reply # Suspension
    BY Kinds
  <2> QED
    BY <1>4, <1>7, <1>9, <2>1, <2>2 DEF Standing, AnswerOK, AtWork, Works, Grows, Stored
<1>10. \A i \in Position : i >= worker'[x].pc =>
         worker'[x].cache[CheckpointName(i)] \in {Nothing, Stored(i)'}
  BY DEF Standing, Grows
<1> QED
  BY <1>3, <1>5, <1>6, <1>8, <1>9, <1>10 DEF Standing

\* A step of nobody's execution: the run moves or an event is emitted.
LEMMA NobodySticks ==
  ASSUME StickyInv, Inv', UNCHANGED <<worker, seen>>, Grows, ParkedOK', KindsOK',
         \A x \in Worker : AtWork(x) =>
           /\ UNCHANGED checkpoint
           /\ Current(x)' => run'.state \in {"running", "failed", "cancelled"}
  PROVE  StickyInv'
<1>1. \A x \in Worker : Standing(x)' /\ (AtWork(x)' => AtWork(x))
  BY OthersStand DEF StickyInv
<1>2. OneWorks'
  BY <1>1 DEF StickyInv, OneWorks
<1>3. SeenIsStored'
  BY Kinds DEF StickyInv, SeenIsStored, Grows
<1> QED
  BY <1>1, <1>2, <1>3 DEF StickyInv

\* A step of an execution.
LEMMA OneSticks ==
  ASSUME StickyInv, Inv', NEW w \in Worker, NEW row, Become(w, row), Grows,
         ParkedOK', SeenIsStored', KindsOK', Standing(w)',
         AtWork(w)' => AtWork(w) \/ \A x \in Worker : ~AtWork(x),
         \A x \in Worker \ {w} : AtWork(x) =>
           /\ UNCHANGED checkpoint
           /\ Current(x)' => run'.state \in {"running", "failed", "cancelled"}
  PROVE  StickyInv'
<1>1. \A x \in Worker \ {w} : worker'[x] = worker[x]
  BY DEF Become, StickyInv, Inv
<1>2. \A x \in Worker \ {w} : Standing(x)' /\ (AtWork(x)' => AtWork(x))
  BY <1>1, OthersStand DEF StickyInv
<1>3. OneWorks'
  BY <1>2 DEF StickyInv, OneWorks
<1> QED
  BY <1>2, <1>3 DEF StickyInv

\* A step that changes neither the run nor the checkpoints.
LEMMA QuietSticks ==
  ASSUME StickyInv, Inv', NEW w \in Worker, NEW row, Become(w, row),
         UNCHANGED <<run, checkpoint>>, SeenIsStored', Standing(w)',
         AtWork(w)' => AtWork(w)
  PROVE  StickyInv'
<1>1. Grows
  BY DEF Grows, Stored, StickyInv, Inv, RunOK, RunRow
<1>2. ParkedOK' /\ KindsOK'
  BY DEF StickyInv, ParkedOK, KindsOK, Stored
<1>3. \A x \in Worker : AtWork(x) => run'.state \in {"running", "failed", "cancelled"}
  BY DEF StickyInv, Standing
<1> QED
  BY <1>1, <1>2, <1>3, OneSticks

\* An execution that ends, or is about to, has nothing to know.
LEMMA EndsStand ==
  ASSUME StickyInv, Inv', NEW w \in Worker, worker[w].at # "idle", Grows,
         Rest(w) \/ Errs(w)
  PROVE  Standing(w)' /\ ~AtWork(w)'
<1>1. /\ worker[w] \in WorkerRow /\ worker[w].attempt \in Nat
      /\ run.attempt \in Nat /\ run'.attempt \in Nat
  BY DEF StickyInv, Inv, RowOK, WorkerRow, RunOK, RunRow
<1>2. CASE Rest(w)
  <2>1. worker'[w] = IdleWorker
    BY <1>2 DEF Rest, Become, StickyInv, Inv
  <2>2. \A i \in Position : IdleWorker.cache[CheckpointName(i)] = Nothing
    BY NamesAreNames DEF IdleWorker, NoCheckpoints
  <2> QED
    BY <2>1, <2>2 DEF Standing, AtWork, Works, IdleWorker
<1>3. CASE Errs(w)
  <2>1. worker'[w] = [worker[w] EXCEPT !.at = "fail"]
    BY <1>3 DEF Errs, Become, StickyInv, Inv
  <2>2. /\ worker'[w].at = "fail" /\ worker'[w].attempt = worker[w].attempt
        /\ worker'[w].pc = worker[w].pc /\ worker'[w].cache = worker[w].cache
    BY <1>1, <2>1 DEF WorkerRow
  <2> QED
    BY <1>1, <2>2 DEF Standing, AtWork, Works, StickyInv, Grows
<1> QED
  BY <1>2, <1>3

LEMMA QuietEndSticks ==
  ASSUME StickyInv, Inv', NEW w \in Worker, worker[w].at # "idle",
         Rest(w) \/ Errs(w), UNCHANGED <<run, checkpoint, seen>>
  PROVE  StickyInv'
<1>1. Grows
  BY DEF Grows, Stored, StickyInv, Inv, RunOK, RunRow
<1>2. SeenIsStored'
  BY DEF StickyInv, SeenIsStored, Stored
<1> QED
  BY <1>1, <1>2, EndsStand, QuietSticks DEF Rest, Errs

\* What a lookup finds is what is recorded.
LEMMA LookupStored ==
  ASSUME StickyInv, NEW w \in Worker, worker[w].pc \in Position
  PROVE  /\ Lookup(w) = Stored(worker[w].pc)
         /\ Key(w) = CheckpointName(worker[w].pc)
<1>1. worker[w].cache[CheckpointName(worker[w].pc)] \in {Nothing, Stored(worker[w].pc)}
  BY DEF StickyInv, Standing, Position
<1> QED
  BY <1>1 DEF Lookup, Key, Stored

\* The cache after an operation knows no more of those to come.
LEMMA CacheStands ==
  ASSUME StickyInv, NEW w \in Worker, worker[w].pc \in Position,
         NEW v, NEW cache,
         cache = [worker[w].cache EXCEPT ![CheckpointName(worker[w].pc)] = v],
         NEW j \in Position, j > worker[w].pc
  PROVE  cache[CheckpointName(j)] \in {Nothing, Stored(j)}
<1>1. CheckpointName(j) # CheckpointName(worker[w].pc)
  BY NamesDiffer DEF Position
<1>2. worker[w].cache[CheckpointName(j)] \in {Nothing, Stored(j)}
  BY DEF StickyInv, Standing, Position
<1>3. CheckpointName(j) \in DOMAIN worker[w].cache
  BY NamesAreNames DEF StickyInv, Inv, RowOK, StoreOK
<1> QED
  BY <1>1, <1>2, <1>3

\* An operation returns a value that is recorded, or null.
LEMMA DeliverSticks ==
  ASSUME StickyInv, Inv', NEW w \in Worker, NEW v, Deliver(w, v),
         worker[w].pc \in Position,
         worker[w].at = "handler" \/ (worker[w].at = "reply" /\ worker[w].reply # Suspension),
         v = Stored(worker[w].pc) \/ v = Null, UNCHANGED <<run, checkpoint>>
  PROVE  StickyInv'
<1> DEFINE i == worker[w].pc
           row == [worker[w] EXCEPT !.at = "handler", !.pc = @ + 1, !.reply = Nothing,
                                    !.cache[Key(w)] = v]
<1>1. worker[w] \in WorkerRow /\ Become(w, row) /\ worker'[w] = row
  BY DEF Deliver, Become, StickyInv, Inv
<1>2. /\ row.at = "handler" /\ row.attempt = worker[w].attempt /\ row.pc = i + 1
      /\ row.cache = [worker[w].cache EXCEPT ![CheckpointName(i)] = v]
  BY <1>1 DEF WorkerRow, Key
<1>3. ASSUME NEW j \in Position, j >= row.pc
      PROVE  row.cache[CheckpointName(j)] \in {Nothing, Stored(j)}
  <2>1. j > i
    BY <1>2, <1>3 DEF Position
  <2> HIDE DEF row
  <2> QED
    BY <1>2, <2>1, CacheStands
<1>4. AtWork(w)' => AtWork(w)
  BY <1>1, <1>2 DEF AtWork, Works, Current
<1>5. Standing(w)'
  <2>1. worker[w].at # "idle"
    OBVIOUS
  <2>2. AtWork(w)' => run'.state \in {"running", "failed", "cancelled"}
    BY <1>4 DEF StickyInv, Standing
  <2> QED
    BY <1>1, <1>2, <1>3, <2>1, <2>2 DEF Standing, StickyInv, Stored
<1>6. SeenIsStored'
  BY Kinds DEF Deliver, SeenIsStored, Stored, StickyInv, Inv, SeenOK
<1> QED
  BY <1>1, <1>4, <1>5, <1>6, QuietSticks

LEMMA ReplaySticks ==
  ASSUME StickyInv, Inv', NEW w \in Worker, Replay(w)
  PROVE  StickyInv'
<1>1. worker[w].pc \in Position /\ worker[w].at = "handler"
  BY DEF Replay, At
<1> QED
  BY <1>1, LookupStored, DeliverSticks DEF Replay

LEMMA BeginStepSticks ==
  ASSUME StickyInv, Inv', NEW w \in Worker, BeginStep(w)
  PROVE  StickyInv'
<1> DEFINE row == [worker[w] EXCEPT !.at = "body"]
<1>1. /\ worker[w] \in WorkerRow /\ worker'[w] = row /\ Become(w, row)
      /\ worker[w].pc \in Position /\ worker[w].at = "handler"
      /\ Op(w).kind = "step" /\ Lookup(w) = Nothing
  BY DEF BeginStep, At, Become, StickyInv, Inv, Op
<1>2. /\ row.at = "body" /\ row.attempt = worker[w].attempt
      /\ row.pc = worker[w].pc /\ row.cache = worker[w].cache
  BY <1>1 DEF WorkerRow
<1>3. checkpoint[Key(w)] = Nothing
  BY <1>1, LookupStored DEF Stored
<1>4. Key(w)' = Key(w) /\ Op(w)' = Op(w)
  BY <1>1, <1>2 DEF Key, Op
<1>5. AtWork(w)' => AtWork(w)
  BY <1>1, <1>2 DEF BeginStep, AtWork, Works, Current
<1>6. Standing(w)'
  BY <1>1, <1>2, <1>3, <1>4, <1>5 DEF BeginStep, Standing, StickyInv, Stored
<1>7. SeenIsStored'
  BY DEF BeginStep, StickyInv, SeenIsStored, Stored
<1> QED
  BY <1>1, <1>5, <1>6, <1>7, QuietSticks DEF BeginStep

LEMMA TimesOutSticks ==
  ASSUME StickyInv, Inv', NEW w \in Worker, TimesOut(w)
  PROVE  StickyInv'
<1> DEFINE i == worker[w].pc
           row == [worker[w] EXCEPT !.pc = @ + 1, !.wake = NoEvent]
<1>1. /\ worker[w] \in WorkerRow /\ worker'[w] = row /\ Become(w, row)
      /\ i \in Position /\ worker[w].at = "handler"
  BY DEF TimesOut, At, Become, StickyInv, Inv
<1>2. /\ row.at = "handler" /\ row.attempt = worker[w].attempt
      /\ row.pc = i + 1 /\ row.cache = worker[w].cache
  BY <1>1 DEF WorkerRow
<1>3. ASSUME NEW j \in Position, j >= row.pc
      PROVE  row.cache[CheckpointName(j)] \in {Nothing, Stored(j)}
  BY <1>1, <1>2, <1>3 DEF StickyInv, Standing, Position
<1>4. AtWork(w)' => AtWork(w)
  BY <1>1, <1>2 DEF TimesOut, AtWork, Works, Current
<1>5. Standing(w)'
  BY <1>1, <1>2, <1>3, <1>4 DEF TimesOut, Standing, StickyInv, Stored
<1>6. SeenIsStored'
  BY Kinds DEF TimesOut, SeenIsStored, Stored, StickyInv, Inv, SeenOK
<1> QED
  BY <1>1, <1>4, <1>5, <1>6, QuietSticks DEF TimesOut

\* The row of an execution that has asked for something.
LEMMA AskingStands ==
  ASSUME StickyInv, Inv', NEW w \in Worker, worker[w].at # "idle",
         worker[w].pc \in Position, NEW v, Replies(w, v), Grows, AnswerOK(w)',
         AtWork(w)' => run'.state \in {"running", "failed", "cancelled"}
  PROVE  Standing(w)' /\ (v = Suspension => ~AtWork(w)')
<1> DEFINE row == [worker[w] EXCEPT !.at = "reply", !.reply = v]
<1>1. worker[w] \in WorkerRow /\ worker'[w] = row
  BY DEF Replies, Become, StickyInv, Inv
<1>2. /\ row.at = "reply" /\ row.attempt = worker[w].attempt /\ row.reply = v
      /\ row.pc = worker[w].pc /\ row.cache = worker[w].cache
  BY <1>1 DEF WorkerRow
<1> HIDE DEF row
<1>3. run.state # "absent" /\ worker[w].attempt <= run.attempt
  BY DEF StickyInv, Standing
<1>4. run'.state # "absent" /\ worker[w].attempt <= run'.attempt
  BY <1>1, <1>3 DEF Grows, StickyInv, Inv, RunOK, RunRow, WorkerRow
<1>5. \A i \in Position : i >= row.pc =>
        row.cache[CheckpointName(i)] \in {Nothing, Stored(i)'}
  BY <1>2 DEF StickyInv, Standing, Grows
<1> QED
  BY <1>1, <1>2, <1>4, <1>5 DEF Standing, AtWork, Works

\* Who is not refused and at work holds the claim.
LEMMA WorkersOwn ==
  ASSUME StickyInv, NEW w \in Worker, Works(w), ~Refused(w)
  PROVE  AtWork(w) /\ run.state = "running"
BY DEF StickyInv, Standing, AtWork, Current, Refused

Records(w, v) ==
  checkpoint' = [checkpoint EXCEPT ![Key(w)] = v] /\ Replies(w, v) /\ UNCHANGED <<run, seen>>

\* An execution records its first result for an operation.
LEMMA RecordSticks ==
  ASSUME StickyInv, Inv', NEW w \in Worker, Works(w), ~Refused(w),
         worker[w].pc \in Position, Stored(worker[w].pc) = Nothing,
         NEW v, v.is \in {"step", "deadline", "payload"},
         v.is = "step" => Op(w).kind = "step",
         Records(w, v)
  PROVE  StickyInv'
<1> DEFINE i == worker[w].pc
<1> USE DEF Records
<1>1. AtWork(w) /\ run.state = "running" /\ worker[w].at # "idle"
  BY WorkersOwn DEF Works
<1>2. \A j \in Position :
        Stored(j)' = IF j = i THEN v ELSE Stored(j)
  BY NamesAreNames, NamesDiffer DEF Stored, Key, StickyInv, Inv, StoreOK
<1>3. Grows
  BY <1>2 DEF Grows, StickyInv, Inv, RunOK, RunRow
<1>4. v \notin {Nothing, Null, Suspension}
  BY Kinds
<1>5. ParkedOK' /\ KindsOK' /\ SeenIsStored'
  <2>1. ParkedOK'
    BY <1>1 DEF ParkedOK
  <2>2. KindsOK'
    BY <1>2 DEF KindsOK, StickyInv, Op
  <2>3. SeenIsStored'
    BY <1>2, Kinds DEF SeenIsStored, StickyInv
  <2> QED
    BY <2>1, <2>2, <2>3
<1>6. worker'[w].reply = v /\ worker'[w].pc = i
  BY DEF Replies, Become, StickyInv, Inv, WorkerRow
<1>7. AnswerOK(w)'
  BY <1>2, <1>4, <1>6 DEF AnswerOK, Key, Stored
<1>8. Standing(w)'
  BY <1>1, <1>3, <1>7, AskingStands
<1>9. \A x \in Worker \ {w} : ~AtWork(x)
  BY <1>1 DEF StickyInv, OneWorks
<1> QED
  BY <1>1, <1>3, <1>5, <1>8, <1>9, OneSticks DEF Replies

LEMMA CompleteStepSticks ==
  ASSUME StickyInv, Inv', NEW w \in Worker, CompleteStep(w)
  PROVE  StickyInv'
<1> DEFINE i == worker[w].pc
           v == StepValue(i, worker[w].attempt)
<1>1. /\ worker[w].at = "body" /\ i \in Position /\ Works(w)
      /\ UNCHANGED <<run, seen>>
  BY DEF CompleteStep, StickyInv, Inv, RowOK, Works
<1>2. CASE Refused(w)
  BY <1>1, <1>2, QuietEndSticks DEF CompleteStep
<1>3. CASE ~Refused(w)
  <2>1. Records(w, v)
    BY <1>1, <1>3 DEF CompleteStep, Records
  <2>2. Stored(i) = Nothing /\ Op(w).kind = "step"
    BY <1>1, <1>3, WorkersOwn DEF StickyInv, Standing, AtWork, Stored, Key
  <2>3. v.is = "step"
    BY Kinds
  <2> HIDE DEF v
  <2> QED
    BY <1>1, <1>3, <2>1, <2>2, <2>3, RecordSticks
<1> QED
  BY <1>2, <1>3

\* The claim is given back, with or without an event to wait for.
LEMMA ParkSticks ==
  ASSUME StickyInv, Inv', NEW w \in Worker, AtWork(w), run.state = "running",
         worker[w].pc \in Position, NEW e, Park(worker[w].pc, e),
         e # NoEvent => Stored(worker[w].pc) = Nothing,
         Replies(w, Suspension), UNCHANGED <<checkpoint, seen>>
  PROVE  StickyInv'
<1>1. /\ run'.state = "sleeping" /\ run'.wake = e /\ run'.parkedAt = worker[w].pc
      /\ run'.attempt = run.attempt /\ run.attempt \in Nat
  BY DEF Park, StickyInv, Inv, RunOK, RunRow
<1>2. Grows
  BY <1>1 DEF Grows, Stored
<1>3. ParkedOK' /\ KindsOK' /\ SeenIsStored'
  BY <1>1 DEF ParkedOK, KindsOK, SeenIsStored, Stored, StickyInv
<1>4. worker'[w].reply = Suspension /\ worker'[w].at = "reply"
  BY DEF Replies, Become, StickyInv, Inv, WorkerRow
<1>5. ~AtWork(w)'
  BY <1>4 DEF AtWork, Works
<1>6. AnswerOK(w)'
  BY <1>4, Kinds DEF AnswerOK
<1>7. Standing(w)'
  BY <1>2, <1>5, <1>6, AskingStands DEF AtWork, Works
<1>8. \A x \in Worker \ {w} : ~AtWork(x)
  BY DEF StickyInv, OneWorks
<1> QED
  BY <1>2, <1>3, <1>5, <1>7, <1>8, OneSticks DEF Replies

LEMMA SleepUntilSticks ==
  ASSUME StickyInv, Inv', NEW w \in Worker, SleepUntil(w)
  PROVE  StickyInv'
<1>1. /\ worker[w].pc \in Position /\ worker[w].at = "handler"
      /\ Works(w) /\ Lookup(w) = Stored(worker[w].pc)
  BY LookupStored DEF SleepUntil, At, Works
<1>2. CASE Lookup(w) = Nothing /\ Refused(w)
  BY <1>1, <1>2, QuietEndSticks DEF SleepUntil
<1>3. CASE Lookup(w) = Nothing /\ ~Refused(w)
  <2>1. Records(w, Deadline)
    BY <1>3 DEF SleepUntil, Records
  <2>2. Deadline.is \in {"step", "deadline", "payload"} /\ Deadline.is # "step"
    BY Kinds
  <2>3. Stored(worker[w].pc) = Nothing
    BY <1>1, <1>3
  <2> QED
    BY <1>1, <1>3, <2>1, <2>2, <2>3, RecordSticks
<1>4. CASE Lookup(w) # Nothing /\ worker[w].pc \in due
  BY <1>1, <1>4, DeliverSticks DEF SleepUntil
<1>5. CASE Lookup(w) # Nothing /\ worker[w].pc \notin due /\ Owns(w)
  <2>1. AtWork(w) /\ run.state = "running"
    BY <1>1, <1>5 DEF AtWork, Current, Owns
  <2>2. Park(worker[w].pc, NoEvent) /\ Replies(w, Suspension) /\ UNCHANGED <<checkpoint, seen>>
    BY <1>5 DEF SleepUntil
  <2> QED
    BY <1>1, <2>1, <2>2, ParkSticks
<1>6. CASE Lookup(w) # Nothing /\ worker[w].pc \notin due /\ ~Owns(w)
  BY <1>1, <1>6, QuietEndSticks DEF SleepUntil
<1> QED
  BY <1>2, <1>3, <1>4, <1>5, <1>6

\* Null is answered for an event that nobody has emitted.
LEMMA NullSticks ==
  ASSUME StickyInv, Inv', NEW w \in Worker, AtWork(w), run.state = "running",
         worker[w].pc \in Position, Stored(worker[w].pc) = Nothing,
         Op(w).kind = "await", run' = [run EXCEPT !.wake = NoEvent],
         Replies(w, Null), UNCHANGED <<checkpoint, seen>>
  PROVE  StickyInv'
<1>1. /\ run'.state = "running" /\ run'.attempt = run.attempt /\ run.attempt \in Nat
  BY DEF StickyInv, Inv, RunOK, RunRow
<1>2. Grows
  BY <1>1 DEF Grows, Stored
<1>3. ParkedOK' /\ KindsOK' /\ SeenIsStored'
  BY <1>1 DEF ParkedOK, KindsOK, SeenIsStored, Stored, StickyInv
<1>4. /\ worker'[w].reply = Null /\ worker'[w].pc = worker[w].pc
      /\ Op(w)' = Op(w) /\ Key(w)' = Key(w)
  BY DEF Replies, Become, StickyInv, Inv, WorkerRow, Op, Key
<1>5. AnswerOK(w)'
  BY <1>4 DEF AnswerOK, Stored, Key
<1>6. Standing(w)'
  BY <1>1, <1>2, <1>5, AskingStands DEF AtWork, Works
<1>7. \A x \in Worker \ {w} : ~AtWork(x)
  BY DEF StickyInv, OneWorks
<1> QED
  BY <1>2, <1>3, <1>6, <1>7, OneSticks DEF Replies

LEMMA AwaitEventSticks ==
  ASSUME StickyInv, Inv', NEW w \in Worker, AwaitEvent(w)
  PROVE  StickyInv'
<1>1. /\ worker[w].pc \in Position /\ worker[w].at = "handler"
      /\ Works(w) /\ Stored(worker[w].pc) = Nothing /\ UNCHANGED seen
      /\ Op(w).kind = "await"
  BY LookupStored DEF AwaitEvent, At, Op, Works
<1>2. CASE (Rest(w) \/ Errs(w)) /\ UNCHANGED <<run, checkpoint>>
  BY <1>1, <1>2, QuietEndSticks
<1>3. CASE Owns(w)
  <2>1. AtWork(w) /\ run.state = "running" /\ ~Refused(w)
    BY <1>1, <1>3 DEF AtWork, Current, Owns, Refused
  <2>2. CASE Op(w).name \in emitted
    <3>1. Records(w, Payload)
      BY <1>1, <1>3, <2>1, <2>2 DEF AwaitEvent, Records, Owns
    <3>2. Payload.is = "payload"
      BY Kinds
    <3> QED
      BY <1>1, <2>1, <3>1, <3>2, RecordSticks
  <2>3. CASE Op(w).name \notin emitted /\ run.wake = Op(w).name
    BY <1>1, <1>3, <2>1, <2>3, NullSticks DEF AwaitEvent
  <2>4. CASE Op(w).name \notin emitted /\ run.wake # Op(w).name
    BY <1>1, <1>3, <2>1, <2>4, ParkSticks DEF AwaitEvent
  <2> QED
    BY <2>2, <2>3, <2>4
<1> QED
  BY <1>2, <1>3 DEF AwaitEvent

LEMMA ReplyArrivesSticks ==
  ASSUME StickyInv, Inv', NEW w \in Worker, ReplyArrives(w)
  PROVE  StickyInv'
<1> DEFINE i == worker[w].pc
           v == worker[w].reply
<1>1. /\ worker[w].at = "reply" /\ i \in Position /\ AnswerOK(w)
      /\ UNCHANGED <<run, checkpoint>>
  BY DEF ReplyArrives, StickyInv, Inv, RowOK, Standing
<1>2. CASE v = Suspension
  <2>1. Rest(w) /\ UNCHANGED seen
    BY <1>2, Kinds DEF ReplyArrives
  <2> QED
    BY <1>1, <2>1, QuietEndSticks
<1>3. CASE v = Deadline
  <2> DEFINE cache == [worker[w].cache EXCEPT ![Key(w)] = Deadline]
             row == [worker[w] EXCEPT !.at = "handler", !.reply = Nothing,
                                      !.cache[Key(w)] = Deadline]
  <2>1. /\ worker[w] \in WorkerRow /\ worker'[w] = row /\ Become(w, row) /\ UNCHANGED seen
    BY <1>3, Kinds DEF ReplyArrives, Become, StickyInv, Inv
  <2>2. /\ row.at = "handler" /\ row.attempt = worker[w].attempt /\ row.pc = i
        /\ row.cache = cache
    BY <2>1 DEF WorkerRow
  <2> HIDE DEF row
  <2>3. Stored(i) = Deadline
    BY <1>1, <1>3, Kinds DEF AnswerOK, Stored, Key
  <2>4. ASSUME NEW j \in Position, j >= i
        PROVE  cache[CheckpointName(j)] \in {Nothing, Stored(j)}
    <3>1. CASE j = i
      <4>1. Key(w) = CheckpointName(i) /\ Key(w) \in DOMAIN worker[w].cache
        BY <1>1, NamesAreNames DEF StickyInv, Inv, RowOK, StoreOK, Key
      <4>2. cache[CheckpointName(j)] = Deadline
        BY <3>1, <4>1
      <4> QED
        BY <2>3, <3>1, <4>2
    <3>2. CASE j # i
      <4>1. j > i
        BY <1>1, <2>4, <3>2 DEF Position
      <4>2. cache = [worker[w].cache EXCEPT ![CheckpointName(i)] = Deadline]
        BY DEF Key
      <4> HIDE DEF cache
      <4> QED
        BY <1>1, <4>1, <4>2, CacheStands
    <3> QED
      BY <3>1, <3>2
  <2>5. AtWork(w)' => AtWork(w)
    BY <1>1, <1>3, <2>1, <2>2, Kinds DEF AtWork, Works, Current
  <2> HIDE DEF cache
  <2>6. Standing(w)'
    BY <1>1, <2>1, <2>2, <2>4, <2>5 DEF Standing, StickyInv, Stored
  <2>7. SeenIsStored'
    BY <1>1, <2>1 DEF StickyInv, SeenIsStored, Stored
  <2> QED
    BY <1>1, <2>1, <2>5, <2>6, <2>7, QuietSticks
<1>4. CASE v \notin {Suspension, Deadline}
  <2>1. Deliver(w, v)
    BY <1>4 DEF ReplyArrives
  <2>2. v = Stored(i) \/ v = Null
    BY <1>1, <1>4 DEF AnswerOK, Stored, Key
  <2> QED
    BY <1>1, <1>4, <2>1, <2>2, DeliverSticks
<1> QED
  BY <1>2, <1>3, <1>4

LEMMA ThrowsSticks ==
  ASSUME StickyInv, Inv', NEW w \in Worker, Throws(w) \/ Crash(w)
  PROVE  StickyInv'
<1>1. worker[w].at # "idle"
  BY DEF Throws, Crash
<1> QED
  BY <1>1, QuietEndSticks DEF Throws, Crash

LEMMA CompleteSticks ==
  ASSUME StickyInv, Inv', NEW w \in Worker, Complete(w) \/ CompleteUnheard(w)
  PROVE  StickyInv'
<1>1. /\ worker[w].at = "handler" /\ Works(w)
      /\ UNCHANGED <<checkpoint, seen>> /\ (Rest(w) \/ Errs(w))
  BY DEF Complete, CompleteUnheard, Works
<1>2. CASE UNCHANGED run
  BY <1>1, <1>2, QuietEndSticks
<1>3. CASE Owns(w) /\ run' = [run EXCEPT !.state = "completed"]
  <2>1. /\ run'.state = "completed" /\ run'.attempt = run.attempt /\ run.attempt \in Nat
    BY <1>3 DEF StickyInv, Inv, RunOK, RunRow
  <2>2. Grows
    BY <1>1, <2>1 DEF Grows, Stored
  <2>3. ParkedOK' /\ KindsOK' /\ SeenIsStored'
    BY <1>1, <2>1 DEF ParkedOK, KindsOK, SeenIsStored, Stored, StickyInv
  <2>4. Standing(w)' /\ ~AtWork(w)'
    BY <1>1, <2>2, EndsStand
  <2>5. \A x \in Worker \ {w} : ~AtWork(x)
    BY <1>1, <1>3 DEF StickyInv, OneWorks, AtWork, Current, Owns
  <2> QED
    BY <1>1, <2>2, <2>3, <2>4, <2>5, OneSticks DEF Rest, Errs
<1> QED
  BY <1>1, <1>2, <1>3 DEF Complete, CompleteUnheard

\* A failed run has a successor, or stays with its attempt.
LEMMA FailedRunGoesOn ==
  ASSUME Inv, run.state # "absent", run' = FailedRun, UNCHANGED checkpoint
  PROVE  /\ Grows
         /\ run'.state # "sleeping"
         /\ \A x \in Worker : worker[x].attempt <= run.attempt /\ worker[x].attempt = run'.attempt
              => run'.state = "failed"
<1>1. run \in RunRow /\ run.attempt \in Nat /\ \A x \in Worker : worker[x].attempt \in Nat
  BY DEF Inv, RunOK, RunRow, WorkerRow
<1>2. CASE run.attempt < MaxAttempts
  <2>1. run'.state = "pending" /\ run'.attempt = run.attempt + 1
    BY <1>2 DEF FailedRun
  <2> QED
    BY <1>1, <2>1 DEF Grows, Stored
<1>3. CASE ~(run.attempt < MaxAttempts)
  <2>1. run'.state = "failed" /\ run'.attempt = run.attempt
    BY <1>1, <1>3 DEF FailedRun, RunRow
  <2> QED
    BY <1>1, <2>1 DEF Grows, Stored
<1> QED
  BY <1>2, <1>3

LEMMA FailSticks ==
  ASSUME StickyInv, Inv', NEW w \in Worker, Fail(w)
  PROVE  StickyInv'
<1>1. worker[w].at = "fail" /\ Rest(w) /\ UNCHANGED <<checkpoint, seen>>
  BY DEF Fail
<1>2. CASE UNCHANGED run
  BY <1>1, <1>2, QuietEndSticks
<1>3. CASE run.state # "absent" /\ run' = FailedRun
  <2>1. Grows /\ run'.state # "sleeping"
    BY <1>1, <1>3, FailedRunGoesOn DEF StickyInv
  <2>2. ParkedOK' /\ KindsOK' /\ SeenIsStored'
    BY <1>1, <2>1 DEF ParkedOK, KindsOK, SeenIsStored, Stored, StickyInv
  <2>3. Standing(w)' /\ ~AtWork(w)'
    BY <1>1, <2>1, EndsStand
  <2>4. \A x \in Worker \ {w} : AtWork(x) /\ Current(x)' => run'.state = "failed"
    <3> SUFFICES ASSUME NEW x \in Worker \ {w}, AtWork(x), Current(x)'
                 PROVE  run'.state = "failed"
      OBVIOUS
    <3>1. worker'[x] = worker[x]
      BY <1>1 DEF Rest, Become, StickyInv, Inv
    <3>2. worker[x].attempt <= run.attempt /\ worker[x].attempt = run'.attempt
      BY <3>1 DEF StickyInv, Standing, AtWork, Works, Current
    <3> QED
      BY <1>1, <1>3, <3>2, FailedRunGoesOn DEF StickyInv
  <2> QED
    BY <1>1, <2>1, <2>2, <2>3, <2>4, OneSticks DEF Rest
<1> QED
  BY <1>2, <1>3 DEF Fail

LEMMA ClaimSticks ==
  ASSUME StickyInv, Inv', NEW w \in Worker, Claim(w)
  PROVE  StickyInv'
<1> DEFINE row == [IdleWorker EXCEPT !.at = "handler", !.attempt = run.attempt,
                                     !.wake = run.wake, !.cache = checkpoint]
<1>1. /\ run.state \in {"pending", "sleeping"} /\ Become(w, row) /\ worker'[w] = row
      /\ UNCHANGED <<checkpoint, seen>>
  BY DEF Claim, Claimable, Become, StickyInv, Inv
<1>2. /\ run'.state = "running" /\ run'.attempt = run.attempt /\ run.attempt \in Nat
  BY DEF Claim, StickyInv, Inv, RunOK, RunRow
<1>3. row.at = "handler" /\ row.attempt = run.attempt /\ row.cache = checkpoint
  BY DEF IdleWorker
<1> HIDE DEF row
<1>4. Grows
  BY <1>1, <1>2 DEF Grows, Stored
<1>5. ParkedOK' /\ KindsOK' /\ SeenIsStored'
  BY <1>1, <1>2 DEF ParkedOK, KindsOK, SeenIsStored, Stored, StickyInv
<1>6. Standing(w)'
  BY <1>1, <1>2, <1>3 DEF Standing, AtWork, Works, Stored
<1>7. \A x \in Worker : ~AtWork(x)
  BY <1>1 DEF StickyInv, Standing
<1> QED
  BY <1>1, <1>4, <1>5, <1>6, <1>7, OneSticks

LEMMA EmitSticks ==
  ASSUME StickyInv, Inv', NEW e \in Event, Emit(e)
  PROVE  StickyInv'
<1>1. UNCHANGED <<worker, seen>>
  BY DEF Emit
<1>2. CASE UNCHANGED <<run, checkpoint>>
  <2>1. Grows
    BY <1>2 DEF Grows, Stored, StickyInv, Inv, RunOK, RunRow
  <2>2. ParkedOK' /\ KindsOK'
    BY <1>2 DEF ParkedOK, KindsOK, Stored, StickyInv
  <2>3. \A x \in Worker : AtWork(x) => run'.state \in {"running", "failed", "cancelled"}
    BY <1>2 DEF StickyInv, Standing
  <2> QED
    BY <1>1, <1>2, <2>1, <2>2, <2>3, NobodySticks
<1>3. CASE /\ run.state = "sleeping" /\ run.wake = e
           /\ run' = [run EXCEPT !.state = "pending", !.wake = NoEvent, !.parkedAt = 0]
           /\ checkpoint' = [checkpoint EXCEPT ![CheckpointName(run.parkedAt)] = Payload]
  <2>1. run.parkedAt \in Position /\ Stored(run.parkedAt) = Nothing
    BY <1>3 DEF StickyInv, ParkedOK
  <2>2. \A j \in Position :
          Stored(j)' = IF j = run.parkedAt THEN Payload ELSE Stored(j)
    BY <1>3, <2>1, NamesAreNames, NamesDiffer DEF Stored, StickyInv, Inv, StoreOK
  <2>3. /\ run'.state = "pending" /\ run'.attempt = run.attempt /\ run.attempt \in Nat
    BY <1>3 DEF StickyInv, Inv, RunOK, RunRow
  <2>4. Grows
    BY <2>1, <2>2, <2>3 DEF Grows
  <2>5. ParkedOK'
    BY <2>3 DEF ParkedOK
  <2>6. KindsOK'
    BY <2>2, Kinds DEF KindsOK, StickyInv
  <2>7. \A x \in Worker : ~AtWork(x)
    BY <1>3 DEF StickyInv, Standing
  <2> QED
    BY <1>1, <2>4, <2>5, <2>6, <2>7, NobodySticks
<1> QED
  BY <1>2, <1>3 DEF Emit

LEMMA OthersStick ==
  ASSUME StickyInv, Inv', Spawn \/ Expire \/ Cancel
  PROVE  StickyInv'
<1>1. UNCHANGED <<checkpoint, worker, seen>>
  BY DEF Spawn, Expire, Cancel
<1>2. KindsOK'
  BY <1>1 DEF KindsOK, Stored, StickyInv
<1>3. run \in RunRow /\ run.attempt \in Nat /\ run.attempt <= MaxAttempts
  BY DEF StickyInv, Inv, RunOK, RunRow
<1>4. CASE Spawn
  <2>1. run'.state = "pending" /\ run'.attempt = 1 /\ run.state = "absent"
    BY <1>3, <1>4 DEF Spawn, RunRow
  <2>2. Grows /\ ParkedOK'
    BY <1>1, <2>1 DEF Grows, Stored, ParkedOK
  <2>3. \A x \in Worker : ~AtWork(x)
    BY <2>1 DEF StickyInv, Standing, AtWork, Works
  <2> QED
    BY <1>1, <1>2, <2>2, <2>3, NobodySticks
<1>5. CASE Expire
  <2>1. Grows /\ run'.state # "sleeping"
    BY <1>1, <1>5, FailedRunGoesOn DEF StickyInv, Expire
  <2>2. ParkedOK'
    BY <2>1 DEF ParkedOK
  <2>3. \A x \in Worker : AtWork(x) /\ Current(x)' => run'.state = "failed"
    <3> SUFFICES ASSUME NEW x \in Worker, AtWork(x), Current(x)'
                 PROVE  run'.state = "failed"
      OBVIOUS
    <3>1. worker[x].attempt <= run.attempt /\ worker[x].attempt = run'.attempt
      BY <1>1 DEF StickyInv, Standing, AtWork, Works, Current
    <3> QED
      BY <1>1, <1>5, <3>1, FailedRunGoesOn DEF StickyInv, Expire
  <2> QED
    BY <1>1, <1>2, <2>1, <2>2, <2>3, NobodySticks
<1>6. CASE Cancel
  <2>1. run'.state = "cancelled" /\ run'.attempt = run.attempt
    BY <1>3, <1>6 DEF Cancel, RunRow
  <2>2. Grows /\ ParkedOK'
    BY <1>1, <1>3, <2>1 DEF Grows, Stored, ParkedOK
  <2> QED
    BY <1>1, <1>2, <2>1, <2>2, NobodySticks
<1> QED
  BY <1>4, <1>5, <1>6

LEMMA TickSticks ==
  ASSUME StickyInv, Inv', UNCHANGED <<run, checkpoint, worker, seen>>
  PROVE  StickyInv'
<1>1. Grows /\ ParkedOK' /\ KindsOK'
  BY DEF Grows, Stored, ParkedOK, KindsOK, StickyInv, Inv, RunOK, RunRow
<1>2. \A x \in Worker : AtWork(x) => run'.state \in {"running", "failed", "cancelled"}
  BY DEF StickyInv, Standing
<1> QED
  BY <1>1, <1>2, NobodySticks

LEMMA InitSticks == Init => StickyInv
<1> SUFFICES ASSUME Init PROVE StickyInv
  OBVIOUS
<1>1. \A i \in Position : Stored(i) = Nothing
  BY NamesAreNames DEF Init, Stored, NoCheckpoints
<1>2. \A w \in Worker : /\ worker[w] = IdleWorker /\ worker[w].at = "idle"
                        /\ \A i \in Position : worker[w].cache[CheckpointName(i)] = Nothing
  BY NamesAreNames DEF Init, IdleWorker, NoCheckpoints
<1>3. \A w \in Worker : Standing(w) /\ ~AtWork(w)
  BY <1>2 DEF Standing, AtWork, Works
<1>4. ParkedOK /\ SeenIsStored /\ KindsOK
  BY <1>1, Kinds DEF Init, ParkedOK, SeenIsStored, KindsOK
<1> QED
  BY <1>3, <1>4, InitOK DEF StickyInv, OneWorks

LEMMA NextSticks == StickyInv /\ [Next]_vars => StickyInv'
<1> SUFFICES ASSUME StickyInv, [Next]_vars PROVE StickyInv'
  OBVIOUS
<1>0. Inv'
  BY NextOK DEF StickyInv
<1>1. CASE UNCHANGED vars
  BY <1>0, <1>1, TickSticks DEF vars
<1>2. CASE \E w \in Worker : Claim(w) \/ Handler(w) \/ Throws(w) \/ Crash(w)
  <2> PICK w \in Worker : Claim(w) \/ Handler(w) \/ Throws(w) \/ Crash(w)
    BY <1>2
  <2> QED
    BY <1>0, ClaimSticks, ReplaySticks, BeginStepSticks, CompleteStepSticks,
       SleepUntilSticks, TimesOutSticks, AwaitEventSticks, ReplyArrivesSticks,
       ThrowsSticks, CompleteSticks, FailSticks DEF Handler
<1>3. CASE \E e \in Event : Emit(e)
  BY <1>0, <1>3, EmitSticks
<1>4. CASE \E i \in Position : Tick(i)
  BY <1>0, <1>4, TickSticks DEF Tick
<1>5. CASE Spawn \/ Expire \/ Cancel
  BY <1>0, <1>5, OthersStick
<1> QED
  BY <1>1, <1>2, <1>3, <1>4, <1>5 DEF Next

LEMMA Sticking == Spec => []StickyInv
BY InitSticks, NextSticks, PTL DEF Spec

\* The step of ValuesAreSticky.
SameAgain ==
  \A i \in Position :
    \/ seen'[i] = seen[i]
    \/ seen[i].is \notin {"step", "payload"}
    \/ /\ seen[i] = Payload /\ seen'[i] = Null
       /\ \E w \in Worker : worker'[w] # worker[w] /\ worker[w].attempt < run.attempt

\* A null that overtakes a payload is of an earlier attempt.
LEMMA NullIsStale ==
  ASSUME StickyInv, NEW w \in Worker, Deliver(w, Null), worker[w].pc \in Position,
         worker[w].at = "reply", worker[w].reply = Null
  PROVE  SameAgain
<1> DEFINE i == worker[w].pc
<1>1. SUFFICES ASSUME seen[i].is \in {"step", "payload"}
               PROVE  /\ seen[i] = Payload /\ seen'[i] = Null
                      /\ worker'[w] # worker[w] /\ worker[w].attempt < run.attempt
  BY DEF SameAgain, Deliver, StickyInv, Inv, SeenOK
<1>2. AnswerOK(w) /\ worker[w].attempt <= run.attempt
  BY DEF StickyInv, Standing
<1>3. Stored(i) = seen[i] /\ Stored(i) # Nothing /\ Op(w).kind = "await"
  BY <1>1, <1>2, Kinds DEF StickyInv, SeenIsStored, AnswerOK
<1>4. ~Current(w)
  BY <1>2, <1>3 DEF AnswerOK, Stored, Key
<1>5. worker[w].attempt < run.attempt
  BY <1>2, <1>4 DEF Current, StickyInv, Inv, WorkerRow, RunOK, RunRow
<1>6. seen[i].is = "payload"
  BY <1>1, <1>3 DEF StickyInv, KindsOK, Op
<1>7. seen[i] = Payload
  BY <1>6, Kinds DEF StickyInv, Inv, SeenOK, Value
<1>8. seen'[i] = Null /\ worker'[w].at = "handler"
  BY DEF Deliver, Become, StickyInv, Inv, SeenOK, WorkerRow
<1> QED
  BY <1>5, <1>7, <1>8

\* Any other answer is what is recorded, as what has been seen is.
LEMMA StoredIsSame ==
  ASSUME StickyInv, NEW w \in Worker, NEW v, Deliver(w, v), worker[w].pc \in Position,
         v = Stored(worker[w].pc)
  PROVE  SameAgain
BY DEF SameAgain, Deliver, StickyInv, Inv, SeenOK, SeenIsStored

LEMMA NextSame == StickyInv /\ [Next]_vars => SameAgain
<1> SUFFICES ASSUME StickyInv, [Next]_vars PROVE SameAgain
  OBVIOUS
<1>1. CASE UNCHANGED seen
  BY <1>1 DEF SameAgain
<1>2. ASSUME NEW w \in Worker, Replay(w) PROVE SameAgain
  BY <1>2, LookupStored, StoredIsSame DEF Replay, At
<1>3. ASSUME NEW w \in Worker, SleepUntil(w) PROVE SameAgain
  <2>1. worker[w].pc \in Position
    BY <1>3 DEF SleepUntil, At
  <2>2. UNCHANGED seen \/ Deliver(w, Lookup(w))
    BY <1>3 DEF SleepUntil
  <2> QED
    BY <1>1, <2>1, <2>2, LookupStored, StoredIsSame
<1>4. ASSUME NEW w \in Worker, TimesOut(w) PROVE SameAgain
  <2>1. worker[w].pc \in Position /\ Stored(worker[w].pc) = Nothing
    BY <1>4, LookupStored DEF TimesOut, At
  <2>2. seen[worker[w].pc].is \notin {"step", "payload"}
    BY <2>1, Kinds DEF StickyInv, SeenIsStored
  <2> QED
    BY <1>4, <2>1, <2>2 DEF TimesOut, SameAgain, StickyInv, Inv, SeenOK
<1>5. ASSUME NEW w \in Worker, ReplyArrives(w) PROVE SameAgain
  <2>1. worker[w].at = "reply" /\ worker[w].pc \in Position /\ AnswerOK(w)
    BY <1>5 DEF ReplyArrives, StickyInv, Inv, RowOK, Standing
  <2>2. CASE worker[w].reply = Null
    BY <1>5, <2>1, <2>2, Kinds, NullIsStale DEF ReplyArrives
  <2>3. CASE worker[w].reply # Null
    <3>1. UNCHANGED seen \/ Deliver(w, worker[w].reply)
      BY <1>5 DEF ReplyArrives
    <3>2. UNCHANGED seen \/ worker[w].reply = Stored(worker[w].pc)
      BY <1>5, <2>1, <2>3 DEF ReplyArrives, AnswerOK, Stored, Key
    <3> QED
      BY <1>1, <2>1, <3>1, <3>2, StoredIsSame
  <2> QED
    BY <2>2, <2>3
<1>6. CASE \E w \in Worker : Claim(w) \/ Handler(w) \/ Throws(w) \/ Crash(w)
  <2> PICK w \in Worker : Claim(w) \/ Handler(w) \/ Throws(w) \/ Crash(w)
    BY <1>6
  <2>1. CASE Claim(w) \/ Throws(w) \/ Crash(w) \/ BeginStep(w) \/ CompleteStep(w)
             \/ AwaitEvent(w) \/ Complete(w) \/ CompleteUnheard(w) \/ Fail(w)
    BY <1>1, <2>1 DEF Claim, Throws, Crash, BeginStep, CompleteStep, AwaitEvent,
                      Complete, CompleteUnheard, Fail
  <2> QED
    BY <1>2, <1>3, <1>4, <1>5, <2>1 DEF Handler
<1>7. CASE UNCHANGED vars
  BY <1>1, <1>7 DEF vars
<1>8. CASE \/ \E e \in Event : Emit(e)
           \/ \E i \in Position : Tick(i)
           \/ Spawn \/ Expire \/ Cancel
  BY <1>1, <1>8 DEF Emit, Tick, Spawn, Expire, Cancel
<1> QED
  BY <1>6, <1>7, <1>8 DEF Next

\* However many executions of the task overlap, an operation that has
\* returned a recorded result returns the same to all, but for a wait of an
\* earlier attempt that was answered null before its event was emitted
\* (TaskContext.create and lookupCheckpoint against completeStep, awaitEvent).
\* A run that fails within its call of set_task_checkpoint_state is left to
\* CheckpointsAreKept of TaskTransactions.
THEOREM StepsReturnTheSame == Spec => ValuesAreSticky
<1>1. StickyInv /\ [Next]_vars => [SameAgain]_seen
  BY NextSame
<1> QED
  BY <1>1, Sticking, PTL DEF Spec, ValuesAreSticky, SameAgain

=============================================================================

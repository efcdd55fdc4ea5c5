------------------------- MODULE EffectWorkerProofs -------------------------
(***************************************************************************)
(* For any number of tasks, processes, steps and attempts and any lease:   *)
(* what the watchdog of the Effect worker bounds, what a completed task's  *)
(* result rests on, and that a task keeps to TaskLifecycle.                *)
(***************************************************************************)
EXTENDS EffectWorker, FiniteSetTheorems, SequenceTheorems, TLAPS

LEMMA Numbers ==
  /\ Lease \in Nat \ {0} /\ MaxAttempts \in Nat \ {0} /\ Steps \in Nat
  /\ Attempt \subseteq Nat
BY WorkerAssumption DEF Attempt

-----------------------------------------------------------------------------
(* Types.                                                                  *)

Used == UNION {[1 .. n -> Attempt] : n \in 0 .. Steps}

LEMMA UsedIsSequence ==
  ASSUME NEW u \in Used
  PROVE  /\ Len(u) \in 0 .. Steps
         /\ DOMAIN u = 1 .. Len(u)
         /\ \A s \in 1 .. Len(u) : u[s] \in Attempt
<1>1. PICK n \in 0 .. Steps : u \in [1 .. n -> Attempt]
  BY DEF Used
<1>2. Len(u) = n
  BY <1>1, Numbers
<1> QED
  BY <1>1, <1>2

LEMMA UsedGrows ==
  ASSUME NEW u \in Used, NEW a \in Attempt, Len(u) < Steps
  PROVE  /\ Append(u, a) \in Used
         /\ Len(Append(u, a)) = Len(u) + 1
         /\ \A s \in 1 .. Len(u) : Append(u, a)[s] = u[s]
         /\ Append(u, a)[Len(u) + 1] = a
<1>1. PICK n \in 0 .. Steps : u \in [1 .. n -> Attempt]
  BY DEF Used
<1>2. u \in Seq(Attempt) /\ Len(u) = n /\ n \in Nat /\ n < Steps
  BY <1>1, Numbers
<1>3. Append(u, a) \in [1 .. n + 1 -> Attempt]
  BY <1>2, AppendProperties, LenProperties
<1>4. n + 1 \in 0 .. Steps
  BY <1>2, Numbers
<1>5. Append(u, a) \in Used
  BY <1>3, <1>4 DEF Used
<1>6. Len(Append(u, a)) = Len(u) + 1 /\ Append(u, a)[Len(u) + 1] = a
  BY <1>2
<1>7. \A s \in 1 .. Len(u) : Append(u, a)[s] = u[s]
  BY <1>2
<1> QED
  BY <1>5, <1>6, <1>7

LEMMA FailedIsRow ==
  ASSUME NEW row \in RunRow
  PROVE  /\ Failed(row) \in RunRow
         /\ Failed(row).state \in {"pending", "failed"}
         /\ Failed(row).state = "pending" => Failed(row).attempt = row.attempt + 1
         /\ Failed(row).state = "failed" => Failed(row).attempt = row.attempt
<1>1. row.attempt \in Attempt /\ 0 \in 0 .. Lease
  BY Numbers DEF RunRow
<1>2. CASE row.attempt < MaxAttempts
  <2>1. row.attempt + 1 \in Attempt
    BY <1>1, <1>2, Numbers DEF Attempt
  <2> QED
    BY <1>1, <1>2, <2>1 DEF Failed, RunRow
<1>3. CASE ~(row.attempt < MaxAttempts)
  BY <1>1, <1>3 DEF Failed, RunRow
<1> QED
  BY <1>2, <1>3

-----------------------------------------------------------------------------
(* The inductive invariant.                                                *)

Current(e) == e.attempt = run[e.task].attempt

\* An execution is of the last run of its task, or of an earlier one.
NoneIsAhead ==
  \A p \in Process : \A e \in exec[p] : e.attempt <= run[e.task].attempt

\* A run is executed once.
OneOfEach ==
  \A p, q \in Process : \A e \in exec[p], f \in exec[q] :
    e.task = f.task /\ e.attempt = f.attempt => p = q /\ e = f

\* A run that waits or has completed is not executed.
OnlyClaimed ==
  \A p \in Process : \A e \in exec[p] :
    Current(e) => run[e.task].state \notin {"pending", "sleeping", "completed"}

\* The watchdog of a claimed run ends its process a lease after the claim
\* expires.  So that of a run that has expired does so within a lease, and
\* before its successor's claim can expire.
DogsOK ==
  \A p \in Process : \A e \in exec[p] : Executing(e) =>
    IF Current(e)
    THEN run[e.task].state = "running" => e.dog <= run[e.task].lease + Lease
    ELSE /\ e.dog <= Lease
         /\ run[e.task].state = "running" => e.dog <= run[e.task].lease

\* Hence no two superseded runs of a task are being executed.
OneSuperseded ==
  \A p, q \in Process : \A e \in exec[p], f \in exec[q] :
    /\ e.task = f.task /\ ~Current(e) /\ ~Current(f)
    /\ Executing(e) /\ Executing(f) /\ e.dog > 0 /\ f.dog > 0
    => e.attempt = f.attempt

\* What an execution of the last run has seen is what is recorded.
UsedOK(e) ==
  /\ e.at = "body" => Len(e.used) < Steps
  /\ e.at = "complete" => Len(e.used) = Steps
  /\ Current(e) /\ e.at \in {"handler", "body", "complete"} =>
       \A s \in 1 .. Len(e.used) : e.used[s] = checkpoint[e.task][s]

AllUsedOK == \A p \in Process : \A e \in exec[p] : UsedOK(e)

Inv ==
  /\ TypeOK
  /\ NoneIsAhead /\ OneOfEach /\ OnlyClaimed
  /\ DogsOK /\ OneSuperseded
  /\ AllUsedOK /\ ResultRestsOnSteps

LEMMA InitInv == Init => Inv
<1> SUFFICES ASSUME Init PROVE Inv
  OBVIOUS
<1>1. \A p \in Process : exec[p] = {}
  BY DEF Init
<1>2. TypeOK
  <2>1. run \in [Task -> RunRow]
    BY Numbers DEF Init, RunRow, Attempt
  <2>2. checkpoint \in [Task -> Recorded]
    BY Numbers DEF Init, Recorded
  <2>3. <<>> \in [1 .. 0 -> Attempt] /\ 0 \in 0 .. Steps
    BY Numbers
  <2>4. <<>> \in Used
    BY <2>3 DEF Used
  <2>5. result \in [Task -> Used]
    BY <2>4 DEF Init
  <2> QED
    BY <2>1, <2>2, <2>5 DEF Init, TypeOK, Used
<1>3. ResultRestsOnSteps
  BY DEF Init, ResultRestsOnSteps
<1> QED
  BY <1>1, <1>2, <1>3
     DEF Inv, NoneIsAhead, OneOfEach, OnlyClaimed, DogsOK, OneSuperseded, AllUsedOK

-----------------------------------------------------------------------------
(* Steps of one execution.                                                 *)

\* An execution, with what its type says.
LEMMA ExecutionTyped ==
  ASSUME TypeOK, NEW p \in Process, NEW e \in exec[p]
  PROVE  /\ e \in Execution /\ e.task \in Task /\ e.attempt \in Attempt
         /\ e.used \in Used /\ e.dog \in 0 .. 2 * Lease
         /\ run[e.task] \in RunRow /\ checkpoint[e.task] \in Recorded
BY DEF TypeOK, Execution, Used

LEMMA GoMembers ==
  ASSUME TypeOK, NEW p \in Process, NEW e \in exec[p], NEW f \in Execution, Go(p, e, f)
  PROVE  /\ exec' \in [Process -> SUBSET Execution]
         /\ \A q \in Process : \A g \in exec'[q] :
              (q = p /\ g = f) \/ (g \in exec[q] /\ ~(q = p /\ g = e))
BY DEF TypeOK, Go

\* One execution goes on; nothing is written.
LEMMA GoKeeps ==
  ASSUME Inv, NEW p \in Process, NEW e \in exec[p], NEW f \in Execution, Go(p, e, f),
         UNCHANGED <<run, checkpoint, result, mode>>,
         f.task = e.task, f.attempt = e.attempt, f.dog = e.dog,
         Executing(f) => Executing(e), UsedOK(f)
  PROVE  Inv'
<1>1. /\ exec' \in [Process -> SUBSET Execution]
      /\ \A q \in Process : \A g \in exec'[q] :
           (q = p /\ g = f) \/ (g \in exec[q] /\ ~(q = p /\ g = e))
  BY GoMembers DEF Inv
<1>2. \A q \in Process : \A g \in exec'[q] : \E h \in exec[q] :
        /\ g.task = h.task /\ g.attempt = h.attempt /\ g.dog = h.dog
        /\ Executing(g) => Executing(h)
        /\ (g = h /\ ~(q = p /\ g = e)) \/ (g = f /\ h = e /\ q = p)
  BY <1>1
<1>3. TypeOK'
  BY <1>1 DEF Inv, TypeOK
<1>4. NoneIsAhead'
  BY <1>2 DEF Inv, NoneIsAhead
<1>5. OneOfEach'
  <2> SUFFICES ASSUME NEW q \in Process, NEW r \in Process,
                      NEW g \in exec'[q], NEW h \in exec'[r],
                      g.task = h.task, g.attempt = h.attempt
               PROVE  q = r /\ g = h
    BY DEF OneOfEach
  <2> QED
    BY <1>1 DEF Inv, OneOfEach
<1>6. OnlyClaimed'
  BY <1>2 DEF Inv, OnlyClaimed, Current
<1>7. DogsOK'
  BY <1>2 DEF Inv, DogsOK, Current
<1>8. OneSuperseded'
  <2> SUFFICES ASSUME NEW q \in Process, NEW r \in Process,
                      NEW g \in exec'[q], NEW h \in exec'[r],
                      g.task = h.task, ~Current(g)', ~Current(h)',
                      Executing(g), Executing(h), g.dog > 0, h.dog > 0
               PROVE  g.attempt = h.attempt
    BY DEF OneSuperseded
  <2> QED
    BY <1>1 DEF Inv, OneSuperseded, Current
<1>9. AllUsedOK'
  BY <1>1 DEF Inv, AllUsedOK, UsedOK, Current
<1>10. ResultRestsOnSteps'
  BY DEF Inv, ResultRestsOnSteps
<1> QED
  BY <1>3, <1>4, <1>5, <1>6, <1>7, <1>8, <1>9, <1>10 DEF Inv

LEMMA BeginStepKeeps ==
  ASSUME Inv, NEW p \in Process, NEW e \in exec[p], BeginStep(p, e)
  PROVE  Inv'
<1> DEFINE by == checkpoint[e.task][NextStep(e)]
<1>1. /\ e \in Execution /\ e.used \in Used /\ Len(e.used) \in 0 .. Steps
      /\ e.task \in Task /\ checkpoint[e.task] \in Recorded
      /\ \A s \in 1 .. Len(e.used) : e.used[s] \in Attempt
  BY ExecutionTyped, UsedIsSequence DEF Inv
<1>2. /\ e.at = "handler" /\ Len(e.used) + 1 <= Steps
      /\ Len(e.used) + 1 \in 1 .. Steps /\ Len(e.used) < Steps
  BY <1>1, Numbers DEF BeginStep, NextStep
<1>3. UsedOK(e)
  BY DEF Inv, AllUsedOK
<1>4. CASE by = 0
  <2> DEFINE f == [e EXCEPT !.at = "body"]
  <2>1. f \in Execution /\ f.used = e.used /\ f.at = "body"
        /\ f.task = e.task /\ f.attempt = e.attempt /\ f.dog = e.dog
    BY <1>1 DEF Execution
  <2>2. UsedOK(f)
    <3>1. Len(f.used) < Steps
      BY <1>1, <1>2, <2>1, Numbers
    <3> QED
      BY <1>2, <1>3, <2>1, <3>1 DEF UsedOK, Current
  <2>3. Go(p, e, f)
    BY <1>4 DEF BeginStep
  <2> QED
    BY <1>2, <2>1, <2>2, <2>3, GoKeeps DEF BeginStep, Executing
<1>5. CASE by # 0
  <2> DEFINE used == Append(e.used, by)
             f == [e EXCEPT !.used = used]
  <2>1. by \in Attempt
    BY <1>1, <1>2, <1>5, Numbers DEF Recorded, NextStep, Attempt
  <2>2. /\ used \in Used /\ Len(used) = Len(e.used) + 1
        /\ \A s \in 1 .. Len(e.used) : used[s] = e.used[s]
        /\ used[Len(e.used) + 1] = by
    BY <1>1, <1>2, <2>1, UsedGrows
  <2>3. f \in Execution /\ f.used = used /\ f.at = "handler"
        /\ f.task = e.task /\ f.attempt = e.attempt /\ f.dog = e.dog
    BY <1>1, <1>2, <2>2 DEF Execution, Used
  <2>4. ASSUME Current(f), NEW s \in 1 .. Len(used)
        PROVE  used[s] = checkpoint[e.task][s]
    <3>1. CASE s = Len(e.used) + 1
      BY <2>2, <3>1 DEF NextStep
    <3>2. CASE s # Len(e.used) + 1
      <4>1. s \in 1 .. Len(e.used)
        BY <1>1, <2>2, <3>2, Numbers
      <4>2. Current(e)
        BY <2>3, <2>4 DEF Current
      <4> QED
        BY <1>2, <1>3, <2>2, <4>1, <4>2 DEF UsedOK
    <3> QED
      BY <3>1, <3>2
  <2>5. UsedOK(f)
    BY <2>3, <2>4 DEF UsedOK
  <2>6. Go(p, e, f)
    BY <1>5 DEF BeginStep
  <2> QED
    BY <1>2, <2>3, <2>5, <2>6, GoKeeps DEF BeginStep, Executing
<1> QED
  BY <1>4, <1>5

LEMMA HandlerEnds ==
  ASSUME Inv, NEW p \in Process, NEW e \in exec[p],
         HandlerFails(p, e) \/ HandlerReturns(p, e)
  PROVE  Inv'
<1>1. e \in Execution /\ Len(e.used) \in 0 .. Steps
  BY ExecutionTyped, UsedIsSequence DEF Inv
<1>2. UsedOK(e)
  BY DEF Inv, AllUsedOK
<1>3. CASE HandlerFails(p, e)
  <2> DEFINE f == [e EXCEPT !.at = "fail"]
  <2>1. f \in Execution /\ f.at = "fail"
        /\ f.task = e.task /\ f.attempt = e.attempt /\ f.dog = e.dog
    BY <1>1 DEF Execution
  <2> QED
    BY <1>3, <2>1, GoKeeps DEF HandlerFails, Executing, UsedOK
<1>4. CASE HandlerReturns(p, e)
  <2> DEFINE f == [e EXCEPT !.at = "complete"]
  <2>1. f \in Execution /\ f.at = "complete" /\ f.used = e.used
        /\ f.task = e.task /\ f.attempt = e.attempt /\ f.dog = e.dog
    BY <1>1 DEF Execution
  <2>2. Len(e.used) = Steps
    BY <1>1, <1>4, Numbers DEF HandlerReturns, NextStep
  <2>3. UsedOK(f)
    BY <1>2, <1>4, <2>1, <2>2 DEF UsedOK, Current, HandlerReturns
  <2> QED
    BY <1>4, <2>1, <2>3, GoKeeps DEF HandlerReturns, Executing
<1> QED
  BY <1>3, <1>4

\* Only the execution of the last run records a step.
LEMMA RecorderOwns ==
  ASSUME Inv, NEW p \in Process, NEW e \in exec[p], ~Refused(e)
  PROVE  Current(e) /\ run[e.task].state = "running" /\ Owns(e)
<1>1. Current(e)
  BY DEF Refused, Current
<1>2. run[e.task].state \notin {"pending", "sleeping", "completed", "failed", "cancelled"}
  BY <1>1 DEF Refused, Inv, OnlyClaimed
<1>3. run[e.task] \in RunRow
  BY ExecutionTyped DEF Inv
<1>4. run[e.task].state = "running"
  BY <1>2, <1>3 DEF RunRow
<1> QED
  BY <1>1, <1>4 DEF Owns, Current

LEMMA RecordKeeps ==
  ASSUME Inv, NEW p \in Process, NEW e \in exec[p], NEW f \in Execution,
         e.at = "body", ~Refused(e), Record(e), Go(p, e, f),
         f.task = e.task, f.attempt = e.attempt,
         \/ f.at = "fail"
         \/ f.at = "handler" /\ f.dog = Patience /\ f.used = Append(e.used, e.attempt)
  PROVE  Inv'
<1> DEFINE t == e.task
           s == NextStep(e)
<1>1. /\ e \in Execution /\ t \in Task /\ e.attempt \in Attempt /\ e.used \in Used
      /\ run[t] \in RunRow /\ checkpoint[t] \in Recorded
      /\ Len(e.used) \in 0 .. Steps
  BY ExecutionTyped, UsedIsSequence DEF Inv
<1>2. Current(e) /\ run[t].state = "running" /\ Owns(e)
  BY RecorderOwns
<1>3. UsedOK(e) /\ Len(e.used) < Steps
  BY DEF Inv, AllUsedOK, UsedOK
<1>4. s \in 1 .. Steps /\ s = Len(e.used) + 1
  BY <1>1, <1>3, Numbers DEF NextStep
<1>5. /\ run' = [run EXCEPT ![t].lease = Lease]
      /\ checkpoint' = [checkpoint EXCEPT ![t][s] = e.attempt]
      /\ UNCHANGED <<result, mode>>
  BY <1>2 DEF Record
<1>6. /\ run' \in [Task -> RunRow]
      /\ run'[t].lease = Lease
      /\ \A u \in Task : /\ run'[u].state = run[u].state
                         /\ run'[u].attempt = run[u].attempt
                         /\ u # t => run'[u] = run[u]
  <2>1. run \in [Task -> RunRow] /\ Lease \in 0 .. Lease
    BY Numbers DEF Inv, TypeOK
  <2>2. [run[t] EXCEPT !.lease = Lease] \in RunRow
    BY <1>1, <2>1 DEF RunRow
  <2>3. run' = [run EXCEPT ![t] = [run[t] EXCEPT !.lease = Lease]]
    BY <1>5
  <2> QED
    BY <1>1, <2>1, <2>2, <2>3 DEF RunRow
<1>7. /\ checkpoint' \in [Task -> Recorded]
      /\ checkpoint'[t][s] = e.attempt
      /\ \A r \in 1 .. Steps : r # s => checkpoint'[t][r] = checkpoint[t][r]
      /\ \A u \in Task : u # t => checkpoint'[u] = checkpoint[u]
  <2>1. e.attempt \in 0 .. MaxAttempts
    BY <1>1, Numbers DEF Attempt
  <2>2. checkpoint'[t] = [checkpoint[t] EXCEPT ![s] = e.attempt]
        /\ \A u \in Task : u # t => checkpoint'[u] = checkpoint[u]
    BY <1>1, <1>5 DEF Inv, TypeOK
  <2>3. checkpoint'[t] \in Recorded
    BY <1>1, <2>1, <2>2 DEF Recorded
  <2>4. checkpoint' \in [Task -> Recorded]
    BY <1>1, <1>5, <2>3 DEF Inv, TypeOK
  <2> QED
    BY <1>1, <1>4, <2>2, <2>4 DEF Recorded
<1>8. /\ exec' \in [Process -> SUBSET Execution]
      /\ \A q \in Process : \A g \in exec'[q] :
           (q = p /\ g = f) \/ (g \in exec[q] /\ ~(q = p /\ g = e))
  BY GoMembers DEF Inv
<1>9. \A q \in Process : \A g \in exec[q] :
        g \in Execution /\ g.task \in Task /\ g.attempt \in Attempt /\ g.dog \in 0 .. 2 * Lease
        /\ run[g.task] \in RunRow
  BY ExecutionTyped DEF Inv
<1>10. TypeOK'
  BY <1>5, <1>6, <1>7, <1>8 DEF Inv, TypeOK
<1>11. NoneIsAhead'
  BY <1>1, <1>6, <1>8, <1>9 DEF Inv, NoneIsAhead
<1>12. OneOfEach'
  <2> SUFFICES ASSUME NEW q \in Process, NEW r \in Process,
                      NEW g \in exec'[q], NEW h \in exec'[r],
                      g.task = h.task, g.attempt = h.attempt
               PROVE  q = r /\ g = h
    BY DEF OneOfEach
  <2> QED
    BY <1>8 DEF Inv, OneOfEach
<1>13. OnlyClaimed'
  BY <1>2, <1>6, <1>8, <1>9 DEF Inv, OnlyClaimed, Current
<1>14. DogsOK'
  <2> SUFFICES ASSUME NEW q \in Process, NEW g \in exec'[q], Executing(g)
               PROVE  IF Current(g)'
                      THEN run'[g.task].state = "running" => g.dog <= run'[g.task].lease + Lease
                      ELSE /\ g.dog <= Lease
                           /\ run'[g.task].state = "running" => g.dog <= run'[g.task].lease
    BY DEF DogsOK
  <2>1. CASE g = f
    <3>1. g.dog = Lease + Lease
      BY <2>1, Numbers DEF Executing, Patience
    <3>2. Current(g)'
      BY <1>1, <1>2, <1>6, <2>1 DEF Current
    <3> QED
      BY <1>6, <2>1, <3>1, <3>2, Numbers
  <2>2. CASE g \in exec[q]
    <3>1. Current(g)' <=> Current(g)
      BY <1>6, <1>9, <2>2 DEF Current
    <3>2. CASE g.task = t
      <4>1. run[t].lease \in 0 .. Lease
        BY <1>1 DEF RunRow
      <4> QED
        BY <1>2, <1>6, <1>9, <2>2, <3>1, <3>2, <4>1, Numbers DEF Inv, DogsOK
    <3>3. CASE g.task # t
      <4>1. run'[g.task] = run[g.task]
        BY <1>6, <1>9, <2>2, <3>3
      <4> QED
        BY <2>2, <3>1, <4>1 DEF Inv, DogsOK
    <3> QED
      BY <3>2, <3>3
  <2> QED
    BY <1>8, <2>1, <2>2
<1>15. OneSuperseded'
  <2> SUFFICES ASSUME NEW q \in Process, NEW r \in Process,
                      NEW g \in exec'[q], NEW h \in exec'[r],
                      g.task = h.task, ~Current(g)', ~Current(h)',
                      Executing(g), Executing(h), g.dog > 0, h.dog > 0
               PROVE  g.attempt = h.attempt
    BY DEF OneSuperseded
  <2>1. g # f /\ h # f
    BY <1>1, <1>2, <1>6 DEF Current
  <2>2. g \in exec[q] /\ h \in exec[r]
    BY <1>8, <2>1
  <2>3. ~Current(g) /\ ~Current(h)
    BY <1>6, <1>9, <2>2 DEF Current
  <2> QED
    BY <2>2, <2>3 DEF Inv, OneSuperseded
<1>16. AllUsedOK'
  <2> SUFFICES ASSUME NEW q \in Process, NEW g \in exec'[q]
               PROVE  UsedOK(g)'
    BY DEF AllUsedOK
  <2>1. CASE g = f
    <3>1. CASE f.at = "fail"
      BY <2>1, <3>1 DEF UsedOK
    <3>2. CASE f.at = "handler" /\ f.used = Append(e.used, e.attempt)
      <4>1. /\ Len(f.used) = Len(e.used) + 1
            /\ \A r \in 1 .. Len(e.used) : f.used[r] = e.used[r]
            /\ f.used[Len(e.used) + 1] = e.attempt
        BY <1>1, <1>3, <3>2, UsedGrows
      <4>2. ASSUME NEW r \in 1 .. Len(f.used)
            PROVE  f.used[r] = checkpoint'[t][r]
        <5>1. CASE r = s
          BY <1>4, <1>7, <4>1, <5>1
        <5>2. CASE r # s
          <6>1. r \in 1 .. Len(e.used) /\ r \in 1 .. Steps
            BY <1>1, <1>4, <4>1, <5>2, Numbers
          <6>2. e.used[r] = checkpoint[t][r]
            BY <1>2, <1>3, <6>1 DEF UsedOK
          <6> QED
            BY <1>7, <4>1, <5>2, <6>1, <6>2
        <5> QED
          BY <5>1, <5>2
      <4> QED
        BY <2>1, <3>2, <4>2 DEF UsedOK
    <3> QED
      BY <3>1, <3>2
  <2>2. CASE g \in exec[q] /\ ~(q = p /\ g = e)
    <3>1. UsedOK(g) /\ (Current(g)' <=> Current(g))
      BY <1>6, <1>9, <2>2 DEF Inv, AllUsedOK, Current
    <3>2. Current(g) => g.task # t
      BY <1>2, <2>2 DEF Inv, OneOfEach, Current
    <3>3. Current(g) => checkpoint'[g.task] = checkpoint[g.task]
      BY <1>7, <1>9, <2>2, <3>2
    <3> QED
      BY <3>1, <3>3 DEF UsedOK
  <2> QED
    BY <1>8, <2>1, <2>2
<1>17. ResultRestsOnSteps'
  BY <1>2, <1>5, <1>6, <1>7 DEF Inv, ResultRestsOnSteps
<1> QED
  BY <1>10, <1>11, <1>12, <1>13, <1>14, <1>15, <1>16, <1>17 DEF Inv

LEMMA CompleteStepKeeps ==
  ASSUME Inv, NEW p \in Process, NEW e \in exec[p],
         CompleteStep(p, e) \/ CompleteStepLost(p, e)
  PROVE  Inv'
<1>1. e \in Execution /\ e.used \in Used /\ e.attempt \in Attempt
  BY ExecutionTyped DEF Inv
<1>2. e.at = "body" /\ ~Refused(e) /\ Record(e)
  BY DEF CompleteStep, CompleteStepLost
<1>3. CASE CompleteStep(p, e)
  <2> DEFINE f == [e EXCEPT !.at = "handler", !.dog = Patience,
                            !.used = Append(e.used, e.attempt)]
  <2>1. Len(e.used) < Steps
    BY <1>2 DEF Inv, AllUsedOK, UsedOK
  <2>2. Append(e.used, e.attempt) \in Used
    BY <1>1, <2>1, UsedGrows
  <2>6. Patience \in 0 .. 2 * Lease
    BY Numbers DEF Patience
  <2>3. f \in Execution
    BY <1>1, <2>2, <2>6 DEF Execution, Used
  <2>4. Go(p, e, f)
    BY <1>3 DEF CompleteStep, Go
  <2>5. f.task = e.task /\ f.attempt = e.attempt /\ f.at = "handler"
        /\ f.dog = Patience /\ f.used = Append(e.used, e.attempt)
    BY <1>1 DEF Execution
  <2> QED
    BY <1>2, <2>3, <2>4, <2>5, RecordKeeps
<1>4. CASE CompleteStepLost(p, e)
  <2> DEFINE f == [e EXCEPT !.at = "fail"]
  <2>1. f \in Execution /\ f.task = e.task /\ f.attempt = e.attempt /\ f.at = "fail"
    BY <1>1 DEF Execution
  <2> QED
    BY <1>2, <1>4, <2>1, RecordKeeps DEF CompleteStepLost
<1> QED
  BY <1>3, <1>4

-----------------------------------------------------------------------------
(* Executions that end, and runs that are put away.                        *)

Fewer ==
  /\ exec' \in [Process -> SUBSET Execution]
  /\ \A q \in Process : exec'[q] \subseteq exec[q]

LEMMA FewerKeeps ==
  ASSUME Inv, Fewer, UNCHANGED <<run, checkpoint, result>>,
         mode' \in [Process -> {"serving", "closing", "closed"}]
  PROVE  Inv'
<1>1. \A q \in Process : \A g \in exec'[q] : g \in exec[q]
  BY DEF Fewer
<1>2. TypeOK' /\ ResultRestsOnSteps'
  BY DEF Inv, TypeOK, Fewer, ResultRestsOnSteps
<1>3. NoneIsAhead' /\ OnlyClaimed'
  BY <1>1 DEF Inv, NoneIsAhead, OnlyClaimed, Current
<1>4. OneOfEach'
  BY <1>1 DEF Inv, OneOfEach
<1>5. DogsOK'
  BY <1>1 DEF Inv, DogsOK, Current
<1>6. OneSuperseded'
  BY <1>1 DEF Inv, OneSuperseded, Current
<1>7. AllUsedOK'
  BY <1>1 DEF Inv, AllUsedOK, UsedOK, Current
<1> QED
  BY <1>2, <1>3, <1>4, <1>5, <1>6, <1>7 DEF Inv

\* A run that is put away, or taken up as the next, is not executed.
LEMMA RetireKeeps ==
  ASSUME Inv, Fewer, UNCHANGED <<checkpoint, mode>>,
         NEW t \in Task, NEW row \in RunRow, run' = [run EXCEPT ![t] = row],
         row.state # "running",
         \/ row.attempt = run[t].attempt
         \/ row.attempt = run[t].attempt + 1 /\ row.state = "pending",
         row.state \in {"pending", "sleeping", "completed"} =>
           \A q \in Process : \A g \in exec'[q] : g.task = t => ~Current(g),
         result' \in [Task -> Used], ResultRestsOnSteps'
  PROVE  Inv'
<1>1. /\ run' \in [Task -> RunRow] /\ run'[t] = row
      /\ \A u \in Task : u # t => run'[u] = run[u]
  BY DEF Inv, TypeOK
<1>2. \A q \in Process : \A g \in exec'[q] :
        /\ g \in exec[q] /\ g.task \in Task /\ g.attempt \in Nat
        /\ run[g.task].attempt \in Nat /\ g.attempt <= run[g.task].attempt
  BY ExecutionTyped, Numbers DEF Fewer, Inv, NoneIsAhead, RunRow
<1>3. \A q \in Process : \A g \in exec'[q] :
        /\ Current(g)' => Current(g) /\ (g.task = t => row.state \in {"failed", "cancelled"})
        /\ ~Current(g)' => ~Current(g)
  <2> SUFFICES ASSUME NEW q \in Process, NEW g \in exec'[q]
               PROVE  /\ Current(g)' => Current(g) /\ (g.task = t => row.state \in {"failed", "cancelled"})
                      /\ ~Current(g)' => ~Current(g)
    OBVIOUS
  <2>1. CASE g.task # t
    BY <1>1, <1>2, <2>1 DEF Current
  <2>2. CASE g.task = t
    <3>1. CASE row.state \in {"pending", "sleeping", "completed"}
      BY <1>1, <1>2, <2>2, <3>1 DEF Current
    <3>2. CASE row.state \in {"failed", "cancelled"}
      BY <1>1, <1>2, <2>2, <3>2 DEF Current
    <3> QED
      BY <3>1, <3>2 DEF RunRow
  <2> QED
    BY <2>1, <2>2
<1>4. TypeOK'
  BY <1>1 DEF Inv, TypeOK, Fewer, Used
<1>5. NoneIsAhead'
  <2> SUFFICES ASSUME NEW q \in Process, NEW g \in exec'[q]
               PROVE  g.attempt <= run'[g.task].attempt
    BY DEF NoneIsAhead
  <2>1. g.attempt <= run[g.task].attempt /\ g.attempt \in Nat
        /\ run[g.task].attempt \in Nat /\ g.task \in Task
    BY <1>2
  <2> QED
    BY <1>1, <2>1
<1>6. OneOfEach'
  BY <1>2 DEF Inv, OneOfEach
<1>7. OnlyClaimed'
  BY <1>1, <1>2, <1>3 DEF Inv, OnlyClaimed
<1>8. DogsOK'
  <2> SUFFICES ASSUME NEW q \in Process, NEW g \in exec'[q], Executing(g)
               PROVE  IF Current(g)'
                      THEN run'[g.task].state = "running" => g.dog <= run'[g.task].lease + Lease
                      ELSE /\ g.dog <= Lease
                           /\ run'[g.task].state = "running" => g.dog <= run'[g.task].lease
    BY DEF DogsOK
  <2>1. IF Current(g)
        THEN run[g.task].state = "running" => g.dog <= run[g.task].lease + Lease
        ELSE /\ g.dog <= Lease
             /\ run[g.task].state = "running" => g.dog <= run[g.task].lease
    BY <1>2 DEF Inv, DogsOK
  <2>2. CASE g.task = t
    BY <1>1, <1>3, <2>1, <2>2
  <2>3. CASE g.task # t
    BY <1>1, <1>2, <1>3, <2>1, <2>3
  <2> QED
    BY <2>2, <2>3
<1>9. OneSuperseded'
  BY <1>2, <1>3 DEF Inv, OneSuperseded
<1>10. AllUsedOK'
  BY <1>2, <1>3 DEF Inv, AllUsedOK, UsedOK
<1> QED
  BY <1>4, <1>5, <1>6, <1>7, <1>8, <1>9, <1>10 DEF Inv

LEMMA DropIsFewer ==
  ASSUME TypeOK, NEW p \in Process, NEW e \in exec[p], Drop(p, e)
  PROVE  /\ Fewer
         /\ \A q \in Process : \A g \in exec'[q] : ~(q = p /\ g = e)
BY DEF TypeOK, Drop, Fewer

LEMMA PutAway ==
  ASSUME NEW r \in RunRow, NEW s \in {"sleeping", "completed", "cancelled"}
  PROVE  /\ [r EXCEPT !.state = s, !.lease = 0] \in RunRow
         /\ [r EXCEPT !.state = s, !.lease = 0].state = s
         /\ [r EXCEPT !.state = s, !.lease = 0].attempt = r.attempt
<1>1. 0 \in 0 .. Lease
  BY Numbers
<1> QED
  BY <1>1 DEF RunRow

\* Without e, nobody executes its run.
LEMMA NobodyElse ==
  ASSUME Inv, NEW p \in Process, NEW e \in exec[p], Drop(p, e), Current(e)
  PROVE  \A q \in Process : \A g \in exec'[q] : g.task = e.task => ~Current(g)
BY DropIsFewer DEF Inv, OneOfEach, Fewer, Current

\* A result rests on steps unless the run completes, or its task is.
LEMMA ResultStays ==
  ASSUME Inv, UNCHANGED <<checkpoint, result>>, NEW t \in Task, NEW row \in RunRow,
         run' = [run EXCEPT ![t] = row], row.state # "completed"
  PROVE  ResultRestsOnSteps' /\ result' \in [Task -> Used]
BY DEF Inv, TypeOK, ResultRestsOnSteps, Used

LEMMA AfterFailKeeps ==
  ASSUME Inv, NEW p \in Process, NEW e \in exec[p], Drop(p, e),
         run' = AfterFail(e), UNCHANGED <<checkpoint, result, mode>>
  PROVE  Inv'
<1>1. Fewer
  BY DropIsFewer DEF Inv
<1>2. CASE run' = run
  BY <1>1, <1>2, FewerKeeps DEF Inv, TypeOK
<1>3. CASE ~Refused(e) /\ run[e.task].state \in {"running", "sleeping"}
  <2> DEFINE t == e.task
             row == Failed(run[t])
  <2>1. t \in Task /\ run[t] \in RunRow
    BY ExecutionTyped DEF Inv
  <2>2. /\ row \in RunRow /\ row.state \in {"pending", "failed"}
        /\ row.state = "pending" => row.attempt = run[t].attempt + 1
        /\ row.state = "failed" => row.attempt = run[t].attempt
    BY <2>1, FailedIsRow
  <2>3. run' = [run EXCEPT ![t] = row]
    BY <1>3 DEF AfterFail
  <2>4. Current(e)
    BY <1>3 DEF Refused, Current
  <2>5. \A q \in Process : \A g \in exec'[q] : g.task = t => ~Current(g)
    BY <2>4, NobodyElse
  <2>6. ResultRestsOnSteps' /\ result' \in [Task -> Used]
    BY <2>1, <2>2, <2>3, ResultStays
  <2>7. row.state # "running"
    BY <2>2
  <2>8. \/ row.attempt = run[t].attempt
        \/ row.attempt = run[t].attempt + 1 /\ row.state = "pending"
    BY <2>2
  <2> HIDE DEF row
  <2> QED
    BY <1>1, <2>1, <2>2, <2>3, <2>5, <2>6, <2>7, <2>8, RetireKeeps
<1> QED
  BY <1>2, <1>3 DEF AfterFail

LEMMA CompleteRunKeeps ==
  ASSUME Inv, NEW p \in Process, NEW e \in exec[p], CompleteRun(p, e)
  PROVE  Inv'
<1>1. Drop(p, e) /\ Fewer /\ UNCHANGED <<checkpoint, mode>>
  BY DropIsFewer DEF CompleteRun, Inv
<1>2. CASE ~Owns(e)
  BY <1>1, <1>2, FewerKeeps DEF CompleteRun, Inv, TypeOK
<1>3. CASE Owns(e)
  <2> DEFINE t == e.task
             row == [run[t] EXCEPT !.state = "completed", !.lease = 0]
  <2>1. t \in Task /\ run[t] \in RunRow /\ e.used \in Used
        /\ run \in [Task -> RunRow] /\ result \in [Task -> Used]
    BY ExecutionTyped DEF Inv, TypeOK, Used
  <2>2. row \in RunRow /\ row.state = "completed" /\ row.attempt = run[t].attempt
    BY <2>1, PutAway
  <2>3. run' = [run EXCEPT ![t] = row] /\ result' = [result EXCEPT ![t] = e.used]
    BY <1>3, <2>1 DEF CompleteRun
  <2>4. Current(e) /\ e.at = "complete"
    BY <1>3 DEF Owns, Current, CompleteRun
  <2>5. \A q \in Process : \A g \in exec'[q] : g.task = t => ~Current(g)
    BY <1>1, <2>4, NobodyElse
  <2>6. Len(e.used) = Steps /\ \A s \in 1 .. Len(e.used) : e.used[s] = checkpoint[t][s]
    BY <2>4 DEF Inv, AllUsedOK, UsedOK
  <2>7. ResultRestsOnSteps' /\ result' \in [Task -> Used]
    BY <1>1, <2>1, <2>2, <2>3, <2>6 DEF Inv, ResultRestsOnSteps
  <2> HIDE DEF row
  <2> QED
    BY <1>1, <2>1, <2>2, <2>3, <2>5, <2>7, RetireKeeps
<1> QED
  BY <1>2, <1>3

LEMMA DeferUnknownKeeps ==
  ASSUME Inv, NEW p \in Process, NEW e \in exec[p], DeferUnknown(p, e)
  PROVE  Inv'
<1>1. Drop(p, e) /\ Fewer /\ UNCHANGED <<checkpoint, result, mode>>
  BY DropIsFewer DEF DeferUnknown, Inv
<1>2. CASE ~Owns(e)
  BY <1>1, <1>2, FewerKeeps DEF DeferUnknown, Inv, TypeOK
<1>3. CASE Owns(e)
  <2> DEFINE t == e.task
             row == [run[t] EXCEPT !.state = "sleeping", !.lease = 0]
  <2>1. t \in Task /\ run[t] \in RunRow /\ run \in [Task -> RunRow]
    BY ExecutionTyped DEF Inv, TypeOK
  <2>2. row \in RunRow /\ row.state = "sleeping" /\ row.attempt = run[t].attempt
    BY <2>1, PutAway
  <2>3. run' = [run EXCEPT ![t] = row]
    BY <1>3, <2>1 DEF DeferUnknown
  <2>4. Current(e)
    BY <1>3 DEF Owns, Current
  <2>5. \A q \in Process : \A g \in exec'[q] : g.task = t => ~Current(g)
    BY <1>1, <2>4, NobodyElse
  <2>6. row.state \notin {"running", "completed"}
    BY <2>2
  <2> HIDE DEF row
  <2>7. ResultRestsOnSteps' /\ result' \in [Task -> Used]
    BY <1>1, <2>1, <2>2, <2>3, <2>6, ResultStays
  <2> QED
    BY <1>1, <2>1, <2>2, <2>3, <2>5, <2>6, <2>7, RetireKeeps
<1> QED
  BY <1>2, <1>3

LEMMA FinishKeeps ==
  ASSUME Inv, NEW p \in Process, NEW e \in exec[p], Finish(p, e)
  PROVE  Inv'
<1>1. CASE CallLost(p, e)
  BY <1>1, DropIsFewer, FewerKeeps DEF CallLost, Inv, TypeOK
<1> QED
  BY <1>1, CompleteRunKeeps, AfterFailKeeps, DeferUnknownKeeps
     DEF Finish, FailRun, DeferFails

LEMMA WakeKeeps ==
  ASSUME Inv, NEW t \in Task, Wake(t) \/ Cancel(t)
  PROVE  Inv'
<1>1. Fewer /\ UNCHANGED <<checkpoint, result, mode, exec>>
  BY DEF Wake, Cancel, Fewer, Inv, TypeOK
<1>2. run[t] \in RunRow /\ run \in [Task -> RunRow]
  BY DEF Inv, TypeOK
<1>3. CASE Wake(t)
  <2> DEFINE row == [run[t] EXCEPT !.state = "pending"]
  <2>1. row \in RunRow /\ row.state = "pending" /\ row.attempt = run[t].attempt
    BY <1>2 DEF RunRow
  <2>2. run' = [run EXCEPT ![t] = row]
    BY <1>2, <1>3 DEF Wake
  <2>3. \A q \in Process : \A g \in exec'[q] : g.task = t => ~Current(g)
    BY <1>1, <1>3 DEF Inv, OnlyClaimed, Wake
  <2> HIDE DEF row
  <2>4. ResultRestsOnSteps' /\ result' \in [Task -> Used]
    BY <1>1, <2>1, <2>2, ResultStays
  <2> QED
    BY <1>1, <2>1, <2>2, <2>3, <2>4, RetireKeeps
<1>4. CASE Cancel(t)
  <2> DEFINE row == [run[t] EXCEPT !.state = "cancelled", !.lease = 0]
  <2>1. row \in RunRow /\ row.state = "cancelled" /\ row.attempt = run[t].attempt
    BY <1>2, PutAway
  <2>2. run' = [run EXCEPT ![t] = row]
    BY <1>2, <1>4 DEF Cancel
  <2> HIDE DEF row
  <2>3. ResultRestsOnSteps' /\ result' \in [Task -> Used]
    BY <1>1, <2>1, <2>2, ResultStays
  <2> QED
    BY <1>1, <2>1, <2>2, <2>3, RetireKeeps
<1> QED
  BY <1>3, <1>4

LEMMA EndsKeeps ==
  ASSUME Inv, NEW p \in Process, Ends(p) \/ Close(p) \/ Closed(p)
  PROVE  Inv'
<1>1. Fewer
  BY DEF Ends, Close, Closed, Fewer, Inv, TypeOK
<1>2. mode' \in [Process -> {"serving", "closing", "closed"}]
  BY DEF Ends, Close, Closed, Inv, TypeOK
<1> QED
  BY <1>1, <1>2, FewerKeeps DEF Ends, Close, Closed

-----------------------------------------------------------------------------
(* Time.                                                                   *)

LEMMA LessOf ==
  ASSUME NEW n \in Nat
  PROVE  Less(n) \in Nat /\ Less(n) <= n /\ (n > 0 => Less(n) = n - 1) /\ (n = 0 => Less(n) = 0)
BY DEF Less

LEMMA TickKeeps ==
  ASSUME Inv, Tick
  PROVE  Inv'
<1> DEFINE Aged(e) == [e EXCEPT !.dog = Less(@)]
<1>1. \A t \in Task : /\ run[t] \in RunRow /\ run'[t] \in RunRow
                     /\ run'[t].state = run[t].state /\ run'[t].attempt = run[t].attempt
                     /\ run[t].lease \in Nat /\ run'[t].lease = Less(run[t].lease)
  <2> SUFFICES ASSUME NEW t \in Task
               PROVE  /\ run[t] \in RunRow /\ run'[t] \in RunRow
                      /\ run'[t].state = run[t].state /\ run'[t].attempt = run[t].attempt
                      /\ run[t].lease \in Nat /\ run'[t].lease = Less(run[t].lease)
    OBVIOUS
  <2>1. run[t] \in RunRow /\ run'[t] = [run[t] EXCEPT !.lease = Less(run[t].lease)]
    BY DEF Tick, Inv, TypeOK
  <2>2. run[t].lease \in 0 .. Lease
    BY <2>1 DEF RunRow
  <2>3. Less(run[t].lease) \in 0 .. Lease
    BY <2>2, Numbers, LessOf
  <2> QED
    BY <2>1, <2>2, <2>3, Numbers DEF RunRow
<1>2. \A e \in Execution :
        /\ Aged(e) \in Execution /\ Aged(e).task = e.task /\ Aged(e).attempt = e.attempt
        /\ Aged(e).at = e.at /\ Aged(e).used = e.used
        /\ e.dog \in Nat /\ Aged(e).dog = Less(e.dog)
  <2> SUFFICES ASSUME NEW e \in Execution
               PROVE  /\ Aged(e) \in Execution /\ Aged(e).task = e.task
                      /\ Aged(e).attempt = e.attempt
                      /\ Aged(e).at = e.at /\ Aged(e).used = e.used
                      /\ e.dog \in Nat /\ Aged(e).dog = Less(e.dog)
    OBVIOUS
  <2>1. e.dog \in 0 .. 2 * Lease
    BY DEF Execution
  <2>2. Less(e.dog) \in 0 .. 2 * Lease
    BY <2>1, Numbers, LessOf
  <2> QED
    BY <2>1, <2>2, Numbers DEF Execution
<1>3. /\ exec' = [p \in Process |-> {Aged(e) : e \in exec[p]}]
      /\ UNCHANGED <<checkpoint, result, mode>>
  BY DEF Tick
<1>4. \A p \in Process : exec[p] \subseteq Execution
  BY DEF Inv, TypeOK
<1>5. exec' \in [Process -> SUBSET Execution]
  BY <1>2, <1>3, <1>4
<1> HIDE DEF Aged
<1>6. \A p \in Process : \A g \in exec'[p] : \E e \in exec[p] :
        /\ g = Aged(e) /\ e \in Execution /\ g.task = e.task /\ g.attempt = e.attempt
        /\ g.at = e.at /\ g.used = e.used /\ e.dog \in Nat /\ g.dog = Less(e.dog)
        /\ e.task \in Task /\ (Current(g)' <=> Current(e))
  <2> SUFFICES ASSUME NEW p \in Process, NEW g \in exec'[p]
               PROVE  \E e \in exec[p] :
                 /\ g = Aged(e) /\ e \in Execution /\ g.task = e.task /\ g.attempt = e.attempt
                 /\ g.at = e.at /\ g.used = e.used /\ e.dog \in Nat /\ g.dog = Less(e.dog)
                 /\ e.task \in Task /\ (Current(g)' <=> Current(e))
    OBVIOUS
  <2>1. PICK e \in exec[p] : g = Aged(e)
    BY <1>3
  <2>2. e \in Execution /\ e.task \in Task
    BY <1>4, ExecutionTyped DEF Inv
  <2> QED
    BY <1>1, <1>2, <2>1, <2>2 DEF Current
<1>7. TypeOK'
  <2>1. run' \in [Task -> RunRow]
    BY <1>1 DEF Tick
  <2> QED
    BY <1>3, <1>5, <2>1 DEF Inv, TypeOK
<1>8. NoneIsAhead'
  BY <1>1, <1>6 DEF Inv, NoneIsAhead
<1>9. OneOfEach'
  <2> SUFFICES ASSUME NEW q \in Process, NEW r \in Process,
                      NEW g \in exec'[q], NEW h \in exec'[r],
                      g.task = h.task, g.attempt = h.attempt
               PROVE  q = r /\ g = h
    BY DEF OneOfEach
  <2>1. PICK e \in exec[q] : g = Aged(e) /\ g.task = e.task /\ g.attempt = e.attempt
    BY <1>6
  <2>2. PICK f \in exec[r] : h = Aged(f) /\ h.task = f.task /\ h.attempt = f.attempt
    BY <1>6
  <2>3. q = r /\ e = f
    BY <2>1, <2>2 DEF Inv, OneOfEach
  <2> QED
    BY <2>1, <2>2, <2>3
<1>10. OnlyClaimed'
  BY <1>1, <1>6 DEF Inv, OnlyClaimed
<1>11. DogsOK'
  <2> SUFFICES ASSUME NEW q \in Process, NEW g \in exec'[q], Executing(g)
               PROVE  IF Current(g)'
                      THEN run'[g.task].state = "running" => g.dog <= run'[g.task].lease + Lease
                      ELSE /\ g.dog <= Lease
                           /\ run'[g.task].state = "running" => g.dog <= run'[g.task].lease
    BY DEF DogsOK
  <2>1. PICK e \in exec[q] :
          /\ g.task = e.task /\ g.at = e.at /\ e.dog \in Nat /\ g.dog = Less(e.dog)
          /\ e.task \in Task /\ (Current(g)' <=> Current(e))
    BY <1>6
  <2>2. IF Current(e)
        THEN run[e.task].state = "running" => e.dog <= run[e.task].lease + Lease
        ELSE /\ e.dog <= Lease
             /\ run[e.task].state = "running" => e.dog <= run[e.task].lease
    BY <2>1 DEF Inv, DogsOK, Executing
  <2>3. /\ run[e.task].lease \in Nat /\ run'[e.task].lease = Less(run[e.task].lease)
        /\ run'[e.task].state = run[e.task].state
    BY <1>1, <2>1
  <2>4. Lease \in Nat
    BY Numbers
  <2>5. CASE Current(e)
    BY <2>1, <2>2, <2>3, <2>4, <2>5 DEF Less
  <2>6. CASE ~Current(e)
    BY <2>1, <2>2, <2>3, <2>4, <2>6 DEF Less
  <2> QED
    BY <2>5, <2>6
<1>12. OneSuperseded'
  <2> SUFFICES ASSUME NEW q \in Process, NEW r \in Process,
                      NEW g \in exec'[q], NEW h \in exec'[r],
                      g.task = h.task, ~Current(g)', ~Current(h)',
                      Executing(g), Executing(h), g.dog > 0, h.dog > 0
               PROVE  g.attempt = h.attempt
    BY DEF OneSuperseded
  <2>1. PICK e \in exec[q] :
          /\ g.task = e.task /\ g.at = e.at /\ e.dog \in Nat /\ g.dog = Less(e.dog)
          /\ g.attempt = e.attempt /\ (Current(g)' <=> Current(e))
    BY <1>6
  <2>2. PICK f \in exec[r] :
          /\ h.task = f.task /\ h.at = f.at /\ f.dog \in Nat /\ h.dog = Less(f.dog)
          /\ h.attempt = f.attempt /\ (Current(h)' <=> Current(f))
    BY <1>6
  <2>3. e.dog > 0 /\ f.dog > 0
    BY <2>1, <2>2 DEF Less
  <2> QED
    BY <2>1, <2>2, <2>3 DEF Inv, OneSuperseded, Executing
<1>13. AllUsedOK'
  <2> SUFFICES ASSUME NEW q \in Process, NEW g \in exec'[q]
               PROVE  UsedOK(g)'
    BY DEF AllUsedOK
  <2>1. PICK e \in exec[q] :
          /\ g.task = e.task /\ g.at = e.at /\ g.used = e.used
          /\ (Current(g)' <=> Current(e))
    BY <1>6
  <2> QED
    BY <1>3, <2>1 DEF Inv, AllUsedOK, UsedOK
<1>14. ResultRestsOnSteps'
  BY <1>1, <1>3 DEF Inv, ResultRestsOnSteps
<1> QED
  BY <1>7, <1>8, <1>9, <1>10, <1>11, <1>12, <1>13, <1>14 DEF Inv

-----------------------------------------------------------------------------
(* Claims.                                                                 *)

Taken(t) ==
  /\ run[t].state = "pending" /\ run'[t].attempt = run[t].attempt
  /\ run'[t].state = "running" /\ run'[t].lease = Lease

Expires(t) ==
  /\ run[t].state = "running" /\ run[t].lease = 0
  /\ run'[t].attempt = run[t].attempt + 1

\* What claim_task does to a row.
Claims(t, taken) ==
  \/ t \notin taken /\ run'[t] = run[t]
  \/ t \in taken /\ Taken(t)
  \/ t \in taken /\ Expires(t) /\ run'[t].state = "running" /\ run'[t].lease = Lease
  \/ t \notin taken /\ Expires(t) /\ run'[t].state = "pending"
  \/ /\ t \notin taken /\ run[t].state = "running"
     /\ run'[t].attempt = run[t].attempt /\ run'[t].state = "failed"

LEMMA ClaimRows ==
  ASSUME TypeOK, NEW n, NEW taken, ClaimTasks(n, taken)
  PROVE  /\ run' \in [Task -> RunRow]
         /\ taken \subseteq Task
         /\ \A t \in Task : Claims(t, taken)
<1>1. PICK swept \in AtMost(n, Expired) :
        /\ taken \in AtMost(n, {t \in Task : AfterSweep(swept)[t].state = "pending"})
        /\ run' = [t \in Task |->
                     IF t \in taken
                     THEN [AfterSweep(swept)[t] EXCEPT !.state = "running", !.lease = Lease]
                     ELSE AfterSweep(swept)[t]]
  BY DEF ClaimTasks
<1>2. /\ swept \subseteq Expired
      /\ taken \subseteq {t \in Task : AfterSweep(swept)[t].state = "pending"}
  BY <1>1 DEF AtMost
<1>3. ASSUME NEW t \in Task
      PROVE  run'[t] \in RunRow /\ Claims(t, taken)
  <2> DEFINE row == AfterSweep(swept)[t]
  <2>1. run[t] \in RunRow /\ Lease \in 0 .. Lease
    BY Numbers DEF TypeOK
  <2>2. row = IF t \in swept THEN Failed(run[t]) ELSE run[t]
    BY DEF AfterSweep
  <2>3. /\ Failed(run[t]) \in RunRow
        /\ Failed(run[t]).state \in {"pending", "failed"}
        /\ Failed(run[t]).state = "pending" => Failed(run[t]).attempt = run[t].attempt + 1
        /\ Failed(run[t]).state = "failed" => Failed(run[t]).attempt = run[t].attempt
    BY <2>1, FailedIsRow
  <2>4. row \in RunRow
    BY <2>1, <2>2, <2>3
  <2>5. t \in swept => run[t].state = "running" /\ run[t].lease = 0
    BY <1>2 DEF Expired
  <2>6. t \in taken => row.state = "pending"
    BY <1>2
  <2>7. run'[t] = IF t \in taken THEN [row EXCEPT !.state = "running", !.lease = Lease]
                  ELSE row
    BY <1>1
  <2> HIDE DEF row
  <2>8. CASE t \in taken
    <3>1. /\ run'[t] \in RunRow /\ run'[t].state = "running"
          /\ run'[t].lease = Lease /\ run'[t].attempt = row.attempt
      BY <2>1, <2>4, <2>7, <2>8 DEF RunRow
    <3>2. CASE t \in swept
      <4>1. run'[t].attempt = run[t].attempt + 1
        BY <2>2, <2>3, <2>6, <2>8, <3>1, <3>2
      <4> QED
        BY <2>5, <2>8, <3>1, <3>2, <4>1 DEF Claims, Expires
    <3>3. CASE t \notin swept
      BY <2>2, <2>6, <2>8, <3>1, <3>3 DEF Claims, Taken
    <3> QED
      BY <3>2, <3>3
  <2>9. CASE t \notin taken
    <3>1. run'[t] = row
      BY <2>7, <2>9
    <3>2. CASE t \in swept
      BY <2>2, <2>3, <2>5, <2>9, <3>1, <3>2 DEF Claims, Expires
    <3>3. CASE t \notin swept
      BY <2>1, <2>2, <2>9, <3>1, <3>3 DEF Claims
    <3> QED
      BY <3>2, <3>3
  <2> QED
    BY <2>8, <2>9
<1>4. run' = [t \in Task |-> run'[t]]
  BY <1>1
<1> QED
  BY <1>2, <1>3, <1>4

LEMMA StartedOK ==
  ASSUME run' \in [Task -> RunRow], NEW t \in Task, NEW known
  PROVE  /\ Started(t, known) \in Execution
         /\ Started(t, known).task = t
         /\ Started(t, known).attempt = run'[t].attempt
         /\ Started(t, known).at \in {"handler", "unknown"}
         /\ Started(t, known).used = <<>>
         /\ Started(t, known).dog = 2 * Lease
<1>1. run'[t].attempt \in Attempt
  BY DEF RunRow
<1>2. <<>> \in [1 .. 0 -> Attempt] /\ 0 \in 0 .. Steps
  BY Numbers
<1>3. <<>> \in UNION {[1 .. n -> Attempt] : n \in 0 .. Steps}
  BY <1>2
<1>4. 2 * Lease \in 0 .. 2 * Lease
  BY Numbers
<1> QED
  BY <1>1, <1>3, <1>4 DEF Started, Execution, Patience

\* What an execution that was there before a claim is after it.
LEMMA OldAfterClaim ==
  ASSUME Inv, NEW taken, \A t \in Task : Claims(t, taken), run' \in [Task -> RunRow],
         NEW q \in Process, NEW g \in exec[q]
  PROVE  /\ g \in Execution /\ g.task \in Task /\ g.dog \in Nat
         /\ g.attempt \in Nat /\ g.attempt <= run'[g.task].attempt
         /\ Current(g)' => (Current(g) /\ g.task \notin taken
              /\ (run'[g.task] = run[g.task] \/ run'[g.task].state = "failed"))
         /\ (~Current(g)' /\ ~Expires(g.task)) => (~Current(g)
              /\ (run'[g.task] = run[g.task] \/ Taken(g.task) \/ run'[g.task].state = "failed"))
<1>1. g \in Execution /\ g.task \in Task /\ g.dog \in Nat
      /\ g.attempt \in Nat /\ run[g.task].attempt \in Nat
      /\ g.attempt <= run[g.task].attempt
  <2>1. /\ g \in Execution /\ g.task \in Task /\ g.attempt \in Attempt
        /\ g.dog \in 0 .. 2 * Lease /\ run[g.task] \in RunRow
    BY ExecutionTyped DEF Inv
  <2>2. run[g.task].attempt \in Attempt
    BY <2>1 DEF RunRow
  <2>3. g.attempt <= run[g.task].attempt
    BY DEF Inv, NoneIsAhead
  <2>4. g.attempt \in Nat /\ run[g.task].attempt \in Nat
    BY <2>1, <2>2, Numbers
  <2>5. g.dog \in Nat
    BY <2>1, Numbers
  <2> QED
    BY <2>1, <2>3, <2>4, <2>5
<1>2. Claims(g.task, taken)
  BY <1>1
<1>3. Current(g)' <=> g.attempt = run'[g.task].attempt
  BY DEF Current
<1>4. Current(g) <=> g.attempt = run[g.task].attempt
  BY DEF Current
<1>5. CASE g.task \notin taken /\ run'[g.task] = run[g.task]
  BY <1>1, <1>3, <1>4, <1>5
<1>6. CASE g.task \in taken /\ Taken(g.task)
  <2>1. ~Current(g)
    BY <1>6 DEF Taken, Inv, OnlyClaimed
  <2>2. run'[g.task].attempt = run[g.task].attempt
    BY <1>6 DEF Taken
  <2> QED
    BY <1>1, <1>3, <1>4, <1>6, <2>1, <2>2
<1>7. CASE Expires(g.task)
  <2>1. run'[g.task].attempt = run[g.task].attempt + 1
    BY <1>7 DEF Expires
  <2>2. ~Current(g)' /\ g.attempt <= run'[g.task].attempt
    BY <1>1, <1>3, <2>1
  <2> QED
    BY <1>1, <1>7, <2>2
<1>8. CASE /\ g.task \notin taken /\ run[g.task].state = "running"
           /\ run'[g.task].attempt = run[g.task].attempt /\ run'[g.task].state = "failed"
  BY <1>1, <1>3, <1>4, <1>8
<1> QED
  BY <1>2, <1>5, <1>6, <1>7, <1>8 DEF Claims

\* New executions are of the runs taken, and of nothing else.
NewOrOld(p, taken) ==
  \E known : \A q \in Process : \A g \in exec'[q] :
    g \in exec[q] \/ (q = p /\ \E t \in taken : g = Started(t, known))

LEMMA ClaimMembers ==
  ASSUME Inv, NEW p \in Process, Claim(p) \/ ClaimLost(p)
  PROVE  \E taken :
           /\ run' \in [Task -> RunRow] /\ taken \subseteq Task
           /\ \A t \in Task : Claims(t, taken)
           /\ exec' \in [Process -> SUBSET Execution]
           /\ NewOrOld(p, taken)
           /\ UNCHANGED <<checkpoint, result, mode>>
<1>1. CASE Claim(p)
  <2>1. PICK taken \in SUBSET Task, known \in Versions[p] :
          /\ ClaimTasks(Quantity(p), taken)
          /\ exec' = [exec EXCEPT ![p] = @ \union {Started(t, known) : t \in taken}]
    BY <1>1 DEF Claim
  <2>2. /\ run' \in [Task -> RunRow] /\ taken \subseteq Task
        /\ \A t \in Task : Claims(t, taken)
    BY <2>1, ClaimRows DEF Inv
  <2>3. \A t \in taken : Started(t, known) \in Execution
    BY <2>2, StartedOK
  <2>4. exec \in [Process -> SUBSET Execution]
    BY DEF Inv, TypeOK
  <2>5. exec' \in [Process -> SUBSET Execution]
    BY <2>1, <2>3, <2>4
  <2>6. \A q \in Process : \A g \in exec'[q] :
          g \in exec[q] \/ (q = p /\ \E t \in taken : g = Started(t, known))
    BY <2>1, <2>4
  <2> QED
    BY <1>1, <2>2, <2>5, <2>6 DEF Claim, NewOrOld
<1>2. CASE ClaimLost(p)
  <2>1. PICK taken \in SUBSET Task : ClaimTasks(Quantity(p), taken)
    BY <1>2 DEF ClaimLost
  <2>2. /\ run' \in [Task -> RunRow] /\ taken \subseteq Task
        /\ \A t \in Task : Claims(t, taken)
    BY <2>1, ClaimRows DEF Inv
  <2> QED
    BY <1>2, <2>2 DEF ClaimLost, NewOrOld, Inv, TypeOK
<1> QED
  BY <1>1, <1>2

LEMMA ClaimKeeps ==
  ASSUME Inv, NEW p \in Process, Claim(p) \/ ClaimLost(p)
  PROVE  Inv'
<1>1. PICK taken :
        /\ run' \in [Task -> RunRow] /\ taken \subseteq Task
        /\ \A t \in Task : Claims(t, taken)
        /\ exec' \in [Process -> SUBSET Execution]
        /\ NewOrOld(p, taken)
        /\ UNCHANGED <<checkpoint, result, mode>>
  BY ClaimMembers
<1>2. PICK known : \A q \in Process : \A g \in exec'[q] :
        g \in exec[q] \/ (q = p /\ \E t \in taken : g = Started(t, known))
  BY <1>1 DEF NewOrOld
<1> DEFINE New(q, g) ==
      /\ q = p /\ g.task \in taken /\ g = Started(g.task, known)
      /\ g.attempt = run'[g.task].attempt /\ g.dog = 2 * Lease
      /\ g.at \in {"handler", "unknown"} /\ g.used = <<>>
      /\ run'[g.task].state = "running" /\ run'[g.task].lease = Lease
<1>3. \A q \in Process : \A g \in exec'[q] : g \in exec[q] \/ New(q, g)
  <2> SUFFICES ASSUME NEW q \in Process, NEW g \in exec'[q], g \notin exec[q]
               PROVE  New(q, g)
    OBVIOUS
  <2>1. PICK t \in taken : q = p /\ g = Started(t, known)
    BY <1>2
  <2>2. /\ g.task = t /\ g.attempt = run'[t].attempt /\ g.dog = 2 * Lease
        /\ g.at \in {"handler", "unknown"} /\ g.used = <<>>
    BY <1>1, <2>1, StartedOK
  <2>3. run'[t].state = "running" /\ run'[t].lease = Lease
    BY <1>1, <2>1 DEF Claims, Taken
  <2> QED
    BY <2>1, <2>2, <2>3
<1> HIDE DEF New
<1>4. ASSUME NEW q \in Process, NEW g \in exec[q]
      PROVE  /\ g \in Execution /\ g.task \in Task /\ g.dog \in Nat
             /\ g.attempt \in Nat /\ g.attempt <= run'[g.task].attempt
             /\ Current(g)' => (Current(g) /\ g.task \notin taken
                  /\ (run'[g.task] = run[g.task] \/ run'[g.task].state = "failed"))
             /\ (~Current(g)' /\ ~Expires(g.task)) => (~Current(g)
                  /\ (run'[g.task] = run[g.task] \/ Taken(g.task)
                        \/ run'[g.task].state = "failed"))
  BY <1>1, <1>4, OldAfterClaim
<1>5. Lease \in Nat \ {0}
  BY Numbers
<1>6. \A t \in Task : run[t].lease \in Nat /\ run[t].attempt \in Nat
                     /\ run'[t].attempt \in Nat
  <2>1. \A t \in Task : run[t] \in RunRow /\ run'[t] \in RunRow
    BY <1>1 DEF Inv, TypeOK
  <2>2. \A row \in RunRow : row.lease \in Nat /\ row.attempt \in Nat
    <3> SUFFICES ASSUME NEW row \in RunRow PROVE row.lease \in Nat /\ row.attempt \in Nat
      OBVIOUS
    <3>1. row.lease \in 0 .. Lease /\ row.attempt \in Attempt
      BY DEF RunRow
    <3>2. row.lease \in Nat
      BY <3>1, Numbers
    <3> QED
      BY <3>1, <3>2, Numbers
  <2> QED
    BY <2>1, <2>2
<1>7. TypeOK'
  BY <1>1 DEF Inv, TypeOK
<1>8. NoneIsAhead'
  <2> SUFFICES ASSUME NEW q \in Process, NEW g \in exec'[q]
               PROVE  g.attempt <= run'[g.task].attempt
    BY DEF NoneIsAhead
  <2>1. CASE New(q, g)
    <3>1. g.task \in Task /\ g.attempt = run'[g.task].attempt
      BY <1>1, <2>1 DEF New
    <3> QED
      BY <1>6, <3>1
  <2> QED
    BY <1>3, <1>4, <2>1
<1>9. OneOfEach'
  <2> SUFFICES ASSUME NEW q \in Process, NEW r \in Process,
                      NEW g \in exec'[q], NEW h \in exec'[r],
                      g.task = h.task, g.attempt = h.attempt
               PROVE  q = r /\ g = h
    BY DEF OneOfEach
  <2>1. CASE g \in exec[q] /\ h \in exec[r]
    BY <2>1 DEF Inv, OneOfEach
  <2>2. CASE New(q, g) /\ New(r, h)
    BY <2>2 DEF New
  <2>3. CASE g \in exec[q] /\ New(r, h)
    BY <1>4, <2>3 DEF New, Current
  <2>4. CASE New(q, g) /\ h \in exec[r]
    BY <1>4, <2>4 DEF New, Current
  <2> QED
    BY <1>3, <2>1, <2>2, <2>3, <2>4
<1>10. OnlyClaimed'
  <2> SUFFICES ASSUME NEW q \in Process, NEW g \in exec'[q], Current(g)'
               PROVE  run'[g.task].state \notin {"pending", "sleeping", "completed"}
    BY DEF OnlyClaimed
  <2>1. CASE g \in exec[q]
    <3>1. Current(g) /\ (run'[g.task] = run[g.task] \/ run'[g.task].state = "failed")
      BY <1>4, <2>1
    <3>2. run[g.task].state \notin {"pending", "sleeping", "completed"}
      BY <2>1, <3>1 DEF Inv, OnlyClaimed
    <3> QED
      BY <3>1, <3>2
  <2>2. CASE New(q, g)
    BY <2>2 DEF New
  <2> QED
    BY <1>3, <2>1, <2>2
<1>11. \A t \in Task : Expires(t) /\ run'[t].state = "running" => run'[t].lease = Lease
  <2> SUFFICES ASSUME NEW t \in Task, Expires(t), run'[t].state = "running"
               PROVE  run'[t].lease = Lease
    OBVIOUS
  <2>1. run'[t].attempt # run[t].attempt
    BY <1>6 DEF Expires
  <2> QED
    BY <1>1, <2>1 DEF Claims, Taken
<1>12. DogsOK'
  <2> SUFFICES ASSUME NEW q \in Process, NEW g \in exec'[q], Executing(g)
               PROVE  IF Current(g)'
                      THEN run'[g.task].state = "running" => g.dog <= run'[g.task].lease + Lease
                      ELSE /\ g.dog <= Lease
                           /\ run'[g.task].state = "running" => g.dog <= run'[g.task].lease
    BY DEF DogsOK
  <2>1. CASE New(q, g)
    <3>1. Current(g)' /\ run'[g.task].lease = Lease /\ g.dog = 2 * Lease
      BY <2>1 DEF New, Current
    <3>2. g.dog <= run'[g.task].lease + Lease
      BY <1>5, <3>1
    <3> QED
      BY <3>1, <3>2
  <2>2. CASE g \in exec[q]
    <3>1. g.task \in Task /\ g.dog \in Nat
      BY <1>4, <2>2
    <3>2. IF Current(g)
          THEN run[g.task].state = "running" => g.dog <= run[g.task].lease + Lease
          ELSE /\ g.dog <= Lease
               /\ run[g.task].state = "running" => g.dog <= run[g.task].lease
      BY <2>2 DEF Inv, DogsOK
    <3>3. CASE Current(g)'
      <4>1. Current(g) /\ (run'[g.task] = run[g.task] \/ run'[g.task].state = "failed")
        BY <1>4, <2>2, <3>3
      <4> QED
        BY <3>2, <3>3, <4>1
    <3>4. CASE ~Current(g)' /\ Expires(g.task)
      <4>1. run[g.task].state = "running" /\ run[g.task].lease = 0
        BY <3>4 DEF Expires
      <4>2. g.dog <= Lease
        BY <1>5, <3>1, <3>2, <4>1
      <4>3. run'[g.task].state = "running" => run'[g.task].lease = Lease
        BY <1>11, <3>1, <3>4
      <4> QED
        BY <3>4, <4>2, <4>3
    <3>5. CASE ~Current(g)' /\ ~Expires(g.task)
      <4>1. ~Current(g) /\ (run'[g.task] = run[g.task] \/ Taken(g.task)
                              \/ run'[g.task].state = "failed")
        BY <1>4, <2>2, <3>5
      <4>2. g.dog <= Lease /\ (run[g.task].state = "running" => g.dog <= run[g.task].lease)
        BY <3>2, <4>1
      <4>3. CASE Taken(g.task)
        BY <3>5, <4>2, <4>3 DEF Taken
      <4> QED
        BY <3>5, <4>1, <4>2, <4>3
    <3> QED
      BY <3>3, <3>4, <3>5
  <2> QED
    BY <1>3, <2>1, <2>2
<1>13. OneSuperseded'
  <2> SUFFICES ASSUME NEW q \in Process, NEW r \in Process,
                      NEW g \in exec'[q], NEW h \in exec'[r],
                      g.task = h.task, ~Current(g)', ~Current(h)',
                      Executing(g), Executing(h), g.dog > 0, h.dog > 0
               PROVE  g.attempt = h.attempt
    BY DEF OneSuperseded
  <2>1. g \in exec[q] /\ h \in exec[r]
    BY <1>3 DEF New, Current
  <2>2. g.dog \in Nat /\ h.dog \in Nat
    BY <1>4, <2>1
  <2>3. CASE Expires(g.task)
    <3>1. run[g.task].state = "running" /\ run[g.task].lease = 0
      BY <2>3 DEF Expires
    <3>2. Current(g)
      <4>1. ~Current(g) => g.dog <= 0
        BY <2>1, <3>1 DEF Inv, DogsOK
      <4> QED
        BY <2>2, <4>1
    <3>3. Current(h)
      <4>1. ~Current(h) => h.dog <= 0
        BY <2>1, <3>1 DEF Inv, DogsOK
      <4> QED
        BY <2>2, <4>1
    <3> QED
      BY <3>2, <3>3 DEF Current
  <2>4. CASE ~Expires(g.task)
    <3>1. ~Current(g) /\ ~Current(h)
      BY <1>4, <2>1, <2>4
    <3> QED
      BY <2>1, <3>1 DEF Inv, OneSuperseded
  <2> QED
    BY <2>3, <2>4
<1>14. AllUsedOK'
  <2> SUFFICES ASSUME NEW q \in Process, NEW g \in exec'[q]
               PROVE  UsedOK(g)'
    BY DEF AllUsedOK
  <2>1. CASE New(q, g)
    <3>1. g.used = <<>> /\ g.at \in {"handler", "unknown"}
      BY <2>1 DEF New
    <3>2. Len(g.used) = 0
      BY <3>1
    <3> QED
      BY <3>1, <3>2 DEF UsedOK
  <2>2. CASE g \in exec[q]
    <3>1. UsedOK(g) /\ (Current(g)' => Current(g))
      BY <1>4, <2>2 DEF Inv, AllUsedOK
    <3> QED
      BY <1>1, <3>1 DEF UsedOK
  <2> QED
    BY <1>3, <2>1, <2>2
<1>15. ResultRestsOnSteps'
  <2>1. \A t \in Task : run'[t].state = "completed" => run[t].state = "completed"
    BY <1>1 DEF Claims, Taken
  <2> QED
    BY <1>1, <2>1 DEF Inv, ResultRestsOnSteps
<1> QED
  BY <1>7, <1>8, <1>9, <1>10, <1>12, <1>13, <1>14, <1>15 DEF Inv

-----------------------------------------------------------------------------
(* The theorems.                                                           *)

LEMMA NextKeeps == Inv /\ [Next]_vars => Inv'
<1> SUFFICES ASSUME Inv, [Next]_vars PROVE Inv'
  OBVIOUS
<1>1. ASSUME NEW p \in Process, Claim(p) \/ ClaimLost(p) PROVE Inv'
  BY <1>1, ClaimKeeps
<1>2. ASSUME NEW p \in Process,
             Close(p) \/ Closed(p) \/ WatchdogExits(p) \/ Crash(p)
      PROVE  Inv'
  BY <1>2, EndsKeeps DEF WatchdogExits, Crash
<1>3. ASSUME NEW p \in Process, NEW e \in exec[p], Handler(p, e) PROVE Inv'
  BY <1>3, BeginStepKeeps, CompleteStepKeeps, HandlerEnds DEF Handler
<1>4. ASSUME NEW p \in Process, NEW e \in exec[p], Finish(p, e) PROVE Inv'
  BY <1>4, FinishKeeps
<1>5. ASSUME NEW t \in Task, Wake(t) \/ Cancel(t) PROVE Inv'
  BY <1>5, WakeKeeps
<1>6. CASE Tick
  BY <1>6, TickKeeps
<1>7. CASE UNCHANGED vars
  BY <1>7 DEF vars, Inv, TypeOK, NoneIsAhead, OneOfEach, OnlyClaimed, DogsOK,
              OneSuperseded, AllUsedOK, UsedOK, Current, ResultRestsOnSteps
<1> QED
  BY <1>1, <1>2, <1>3, <1>4, <1>5, <1>6, <1>7 DEF Next

LEMMA Invariance == Spec => []Inv
<1>1. Init => Inv
  BY InitInv
<1>2. Inv /\ [Next]_vars => Inv'
  BY NextKeeps
<1> QED
  BY <1>1, <1>2, PTL DEF Spec

\* Rows, processes and executions have their types: in particular no claim
\* adds an execution of an attempt beyond the limit.
THEOREM TypeCorrect == Spec => []TypeOK
<1>1. Inv => TypeOK
  BY DEF Inv
<1> QED
  BY <1>1, Invariance, PTL

\* A task completes with the values of its recorded steps, whatever its
\* superseded attempts were doing (completeStep and completeRun are refused
\* on their behalf), as long as none of them fails within its call of
\* set_task_checkpoint_state (CheckpointsAreKept of TaskTransactions).
THEOREM ResultsRestOnSteps == Spec => []ResultRestsOnSteps
<1>1. Inv => ResultRestsOnSteps
  BY DEF Inv
<1> QED
  BY <1>1, Invariance, PTL

\* No attempt is executed twice, in one process or in two: a claim whose
\* answer is lost is executed by nobody, and the next one is of another
\* attempt (startWorker, claim_task).
THEOREM EachRunIsExecutedOnce == Spec => []OneOfEach
<1>1. Inv => OneOfEach
  BY DEF Inv
<1> QED
  BY <1>1, Invariance, PTL

\* Of three handlers at work on a task, two are the same: at most one is of
\* its last run, and the others are of the same superseded run.
LEMMA TwoOfThree ==
  ASSUME Inv, NEW t \in Task,
         NEW x \in AtWork(t), NEW y \in AtWork(t), NEW z \in AtWork(t)
  PROVE  x = y \/ y = z \/ x = z
<1>1. PICK p \in Process : \E e \in exec[p] :
        x = <<p, e.attempt>> /\ e.task = t /\ Executing(e) /\ e.dog > 0
  BY DEF AtWork
<1>2. PICK q \in Process : \E f \in exec[q] :
        y = <<q, f.attempt>> /\ f.task = t /\ Executing(f) /\ f.dog > 0
  BY DEF AtWork
<1>3. PICK r \in Process : \E g \in exec[r] :
        z = <<r, g.attempt>> /\ g.task = t /\ Executing(g) /\ g.dog > 0
  BY DEF AtWork
<1> PICK e \in exec[p] :
      x = <<p, e.attempt>> /\ e.task = t /\ Executing(e) /\ e.dog > 0
  BY <1>1
<1> PICK f \in exec[q] :
      y = <<q, f.attempt>> /\ f.task = t /\ Executing(f) /\ f.dog > 0
  BY <1>2
<1> PICK g \in exec[r] :
      z = <<r, g.attempt>> /\ g.task = t /\ Executing(g) /\ g.dog > 0
  BY <1>3
<1>4. e.attempt = f.attempt => x = y
  BY <1>1, <1>2 DEF Inv, OneOfEach
<1>5. f.attempt = g.attempt => y = z
  BY <1>2, <1>3 DEF Inv, OneOfEach
<1>6. e.attempt = g.attempt => x = z
  BY <1>1, <1>3 DEF Inv, OneOfEach
<1>7. Current(e) /\ Current(f) => e.attempt = f.attempt
  BY <1>1, <1>2 DEF Current
<1>8. Current(f) /\ Current(g) => f.attempt = g.attempt
  BY <1>2, <1>3 DEF Current
<1>9. Current(e) /\ Current(g) => e.attempt = g.attempt
  BY <1>1, <1>3 DEF Current
<1>10. ~Current(e) /\ ~Current(f) => e.attempt = f.attempt
  BY <1>1, <1>2 DEF Inv, OneSuperseded
<1>11. ~Current(f) /\ ~Current(g) => f.attempt = g.attempt
  BY <1>2, <1>3 DEF Inv, OneSuperseded
<1>12. ~Current(e) /\ ~Current(g) => e.attempt = g.attempt
  BY <1>1, <1>3 DEF Inv, OneSuperseded
<1> QED
  BY <1>4, <1>5, <1>6, <1>7, <1>8, <1>9, <1>10, <1>11, <1>12

\* A set of which any three elements are not distinct has two at most.
LEMMA AtMostTwo ==
  ASSUME NEW S, \A x, y, z \in S : x = y \/ y = z \/ x = z
  PROVE  Cardinality(S) <= 2
<1>1. CASE S = {}
  <2>1. Cardinality(S) = 0
    BY <1>1, FS_EmptySet
  <2> QED
    BY <2>1
<1>2. CASE S # {}
  <2>1. PICK x \in S : TRUE
    BY <1>2
  <2>2. CASE S = {x}
    <3>1. Cardinality(S) = 1
      BY <2>2, FS_Singleton
    <3> QED
      BY <3>1
  <2>3. CASE S # {x}
    <3>1. PICK y \in S : y # x
      BY <2>1, <2>3
    <3>2. S = {x} \union {y}
      BY <2>1, <3>1
    <3>3. IsFiniteSet({x}) /\ Cardinality({x}) = 1
      BY FS_Singleton
    <3>4. Cardinality({x} \union {y}) = 1 + 1
      BY <3>1, <3>3, FS_AddElement
    <3> QED
      BY <3>2, <3>4
  <2> QED
    BY <2>2, <2>3
<1> QED
  BY <1>1, <1>2

\* No more than two handlers work on a task at the same time: the watchdog
\* ends a process (startWorker) before its successor's claim has expired.
THEOREM AtMostTwoHandlers == Spec => []TwoHandlersAtMost
<1>1. Inv => TwoHandlersAtMost
  <2> SUFFICES ASSUME Inv, NEW t \in Task PROVE Cardinality(AtWork(t)) <= 2
    BY DEF TwoHandlersAtMost
  <2> QED
    BY TwoOfThree, AtMostTwo
<1> QED
  BY <1>1, Invariance, PTL
-----------------------------------------------------------------------------
(* What clients see of a task.                                             *)

\* A live row goes on or ends, or has another attempt; one that has ended
\* stays as it is.
RowMoves(t) ==
  \/ run'[t].state = run[t].state /\ run'[t].attempt = run[t].attempt
  \/ Live(t) /\ run'[t].attempt = run[t].attempt
  \/ Live(t) /\ Live(t)' /\ run'[t].attempt = run[t].attempt + 1

AllRowsMove == \A t \in Task : RowMoves(t)

\* One row is written.
LEMMA OneRowMoves ==
  ASSUME TypeOK, NEW t \in Task, NEW row, run' = [run EXCEPT ![t] = row],
         \/ row.attempt = run[t].attempt /\ (Live(t) \/ row.state = run[t].state)
         \/ /\ Live(t) /\ row.attempt = run[t].attempt + 1
            /\ row.state = "pending"
  PROVE  AllRowsMove
BY DEF TypeOK, AllRowsMove, RowMoves, Live

LEMMA FailMoves ==
  ASSUME TypeOK, NEW p \in Process, NEW e \in exec[p], run' = AfterFail(e)
  PROVE  AllRowsMove
<1>1. e.task \in Task /\ run[e.task] \in RunRow
  BY ExecutionTyped
<1>2. CASE run' = run
  BY <1>2 DEF AllRowsMove, RowMoves
<1>3. CASE /\ run[e.task].state \in {"running", "sleeping"}
           /\ run' = [run EXCEPT ![e.task] = Failed(run[e.task])]
  <2>1. /\ Live(e.task)
        /\ Failed(run[e.task]).state \in {"pending", "failed"}
        /\ Failed(run[e.task]).state = "pending" =>
             Failed(run[e.task]).attempt = run[e.task].attempt + 1
        /\ Failed(run[e.task]).state = "failed" =>
             Failed(run[e.task]).attempt = run[e.task].attempt
    BY <1>1, <1>3, FailedIsRow DEF Live
  <2> QED
    BY <1>1, <1>3, <2>1, OneRowMoves
<1> QED
  BY <1>2, <1>3 DEF AfterFail

\* A call on behalf of an execution.
LEMMA ExecutionMoves ==
  ASSUME TypeOK, NEW p \in Process, NEW e \in exec[p], Handler(p, e) \/ Finish(p, e)
  PROVE  AllRowsMove
<1>1. e.task \in Task /\ run[e.task] \in RunRow
  BY ExecutionTyped
<1>2. CASE run' = run
  BY <1>2 DEF AllRowsMove, RowMoves
<1>3. CASE Record(e)
  <2>1. [run[e.task] EXCEPT !.lease = Lease].attempt = run[e.task].attempt
        /\ [run[e.task] EXCEPT !.lease = Lease].state = run[e.task].state
    BY <1>1 DEF RunRow
  <2>2. \/ run' = run
        \/ run' = [run EXCEPT ![e.task] = [run[e.task] EXCEPT !.lease = Lease]]
    BY <1>3 DEF Record
  <2> QED
    BY <1>1, <1>2, <2>1, <2>2, OneRowMoves
<1>4. CASE DeferFails(p, e) \/ FailRun(p, e)
  BY <1>4, FailMoves DEF DeferFails, FailRun
<1>5. ASSUME NEW state, Owns(e),
             run' = [run EXCEPT ![e.task].state = state, ![e.task].lease = 0]
      PROVE  AllRowsMove
  <2>1. Live(e.task)
    BY <1>5 DEF Owns, Live
  <2>2. run' = [run EXCEPT ![e.task] =
                  [run[e.task] EXCEPT !.state = state, !.lease = 0]]
    BY <1>1, <1>5 DEF TypeOK
  <2>3. [run[e.task] EXCEPT !.state = state, !.lease = 0].attempt
          = run[e.task].attempt
    BY <1>1 DEF RunRow
  <2> QED
    BY <1>1, <2>1, <2>2, <2>3, OneRowMoves
<1>6. CASE CompleteRun(p, e) \/ DeferUnknown(p, e)
  BY <1>2, <1>5, <1>6 DEF CompleteRun, DeferUnknown
<1> QED
  BY <1>2, <1>3, <1>4, <1>6
     DEF Handler, Finish, BeginStep, CompleteStep, CompleteStepLost,
         HandlerFails, HandlerReturns, CallLost

LEMMA NextMoves ==
  ASSUME TypeOK, [Next]_vars
  PROVE  AllRowsMove
<1>1. CASE run' = run
  BY <1>1 DEF AllRowsMove, RowMoves
<1>2. ASSUME NEW n, NEW taken, ClaimTasks(n, taken) PROVE AllRowsMove
  <2> SUFFICES ASSUME NEW t \in Task PROVE RowMoves(t)
    BY DEF AllRowsMove
  <2>1. Claims(t, taken)
    BY <1>2, ClaimRows
  <2> QED
    BY <2>1 DEF Claims, Taken, Expires, RowMoves, Live
<1>3. ASSUME NEW p \in Process,
             \/ Claim(p) \/ ClaimLost(p) \/ Close(p) \/ Closed(p)
             \/ WatchdogExits(p) \/ Crash(p)
      PROVE  AllRowsMove
  BY <1>1, <1>2, <1>3 DEF Claim, ClaimLost, Close, Closed, WatchdogExits, Crash, Ends
<1>4. ASSUME NEW t \in Task, Wake(t) PROVE AllRowsMove
  <2>1. run' = [run EXCEPT ![t] = [run[t] EXCEPT !.state = "pending"]]
        /\ Live(t)
    BY <1>4 DEF Wake, Live
  <2>2. [run[t] EXCEPT !.state = "pending"].attempt = run[t].attempt
    BY DEF TypeOK, RunRow
  <2> QED
    BY <2>1, <2>2, OneRowMoves
<1>5. ASSUME NEW t \in Task, Cancel(t) PROVE AllRowsMove
  <2>1. run' = [run EXCEPT ![t] = [run[t] EXCEPT !.state = "cancelled", !.lease = 0]]
        /\ Live(t)
    BY <1>5 DEF Cancel, TypeOK
  <2>2. [run[t] EXCEPT !.state = "cancelled", !.lease = 0].attempt = run[t].attempt
    BY DEF TypeOK, RunRow
  <2> QED
    BY <2>1, <2>2, OneRowMoves
<1>6. CASE Tick
  <2>1. \A t \in Task : /\ run'[t] = [run[t] EXCEPT !.lease = Less(@)]
                       /\ run[t] \in RunRow
    BY <1>6 DEF Tick, TypeOK
  <2>2. \A t \in Task : /\ run'[t].state = run[t].state
                       /\ run'[t].attempt = run[t].attempt
    BY <2>1 DEF RunRow
  <2> QED
    BY <2>2 DEF AllRowsMove, RowMoves
<1> QED
  BY <1>1, <1>3, <1>4, <1>5, <1>6, ExecutionMoves DEF Next, vars

LEMMA MovesAreSteps ==
  ASSUME TypeOK, TypeOK', AllRowsMove
  PROVE  Lifecycle!Next
<1> SUFFICES ASSUME NEW t \in Task PROVE Lifecycle!TaskStep(t)
  BY DEF Lifecycle!Next
<1>1. RowMoves(t) /\ run[t] \in RunRow /\ run'[t] \in RunRow
  BY DEF AllRowsMove, TypeOK
<1>2. CASE run'[t].state = run[t].state /\ run'[t].attempt = run[t].attempt
  BY <1>2 DEF Live, Lifecycle!TaskStep, Lifecycle!Stay, Lifecycle!Becomes
<1>3. CASE Live(t) /\ run'[t].attempt = run[t].attempt
  <2>1. CASE Live(t)'
    BY <1>3, <2>1 DEF Live, Lifecycle!TaskStep, Lifecycle!Stay, Lifecycle!Becomes
  <2>2. CASE ~Live(t)'
    <3>1. run'[t].state \in Lifecycle!Ended
      BY <1>1, <2>2 DEF RunRow, Live, Lifecycle!Ended
    <3> QED
      BY <1>3, <2>2, <3>1
         DEF Live, Lifecycle!TaskStep, Lifecycle!End, Lifecycle!Becomes
  <2> QED
    BY <2>1, <2>2
<1>4. CASE Live(t) /\ Live(t)' /\ run'[t].attempt = run[t].attempt + 1
  BY <1>4 DEF Live, Lifecycle!TaskStep, Lifecycle!AttemptAgain, Lifecycle!Becomes
<1> QED
  BY <1>1, <1>2, <1>3, <1>4 DEF RowMoves

\* Whatever processes serve a task, with executions that are superseded,
\* killed or not answered, it is to its clients one that TaskLifecycle
\* describes: it ends once, and its attempts are counted one by one.
THEOREM ExecutionsKeepLifecycle == Spec => KeepsLifecycle
<1>1. TypeOK /\ TypeOK' /\ [Next]_vars => [Lifecycle!Next]_run
  BY NextMoves, MovesAreSteps
<1> QED
  BY <1>1, TypeCorrect, PTL DEF Spec, KeepsLifecycle
=============================================================================

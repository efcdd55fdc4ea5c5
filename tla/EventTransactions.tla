------------------------- MODULE EventTransactions -------------------------
(***************************************************************************)
(* await_event, emit_event and cleanup_events of sql/absurd.sql at work on *)
(* one event at the same time.  AbsurdQueue has each of them as one step;  *)
(* here they are transactions under READ COMMITTED, one action for each    *)
(* statement that reads or locks what another transaction may write.       *)
(*                                                                         *)
(*     event      the committed row of e_<queue>                           *)
(*     writer     the transaction that holds the row, or its key, for      *)
(*     draft      update, and the version it has written                   *)
(*     sharers    the transactions that hold the row FOR SHARE             *)
(*     runLock    the transaction that holds a run's row FOR UPDATE        *)
(*     runState   the committed state of the runs                          *)
(*     waiting    the runs with a committed row in w_<queue>               *)
(*     checkpoint the committed checkpoint of each run's awaiting step     *)
(*     session    where each session is in its transaction                 *)
(*                                                                         *)
(* Awaits have no timeout here.  A statement that writes its own rows only *)
(* is part of the action that commits.  A session may break off at any     *)
(* time: it raised, or its connection was lost.                            *)
(***************************************************************************)
EXTENDS Naturals, Sequences

CONSTANTS
  Run,
  Worker, Client, Cleaner,  \* sessions that await, emit and clean up
  Payload, Null

Session == Worker \union Client \union Cleaner

ASSUME SessionAssumption ==
  /\ Worker \intersect Client = {}
  /\ Worker \intersect Cleaner = {}
  /\ Client \intersect Cleaner = {}
  /\ Null \notin Session \union Run \union Payload

VARIABLES event, writer, draft, sharers, runLock, runState, waiting,
          checkpoint, session

tables == <<event, runState, waiting, checkpoint>>
locks == <<writer, draft, sharers, runLock>>
vars == <<event, writer, draft, sharers, runLock, runState, waiting,
          checkpoint, session>>

\* An emitted row is "old" once its emitted_at is before the cleanup cutoff;
\* a sentinel always is.
EventRow ==
  [state : {"absent", "sentinel", "emitted", "old"},
   payload : Payload \union {Null}]

NoEvent == [state |-> "absent", payload |-> Null]
Sentinel == [state |-> "sentinel", payload |-> Null]
Emitted(p) == [state |-> "emitted", payload |-> p]

IsEmitted(row) == row.state \in {"emitted", "old"}

Point ==
  {"idle", "insert", "share", "lock", "read", "settle",  \* await_event
   "scan", "wake",                                       \* emit_event
   "delete"}                                             \* cleanup_events

\* run and seen belong to await_event, affected to emit_event.
SessionRow ==
  [at : Point, run : Run \union {Null}, seen : Payload \union {Null},
   affected : SUBSET Run]

Idle == [at |-> "idle", run |-> Null, seen |-> Null, affected |-> {}]

Goto(s, point) == session' = [session EXCEPT ![s] = [@ EXCEPT !.at = point]]

\* Commit: what s has written is seen, and its locks are given back.
Committed(s) == IF writer = s THEN draft ELSE event

ReleaseLocks(s) ==
  /\ writer' = IF writer = s THEN Null ELSE writer
  /\ draft' = IF writer = s THEN NoEvent ELSE draft
  /\ sharers' = sharers \ {s}
  /\ runLock' = [r \in Run |-> IF runLock[r] = s THEN Null ELSE runLock[r]]

Commit(s) ==
  /\ event' = Committed(s)
  /\ ReleaseLocks(s)
  /\ session' = [session EXCEPT ![s] = Idle]

\* Rollback: a raised exception or a lost connection.
Abort(s) ==
  /\ session[s].at # "idle"
  /\ ReleaseLocks(s)
  /\ session' = [session EXCEPT ![s] = Idle]
  /\ UNCHANGED tables

-----------------------------------------------------------------------------
(* await_event.  The order of its statements is the order of its locks:    *)
(* first the event, then the run.                                          *)

\* Mutant: the run is locked first.
RunFirst == <<"insert", "lock", "share", "read", "settle">>

AwaitOrder == <<"insert", "share", "lock", "read", "settle">>

NextPoint(point) ==
  AwaitOrder[1 + CHOOSE i \in 1 .. 4 : AwaitOrder[i] = point]

\* The step has no checkpoint yet; otherwise the call returns it.
BeginAwait(w, r) ==
  /\ session[w].at = "idle"
  /\ checkpoint[r] = Null
  /\ session' = [session EXCEPT ![w] =
       [Idle EXCEPT !.at = AwaitOrder[1], !.run = r]]
  /\ UNCHANGED <<tables, locks>>

\* "on conflict do nothing" waits for a transaction that writes the row.
InsertSentinel(w) ==
  /\ session[w].at = "insert"
  /\ writer = Null
  /\ IF event.state = "absent"
     THEN writer' = w /\ draft' = Sentinel
     ELSE UNCHANGED <<writer, draft>>
  /\ Goto(w, NextPoint("insert"))
  /\ UNCHANGED <<tables, sharers, runLock>>

\* Mutant: the row is read without "for share".
ReadEventRow(w) ==
  /\ session[w].at = "share"
  /\ Goto(w, NextPoint("share"))
  /\ UNCHANGED <<tables, locks>>

\* A row that is gone is not locked, nor does anybody wait for it.
LockEventRow(w) ==
  /\ session[w].at = "share"
  /\ event.state = "absent" \/ writer = Null
  /\ sharers' = IF event.state = "absent" THEN sharers
                ELSE sharers \union {w}
  /\ Goto(w, NextPoint("share"))
  /\ UNCHANGED <<tables, writer, draft, runLock>>

LockRunRow(w) ==
  LET r == session[w].run
  IN  /\ session[w].at = "lock"
      /\ runLock[r] = Null
      /\ runLock' = [runLock EXCEPT ![r] = w]
      /\ Goto(w, NextPoint("lock"))
      /\ UNCHANGED <<tables, writer, draft, sharers>>

ReadPayload(w) ==
  /\ session[w].at = "read"
  /\ session' = [session EXCEPT ![w] =
       [@ EXCEPT !.at = NextPoint("read"), !.seen = event.payload]]
  /\ UNCHANGED <<tables, locks>>

\* A run that is not running leaves only Abort.
Resolve(w) ==
  LET r == session[w].run
  IN  /\ session[w].at = "settle"
      /\ runState[r] = "running"
      /\ session[w].seen # Null
      /\ checkpoint' = [checkpoint EXCEPT ![r] = session[w].seen]
      /\ Commit(w)
      /\ UNCHANGED <<runState, waiting>>

Park(w) ==
  LET r == session[w].run
  IN  /\ session[w].at = "settle"
      /\ runState[r] = "running"
      /\ session[w].seen = Null
      /\ waiting' = waiting \union {r}
      /\ runState' = [runState EXCEPT ![r] = "sleeping"]
      /\ Commit(w)
      /\ UNCHANGED checkpoint

-----------------------------------------------------------------------------
(* emit_event.                                                             *)

\* Mutant: an event can be emitted again, with another payload.
EmitAgain(c, p) ==
  /\ session[c].at = "idle"
  /\ writer = Null /\ sharers = {}
  /\ writer' = c
  /\ draft' = Emitted(p)
  /\ Goto(c, "scan")
  /\ UNCHANGED <<tables, sharers, runLock>>

\* "on conflict do update" waits for all who hold the row.  An event that
\* was emitted before is left alone: no step.
Upsert(c, p) ==
  /\ session[c].at = "idle"
  /\ writer = Null /\ sharers = {}
  /\ ~IsEmitted(event)
  /\ writer' = c
  /\ draft' = Emitted(p)
  /\ Goto(c, "scan")
  /\ UNCHANGED <<tables, sharers, runLock>>

\* The snapshot of the statement that wakes the runs.
ScanWaits(c) ==
  /\ session[c].at = "scan"
  /\ session' = [session EXCEPT ![c] =
       [@ EXCEPT !.at = "wake", !.affected = waiting]]
  /\ UNCHANGED <<tables, locks>>

\* The update waits for the run's row, then looks at its state again.
LockAffectedRun(c, r) ==
  /\ session[c].at = "wake"
  /\ r \in session[c].affected
  /\ runLock[r] = Null
  /\ runLock' = IF runState[r] = "sleeping"
                THEN [runLock EXCEPT ![r] = c] ELSE runLock
  /\ session' = [session EXCEPT ![c] =
           [@ EXCEPT !.affected = session[c].affected \ {r}]]
  /\ UNCHANGED <<tables, writer, draft, sharers>>

WakeRuns(c) ==
  LET woken == {r \in Run : runLock[r] = c}
  IN  /\ session[c].at = "wake"
      /\ session[c].affected = {}
      /\ runState' = [r \in Run |->
                        IF r \in woken THEN "pending" ELSE runState[r]]
      /\ checkpoint' = [r \in Run |->
                          IF r \in woken THEN draft.payload ELSE checkpoint[r]]
      /\ waiting' = waiting \ woken
      /\ Commit(c)

-----------------------------------------------------------------------------
(* cleanup_events.                                                         *)

\* The subquery of the delete, on the statement's snapshot.
SelectOld(k) ==
  /\ session[k].at = "idle"
  /\ event.state \in {"sentinel", "old"}
  /\ Goto(k, "delete")
  /\ UNCHANGED <<tables, locks>>

\* The delete waits for all who hold the row.  If they have updated it, the
\* condition is tested again, and it is still the name that was selected.
\* A transaction that selected the row and finds it gone deletes nothing.
DeleteSelected(k) ==
  /\ session[k].at = "delete"
  /\ writer = Null /\ sharers = {}
  /\ event' = NoEvent
  /\ session' = [s \in Session |->
                   IF session[s].at = "delete" THEN Idle ELSE session[s]]
  /\ UNCHANGED <<locks, runState, waiting, checkpoint>>

-----------------------------------------------------------------------------

\* claim_task takes a run that is due and not locked.
Claim(r) ==
  /\ runState[r] = "pending"
  /\ runLock[r] = Null
  /\ runState' = [runState EXCEPT ![r] = "running"]
  /\ UNCHANGED <<event, waiting, checkpoint, locks, session>>

\* Time passes until the event is older than the cleanup's TTL.
Age ==
  /\ event.state = "emitted"
  /\ event' = [event EXCEPT !.state = "old"]
  /\ UNCHANGED <<runState, waiting, checkpoint, locks, session>>

Init ==
  /\ event = NoEvent
  /\ writer = Null /\ draft = NoEvent /\ sharers = {}
  /\ runLock = [r \in Run |-> Null]
  /\ runState = [r \in Run |-> "pending"]
  /\ waiting = {}
  /\ checkpoint = [r \in Run |-> Null]
  /\ session = [s \in Session |-> Idle]

AwaitStep(w) ==
  \/ \E r \in Run : BeginAwait(w, r)
  \/ InsertSentinel(w)
  \/ LockEventRow(w)
  \/ LockRunRow(w)
  \/ ReadPayload(w)
  \/ Resolve(w)
  \/ Park(w)

EmitStep(c) ==
  \/ \E p \in Payload : Upsert(c, p)
  \/ ScanWaits(c)
  \/ \E r \in Run : LockAffectedRun(c, r)
  \/ WakeRuns(c)

CleanupStep(k) == SelectOld(k) \/ DeleteSelected(k)

Next ==
  \/ \E w \in Worker : AwaitStep(w)
  \/ \E c \in Client : EmitStep(c)
  \/ \E k \in Cleaner : CleanupStep(k)
  \/ \E s \in Session : Abort(s)
  \/ \E r \in Run : Claim(r)
  \/ Age

Spec == Init /\ [][Next]_vars

-----------------------------------------------------------------------------
(* Properties.                                                             *)

\* Rows, locks and sessions have their types, and what a session is doing
\* is its own.
TypeOK ==
  /\ event \in EventRow
  /\ writer \in Session \union {Null}
  /\ draft \in EventRow
  /\ sharers \in SUBSET Session
  /\ runLock \in [Run -> Session \union {Null}]
  /\ runState \in [Run -> {"pending", "running", "sleeping"}]
  /\ waiting \in SUBSET Run
  /\ checkpoint \in [Run -> Payload \union {Null}]
  /\ session \in [Session -> SessionRow]
  /\ \A s \in Session : session[s].at \in
       IF s \in Worker
       THEN {"idle", "insert", "share", "lock", "read", "settle"}
       ELSE IF s \in Client THEN {"idle", "scan", "wake"}
       ELSE {"idle", "delete"}
  /\ \A w \in Worker : session[w].at # "idle" => session[w].run \in Run

\* No wakeup is lost between transactions: once an event is emitted, no run
\* waits for it.  A run that parked after looking before the emission, and
\* committed its wait after the emission had looked for waits, would.
NoLostWakeup == IsEmitted(event) => waiting = {}

Atomic ==
  INSTANCE AtomicEvent
  WITH emitted <- IF IsEmitted(event) THEN event.payload ELSE Null

\* Without cleanup, sessions at work at the same time change the runs, their
\* checkpoints and the event as if each call of await_event and emit_event
\* ran alone: whoever awaits is given the one payload, at once or when woken.
FunctionsAreAtomic == Atomic!Spec

\* The sessions that session s waits for.
WaitsFor(s) ==
  {h \in Session \ {s} :
     \/ session[s].at = "insert" /\ h = writer
     \/ session[s].at = "share" /\ event.state # "absent" /\ h = writer
     \/ session[s].at = "lock" /\ h = runLock[session[s].run]
     \/ session[s].at = "wake" /\ \E r \in session[s].affected : h = runLock[r]
     \/ session[s].at = "delete" /\ (h = writer \/ h \in sharers)}

\* The order of locks avoids deadlocks: no sessions wait for each other in a
\* cycle.
NoDeadlock ==
  \A S \in (SUBSET Session) \ {{}} : \E s \in S : WaitsFor(s) \intersect S = {}

=============================================================================

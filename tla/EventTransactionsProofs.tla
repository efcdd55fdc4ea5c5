---------------------- MODULE EventTransactionsProofs ----------------------
(***************************************************************************)
(* await_event, emit_event and cleanup_events at work on one event, in any *)
(* number of sessions.                                                     *)
(*                                                                         *)
(* They never deadlock: each function locks the event before it locks a    *)
(* run and knows of no other order, so that of sessions that wait for each *)
(* other the one furthest in that order waits for nobody.                  *)
(*                                                                         *)
(* Without cleanup_events no wakeup is lost: a run that is about to park   *)
(* holds the event row (or has inserted it itself) from before it reads    *)
(* the payload until its wait is committed; an emission holds the same row *)
(* from before it looks for waits until it commits.                        *)
(*                                                                         *)
(* For the same reason each await and each emission acts as one step, and  *)
(* the sessions implement AtomicEvent.                                     *)
(***************************************************************************)
EXTENDS EventTransactions, TLAPS

USE SessionAssumption DEF Session

-----------------------------------------------------------------------------
(* Lemmas about the order of await_event's statements and about types.     *)

\* The order of the statements of await_event, point by point.
LEMMA NextPoints ==
  /\ AwaitOrder[1] = "insert"
  /\ NextPoint("insert") = "share"
  /\ NextPoint("share") = "lock"
  /\ NextPoint("lock") = "read"
  /\ NextPoint("read") = "settle"
<1>1. \A i \in 1 .. 4 : i = 1 \/ i = 2 \/ i = 3 \/ i = 4
  OBVIOUS
<1>2. /\ AwaitOrder[1] = "insert" /\ AwaitOrder[2] = "share"
      /\ AwaitOrder[3] = "lock" /\ AwaitOrder[4] = "read"
      /\ AwaitOrder[5] = "settle"
  BY DEF AwaitOrder
<1>3. \A p : \A i \in 1 .. 4 : AwaitOrder[i] = p =>
        NextPoint(p) = AwaitOrder[1 + i]
  <2>. SUFFICES ASSUME NEW p, NEW i \in 1 .. 4, AwaitOrder[i] = p
                PROVE  NextPoint(p) = AwaitOrder[1 + i]
    OBVIOUS
  <2>1. \A j \in 1 .. 4 : AwaitOrder[j] = p => j = i
    BY <1>1, <1>2
  <2>2. i = CHOOSE j \in 1 .. 4 : AwaitOrder[j] = p
    BY <2>1
  <2>. QED
    BY <2>2 DEF NextPoint
<1>. QED
  BY <1>2, <1>3

\* Starting an await keeps the types.
LEMMA BeginKeepsTypes ==
  ASSUME TypeOK, NEW w \in Worker, NEW r \in Run, BeginAwait(w, r)
  PROVE  TypeOK'
<1>1. session[w] \in SessionRow /\ session[w].at = "idle"
  BY DEF TypeOK, BeginAwait
<1>2. session'[w] = [Idle EXCEPT !.at = "insert", !.run = r]
  BY NextPoints DEF TypeOK, BeginAwait
<1>3. session'[w] \in SessionRow /\ session'[w].at = "insert"
  BY <1>1, <1>2 DEF SessionRow, Point, Idle
<1>. QED
  BY <1>3 DEF TypeOK, BeginAwait, tables, locks

\* So does inserting the sentinel,
LEMMA InsertKeepsTypes ==
  ASSUME TypeOK, NEW w \in Worker, InsertSentinel(w)
  PROVE  TypeOK'
BY NextPoints DEF TypeOK, InsertSentinel, Goto, tables,
     EventRow, Sentinel, SessionRow, Point

\* locking the event row,
LEMMA ShareKeepsTypes ==
  ASSUME TypeOK, NEW w \in Worker, LockEventRow(w)
  PROVE  TypeOK'
BY NextPoints DEF TypeOK, LockEventRow, Goto, tables,
     SessionRow, Point

\* locking the run,
LEMMA LockKeepsTypes ==
  ASSUME TypeOK, NEW w \in Worker, LockRunRow(w)
  PROVE  TypeOK'
<1>1. session[w] \in SessionRow /\ session[w].at = "lock"
  BY DEF TypeOK, LockRunRow
<1>2. session'[w] = [session[w] EXCEPT !.at = "read"]
  BY NextPoints DEF TypeOK, LockRunRow, Goto
<1>3. session'[w] \in SessionRow /\ session'[w].at = "read"
  BY <1>1, <1>2 DEF SessionRow, Point
<1>4. runLock' \in [Run -> Session \union {Null}]
  BY DEF TypeOK, LockRunRow
<1>. QED
  BY <1>3, <1>4 DEF TypeOK, LockRunRow, Goto, tables

\* reading the payload,
LEMMA ReadKeepsTypes ==
  ASSUME TypeOK, NEW w \in Worker, ReadPayload(w)
  PROVE  TypeOK'
<1>1. session[w] \in SessionRow /\ session[w].at = "read"
  BY DEF TypeOK, ReadPayload
<1>2. session'[w] = [session[w] EXCEPT !.at = "settle",
                                   !.seen = event.payload]
  BY NextPoints DEF TypeOK, ReadPayload
<1>3. session'[w] \in SessionRow /\ session'[w].at = "settle"
  BY <1>1, <1>2 DEF SessionRow, Point, EventRow, TypeOK
<1>. QED
  BY <1>3 DEF TypeOK, ReadPayload, tables, locks

\* returning it,
LEMMA ResolveKeepsTypes ==
  ASSUME TypeOK, NEW w \in Worker, Resolve(w)
  PROVE  TypeOK'
BY DEF TypeOK, Resolve, Committed, ReleaseLocks, Commit,
     EventRow, NoEvent, SessionRow, Point, Idle

\* parking,
LEMMA ParkKeepsTypes ==
  ASSUME TypeOK, NEW w \in Worker, Park(w)
  PROVE  TypeOK'
<1>1. session[w].run \in Run
  BY DEF TypeOK, Park
<1>2. event' \in EventRow
  BY DEF TypeOK, Park, Committed, Commit, EventRow
<1>3. /\ waiting' \in SUBSET Run
      /\ runState' \in [Run -> {"pending", "running", "sleeping"}]
      /\ checkpoint' \in [Run -> Payload \union {Null}]
  BY <1>1 DEF TypeOK, Park
<1>4. /\ writer' \in Session \union {Null} /\ draft' \in EventRow
      /\ sharers' \in SUBSET Session
      /\ runLock' \in [Run -> Session \union {Null}]
  BY DEF TypeOK, Park, Commit, ReleaseLocks, NoEvent, EventRow
<1>5. session' = [session EXCEPT ![w] = Idle]
  BY DEF Park, Commit
<1>. QED
  BY <1>2, <1>3, <1>4, <1>5 DEF TypeOK, Idle, SessionRow, Point

\* starting an emission,
LEMMA UpsertKeepsTypes ==
  ASSUME TypeOK, NEW c \in Client, NEW p \in Payload, Upsert(c, p)
  PROVE  TypeOK'
BY NextPoints DEF TypeOK, Upsert, Goto, tables, EventRow,
     Emitted, SessionRow, Point

\* looking for waits,
LEMMA ScanKeepsTypes ==
  ASSUME TypeOK, NEW c \in Client, ScanWaits(c)
  PROVE  TypeOK'
<1>1. session[c] \in SessionRow /\ session[c].at = "scan"
  BY DEF TypeOK, ScanWaits
<1>2. session'[c] = [session[c] EXCEPT !.at = "wake", !.affected = waiting]
  BY DEF TypeOK, ScanWaits
<1>3. waiting \in SUBSET Run
  BY DEF TypeOK
<1>4. session'[c] \in SessionRow /\ session'[c].at = "wake"
  BY <1>1, <1>2, <1>3 DEF SessionRow, Point
<1>. QED
  BY <1>4 DEF TypeOK, ScanWaits, tables, locks

\* locking a run to wake,
LEMMA AffectedKeepsTypes ==
  ASSUME TypeOK, NEW c \in Client, NEW r \in Run, LockAffectedRun(c, r)
  PROVE  TypeOK'
<1>1. session[c] \in SessionRow /\ session[c].at = "wake"
  BY DEF TypeOK, LockAffectedRun
<1>2. session'[c] = [session[c] EXCEPT !.affected = @ \ {r}]
  BY DEF TypeOK, LockAffectedRun
<1>3. session'[c] \in SessionRow /\ session'[c].at = "wake"
  BY <1>1, <1>2 DEF SessionRow, Point
<1>4. runLock' \in [Run -> Session \union {Null}]
  BY DEF TypeOK, LockAffectedRun
<1>. QED
  BY <1>3, <1>4 DEF TypeOK, LockAffectedRun, tables

\* waking the runs,
LEMMA WakeKeepsTypes ==
  ASSUME TypeOK, NEW c \in Client, WakeRuns(c)
  PROVE  TypeOK'
BY DEF TypeOK, WakeRuns, Committed, ReleaseLocks, Commit,
     EventRow, NoEvent, SessionRow, Point, Idle

\* a rollback,
LEMMA AbortKeepsTypes ==
  ASSUME TypeOK, NEW s \in Session, Abort(s)
  PROVE  TypeOK'
BY DEF TypeOK, Abort, tables, ReleaseLocks, EventRow,
     NoEvent, SessionRow, Point, Idle

\* a claim,
LEMMA ClaimKeepsTypes ==
  ASSUME TypeOK, NEW r \in Run, Claim(r)
  PROVE  TypeOK'
BY DEF TypeOK, Claim, locks

\* and time.
LEMMA AgeKeepsTypes ==
  ASSUME TypeOK, Age
  PROVE  TypeOK'
BY DEF TypeOK, Age, locks, EventRow

\* Selecting old events for deletion keeps the types.
LEMMA SelectKeepsTypes ==
  ASSUME TypeOK, NEW k \in Cleaner, SelectOld(k)
  PROVE  TypeOK'
<1>1. session[k] \in SessionRow
  BY DEF TypeOK
<1>2. session'[k] = [session[k] EXCEPT !.at = "delete"]
  BY DEF TypeOK, SelectOld, Goto
<1>3. session'[k] \in SessionRow /\ session'[k].at = "delete"
  BY <1>1, <1>2 DEF SessionRow, Point
<1>. QED
  BY <1>3 DEF TypeOK, SelectOld, Goto, tables, locks

\* So does deleting them.
LEMMA DeleteKeepsTypes ==
  ASSUME TypeOK, NEW k \in Cleaner, DeleteSelected(k)
  PROVE  TypeOK'
<1>1. Idle \in SessionRow /\ Idle.at = "idle" /\ NoEvent \in EventRow
  BY DEF Idle, SessionRow, Point, NoEvent, EventRow
<1>. QED
  BY <1>1 DEF TypeOK, DeleteSelected, locks

\* Every step keeps the types.
LEMMA NextTypes == TypeOK /\ [Next]_vars => TypeOK'
<1>. SUFFICES ASSUME TypeOK, [Next]_vars PROVE TypeOK'
  OBVIOUS
<1>1. ASSUME NEW w \in Worker, AwaitStep(w) PROVE TypeOK'
  BY <1>1, BeginKeepsTypes, InsertKeepsTypes, ShareKeepsTypes,
     LockKeepsTypes, ReadKeepsTypes, ResolveKeepsTypes, ParkKeepsTypes
     DEF AwaitStep
<1>2. ASSUME NEW c \in Client, EmitStep(c) PROVE TypeOK'
  BY <1>2, UpsertKeepsTypes, ScanKeepsTypes, AffectedKeepsTypes,
     WakeKeepsTypes DEF EmitStep
<1>3. ASSUME NEW k \in Cleaner, CleanupStep(k) PROVE TypeOK'
  BY <1>3, SelectKeepsTypes, DeleteKeepsTypes DEF CleanupStep
<1>4. CASE UNCHANGED vars
  BY <1>4 DEF vars, TypeOK
<1>. QED
  BY <1>1, <1>2, <1>3, <1>4, AbortKeepsTypes, ClaimKeepsTypes, AgeKeepsTypes
     DEF Next

\* Rows, locks and sessions have their types at first.
LEMMA InitTypes == Init => TypeOK
<1>1. NoEvent \in EventRow
  BY DEF NoEvent, EventRow
<1>2. Idle \in SessionRow /\ Idle.at = "idle"
  BY DEF Idle, SessionRow, Point
<1>. QED
  BY <1>1, <1>2 DEF Init, TypeOK

-----------------------------------------------------------------------------
(* Who holds a lock, and where it is in its transaction.                   *)

\* An emission holds the row from its first statement on.
EmittersWrite ==
  \A c \in Client : session[c].at \in {"scan", "wake"} => writer = c

\* The row is written by a worker that inserted it, or by an emission.
WriterIsBusy ==
  writer # Null =>
    \/ /\ writer \in Worker
       /\ session[writer].at \in {"share", "lock", "read", "settle"}
       /\ event.state = "absent"
    \/ writer \in Client /\ session[writer].at \in {"scan", "wake"}

SharersAreBusy ==
  \A s \in sharers : s \in Worker /\ session[s].at \in {"lock", "read", "settle"}

\* A run is held by a worker that has nothing left to wait for, or by an
\* emission.
RunHoldersAreBusy ==
  \A r \in Run : runLock[r] # Null =>
    \/ runLock[r] \in Worker /\ session[runLock[r]].at \in {"read", "settle"}
    \/ runLock[r] \in Client /\ session[runLock[r]].at = "wake"

LockInv ==
  /\ TypeOK
  /\ EmittersWrite
  /\ WriterIsBusy
  /\ SharersAreBusy
  /\ RunHoldersAreBusy

-----------------------------------------------------------------------------
(* Every step keeps the locks where they are expected, cleanup or not.     *)

\* A new await holds nothing yet.
LEMMA BeginKeepsLocks ==
  ASSUME LockInv, NEW w \in Worker, NEW r \in Run, BeginAwait(w, r)
  PROVE  LockInv'
<1>1. TypeOK'
  BY BeginKeepsTypes DEF LockInv
<1>2. EmittersWrite'
  BY NextPoints DEF LockInv, TypeOK, EmittersWrite, BeginAwait, Idle, tables, locks
<1>3. WriterIsBusy'
  BY NextPoints DEF LockInv, TypeOK, WriterIsBusy, BeginAwait, Idle, tables, locks
<1>4. SharersAreBusy'
  BY NextPoints DEF LockInv, TypeOK, SharersAreBusy, BeginAwait, Idle, tables, locks
<1>5. RunHoldersAreBusy'
  BY NextPoints DEF LockInv, TypeOK, RunHoldersAreBusy, BeginAwait, Idle, tables, locks
<1>. QED
  BY <1>1, <1>2, <1>3, <1>4, <1>5 DEF LockInv

\* Inserting the sentinel makes the worker the writer of an absent row.
LEMMA InsertKeepsLocks ==
  ASSUME LockInv, NEW w \in Worker, InsertSentinel(w)
  PROVE  LockInv'
<1>1. TypeOK'
  BY InsertKeepsTypes DEF LockInv
<1>2. EmittersWrite'
  BY NextPoints DEF LockInv, TypeOK, EmittersWrite, InsertSentinel, Goto, tables
<1>3. WriterIsBusy'
  BY NextPoints DEF LockInv, TypeOK, WriterIsBusy, InsertSentinel, Goto, tables
<1>4. SharersAreBusy'
  BY NextPoints DEF LockInv, TypeOK, SharersAreBusy, InsertSentinel, Goto, tables
<1>5. RunHoldersAreBusy'
  BY NextPoints DEF LockInv, TypeOK, RunHoldersAreBusy, InsertSentinel, Goto, tables
<1>. QED
  BY <1>1, <1>2, <1>3, <1>4, <1>5 DEF LockInv

\* A sharer goes on to lock its run.
LEMMA ShareKeepsLocks ==
  ASSUME LockInv, NEW w \in Worker, LockEventRow(w)
  PROVE  LockInv'
<1>1. TypeOK'
  BY ShareKeepsTypes DEF LockInv
<1>2. EmittersWrite'
  BY NextPoints DEF LockInv, TypeOK, EmittersWrite, LockEventRow, Goto, tables
<1>3. WriterIsBusy'
  BY NextPoints DEF LockInv, TypeOK, WriterIsBusy, LockEventRow, Goto, tables
<1>4. SharersAreBusy'
  BY NextPoints DEF LockInv, TypeOK, SharersAreBusy, LockEventRow, Goto, tables
<1>5. RunHoldersAreBusy'
  BY NextPoints DEF LockInv, TypeOK, RunHoldersAreBusy, LockEventRow, Goto, tables
<1>. QED
  BY <1>1, <1>2, <1>3, <1>4, <1>5 DEF LockInv

\* A worker that has locked its run waits for nothing more.
LEMMA LockKeepsLocks ==
  ASSUME LockInv, NEW w \in Worker, LockRunRow(w)
  PROVE  LockInv'
<1>1. TypeOK'
  BY LockKeepsTypes DEF LockInv
<1>2. EmittersWrite'
  BY NextPoints DEF LockInv, TypeOK, EmittersWrite, LockRunRow, Goto, tables
<1>3. WriterIsBusy'
  BY NextPoints DEF LockInv, TypeOK, WriterIsBusy, LockRunRow, Goto, tables
<1>4. SharersAreBusy'
  BY NextPoints DEF LockInv, TypeOK, SharersAreBusy, LockRunRow, Goto, tables
<1>5. RunHoldersAreBusy'
  BY NextPoints DEF LockInv, TypeOK, RunHoldersAreBusy, LockRunRow, Goto, tables
<1>. QED
  BY <1>1, <1>2, <1>3, <1>4, <1>5 DEF LockInv

\* Reading takes no lock.
LEMMA ReadKeepsLocks ==
  ASSUME LockInv, NEW w \in Worker, ReadPayload(w)
  PROVE  LockInv'
<1>1. TypeOK'
  BY ReadKeepsTypes DEF LockInv
<1>2. EmittersWrite'
  BY NextPoints DEF LockInv, TypeOK, EmittersWrite, ReadPayload, tables, locks
<1>3. WriterIsBusy'
  BY NextPoints DEF LockInv, TypeOK, WriterIsBusy, ReadPayload, tables, locks
<1>4. SharersAreBusy'
  BY NextPoints DEF LockInv, TypeOK, SharersAreBusy, ReadPayload, tables, locks
<1>5. RunHoldersAreBusy'
  BY NextPoints DEF LockInv, TypeOK, RunHoldersAreBusy, ReadPayload, tables, locks
<1>. QED
  BY <1>1, <1>2, <1>3, <1>4, <1>5 DEF LockInv

\* Returning a payload gives back all locks.
LEMMA ResolveKeepsLocks ==
  ASSUME LockInv, NEW w \in Worker, Resolve(w)
  PROVE  LockInv'
<1>1. TypeOK'
  BY ResolveKeepsTypes DEF LockInv
<1>2. EmittersWrite'
  BY DEF LockInv, TypeOK, EmittersWrite, Resolve, Commit, Committed, ReleaseLocks, Idle
<1>3. WriterIsBusy'
  BY DEF LockInv, TypeOK, WriterIsBusy, Resolve, Commit, Committed, ReleaseLocks, Idle
<1>4. SharersAreBusy'
  BY DEF LockInv, TypeOK, SharersAreBusy, Resolve, Commit, Committed, ReleaseLocks, Idle
<1>5. RunHoldersAreBusy'
  BY DEF LockInv, TypeOK, RunHoldersAreBusy, Resolve, Commit, Committed, ReleaseLocks, Idle
<1>. QED
  BY <1>1, <1>2, <1>3, <1>4, <1>5 DEF LockInv

\* So does parking.
LEMMA ParkKeepsLocks ==
  ASSUME LockInv, NEW w \in Worker, Park(w)
  PROVE  LockInv'
<1>1. TypeOK'
  BY ParkKeepsTypes DEF LockInv
<1>2. EmittersWrite'
  BY DEF LockInv, TypeOK, EmittersWrite, Park, Commit, Committed, ReleaseLocks, Idle
<1>3. WriterIsBusy'
  BY DEF LockInv, TypeOK, WriterIsBusy, Park, Commit, Committed, ReleaseLocks, Idle
<1>4. SharersAreBusy'
  BY DEF LockInv, TypeOK, SharersAreBusy, Park, Commit, Committed, ReleaseLocks, Idle
<1>5. RunHoldersAreBusy'
  BY DEF LockInv, TypeOK, RunHoldersAreBusy, Park, Commit, Committed, ReleaseLocks, Idle
<1>. QED
  BY <1>1, <1>2, <1>3, <1>4, <1>5 DEF LockInv

\* An emission becomes the writer when there is none.
LEMMA UpsertKeepsLocks ==
  ASSUME LockInv, NEW c \in Client, NEW p \in Payload, Upsert(c, p)
  PROVE  LockInv'
<1>1. TypeOK'
  BY UpsertKeepsTypes DEF LockInv
<1>2. EmittersWrite'
  BY DEF LockInv, TypeOK, EmittersWrite, Upsert, Goto, tables
<1>3. WriterIsBusy'
  BY DEF LockInv, TypeOK, WriterIsBusy, EmittersWrite, Upsert, Goto, tables
<1>4. SharersAreBusy'
  BY DEF LockInv, TypeOK, SharersAreBusy, WriterIsBusy, Upsert, Goto, tables
<1>5. RunHoldersAreBusy'
  BY DEF LockInv, TypeOK, RunHoldersAreBusy, Upsert, Goto, tables
<1>. QED
  BY <1>1, <1>2, <1>3, <1>4, <1>5 DEF LockInv

\* Looking for waits takes no lock.
LEMMA ScanKeepsLocks ==
  ASSUME LockInv, NEW c \in Client, ScanWaits(c)
  PROVE  LockInv'
<1>1. TypeOK'
  BY ScanKeepsTypes DEF LockInv
<1>2. EmittersWrite'
  BY DEF LockInv, TypeOK, EmittersWrite, ScanWaits, tables, locks
<1>3. WriterIsBusy'
  BY DEF LockInv, TypeOK, WriterIsBusy, ScanWaits, tables, locks
<1>4. SharersAreBusy'
  BY DEF LockInv, TypeOK, SharersAreBusy, ScanWaits, tables, locks
<1>5. RunHoldersAreBusy'
  BY DEF LockInv, TypeOK, RunHoldersAreBusy, ScanWaits, tables, locks
<1>. QED
  BY <1>1, <1>2, <1>3, <1>4, <1>5 DEF LockInv

\* An emission takes runs one by one.
LEMMA AffectedKeepsLocks ==
  ASSUME LockInv, NEW c \in Client, NEW r \in Run, LockAffectedRun(c, r)
  PROVE  LockInv'
<1>1. TypeOK'
  BY AffectedKeepsTypes DEF LockInv
<1>2. EmittersWrite'
  BY DEF LockInv, TypeOK, EmittersWrite, LockAffectedRun, tables
<1>3. WriterIsBusy'
  BY DEF LockInv, TypeOK, WriterIsBusy, LockAffectedRun, tables
<1>4. SharersAreBusy'
  BY DEF LockInv, TypeOK, SharersAreBusy, LockAffectedRun, tables
<1>5. RunHoldersAreBusy'
  BY DEF LockInv, TypeOK, RunHoldersAreBusy, LockAffectedRun, tables
<1>. QED
  BY <1>1, <1>2, <1>3, <1>4, <1>5 DEF LockInv

\* Waking the runs gives back all locks.
LEMMA WakeKeepsLocks ==
  ASSUME LockInv, NEW c \in Client, WakeRuns(c)
  PROVE  LockInv'
<1>1. TypeOK'
  BY WakeKeepsTypes DEF LockInv
<1>2. EmittersWrite'
  BY DEF LockInv, TypeOK, EmittersWrite, WakeRuns, Commit, Committed, ReleaseLocks, Idle
<1>3. WriterIsBusy'
  BY DEF LockInv, TypeOK, WriterIsBusy, EmittersWrite, WakeRuns, Commit, Committed, ReleaseLocks, Idle
<1>4. SharersAreBusy'
  BY DEF LockInv, TypeOK, SharersAreBusy, WriterIsBusy, WakeRuns, Commit, Committed, ReleaseLocks, Idle
<1>5. RunHoldersAreBusy'
  BY DEF LockInv, TypeOK, RunHoldersAreBusy, WakeRuns, Commit, Committed, ReleaseLocks, Idle
<1>. QED
  BY <1>1, <1>2, <1>3, <1>4, <1>5 DEF LockInv

\* Selecting old events takes no lock.
LEMMA SelectKeepsLocks ==
  ASSUME LockInv, NEW k \in Cleaner, SelectOld(k)
  PROVE  LockInv'
<1>1. TypeOK'
  BY SelectKeepsTypes DEF LockInv
<1>2. EmittersWrite'
  BY DEF LockInv, TypeOK, EmittersWrite, SelectOld, Goto, tables, locks
<1>3. WriterIsBusy'
  BY DEF LockInv, TypeOK, WriterIsBusy, SelectOld, Goto, tables, locks
<1>4. SharersAreBusy'
  BY DEF LockInv, TypeOK, SharersAreBusy, SelectOld, Goto, tables, locks
<1>5. RunHoldersAreBusy'
  BY DEF LockInv, TypeOK, RunHoldersAreBusy, SelectOld, Goto, tables, locks
<1>. QED
  BY <1>1, <1>2, <1>3, <1>4, <1>5 DEF LockInv

\* A cleanup deletes a row that nobody holds.
LEMMA DeleteKeepsLocks ==
  ASSUME LockInv, NEW k \in Cleaner, DeleteSelected(k)
  PROVE  LockInv'
<1>1. TypeOK'
  BY DeleteKeepsTypes DEF LockInv
<1>2. EmittersWrite'
  BY DEF LockInv, TypeOK, EmittersWrite, DeleteSelected, Idle, NoEvent, locks
<1>3. WriterIsBusy'
  BY DEF LockInv, TypeOK, WriterIsBusy, EmittersWrite, DeleteSelected, Idle, NoEvent, locks
<1>4. SharersAreBusy'
  BY DEF LockInv, TypeOK, SharersAreBusy, WriterIsBusy, DeleteSelected, Idle, NoEvent, locks
<1>5. RunHoldersAreBusy'
  BY DEF LockInv, TypeOK, RunHoldersAreBusy, DeleteSelected, Idle, NoEvent, locks
<1>. QED
  BY <1>1, <1>2, <1>3, <1>4, <1>5 DEF LockInv

\* A rollback gives back all locks.
LEMMA AbortKeepsLocks ==
  ASSUME LockInv, NEW s \in Session, Abort(s)
  PROVE  LockInv'
<1>1. TypeOK'
  BY AbortKeepsTypes DEF LockInv
<1>2. EmittersWrite'
  BY DEF LockInv, TypeOK, EmittersWrite, Abort, ReleaseLocks, Idle, tables
<1>3. WriterIsBusy'
  BY DEF LockInv, TypeOK, WriterIsBusy, Abort, ReleaseLocks, Idle, tables
<1>4. SharersAreBusy'
  BY DEF LockInv, TypeOK, SharersAreBusy, Abort, ReleaseLocks, Idle, tables
<1>5. RunHoldersAreBusy'
  BY DEF LockInv, TypeOK, RunHoldersAreBusy, Abort, ReleaseLocks, Idle, tables
<1>. QED
  BY <1>1, <1>2, <1>3, <1>4, <1>5 DEF LockInv

\* A claim takes its lock and gives it back in one statement.
LEMMA ClaimKeepsLocks ==
  ASSUME LockInv, NEW r \in Run, Claim(r)
  PROVE  LockInv'
<1>1. TypeOK'
  BY ClaimKeepsTypes DEF LockInv
<1>2. EmittersWrite'
  BY DEF LockInv, TypeOK, EmittersWrite, Claim, locks
<1>3. WriterIsBusy'
  BY DEF LockInv, TypeOK, WriterIsBusy, Claim, locks
<1>4. SharersAreBusy'
  BY DEF LockInv, TypeOK, SharersAreBusy, Claim, locks
<1>5. RunHoldersAreBusy'
  BY DEF LockInv, TypeOK, RunHoldersAreBusy, Claim, locks
<1>. QED
  BY <1>1, <1>2, <1>3, <1>4, <1>5 DEF LockInv

\* Time does not touch locks.
LEMMA AgeKeepsLocks ==
  ASSUME LockInv, Age
  PROVE  LockInv'
<1>1. TypeOK'
  BY AgeKeepsTypes DEF LockInv
<1>2. EmittersWrite'
  BY DEF LockInv, TypeOK, EmittersWrite, Age, locks
<1>3. WriterIsBusy'
  BY DEF LockInv, TypeOK, WriterIsBusy, Age, locks
<1>4. SharersAreBusy'
  BY DEF LockInv, TypeOK, SharersAreBusy, Age, locks
<1>5. RunHoldersAreBusy'
  BY DEF LockInv, TypeOK, RunHoldersAreBusy, Age, locks
<1>. QED
  BY <1>1, <1>2, <1>3, <1>4, <1>5 DEF LockInv

\* At first nobody holds anything.
LEMMA InitLocks == Init => LockInv
BY InitTypes DEF Init, Idle, LockInv, EmittersWrite, WriterIsBusy,
     SharersAreBusy, RunHoldersAreBusy

\* Every step keeps the locks in order.
LEMMA NextLocks == LockInv /\ [Next]_vars => LockInv'
<1>. SUFFICES ASSUME LockInv, [Next]_vars PROVE LockInv'
  OBVIOUS
<1>1. ASSUME NEW w \in Worker, AwaitStep(w) PROVE LockInv'
  BY <1>1, BeginKeepsLocks, InsertKeepsLocks, ShareKeepsLocks,
     LockKeepsLocks, ReadKeepsLocks, ResolveKeepsLocks, ParkKeepsLocks
     DEF AwaitStep
<1>2. ASSUME NEW c \in Client, EmitStep(c) PROVE LockInv'
  BY <1>2, UpsertKeepsLocks, ScanKeepsLocks, AffectedKeepsLocks,
     WakeKeepsLocks DEF EmitStep
<1>3. ASSUME NEW k \in Cleaner, CleanupStep(k) PROVE LockInv'
  BY <1>3, SelectKeepsLocks, DeleteKeepsLocks DEF CleanupStep
<1>4. CASE UNCHANGED vars
  BY <1>4 DEF vars, LockInv, TypeOK, EmittersWrite, WriterIsBusy,
       SharersAreBusy, RunHoldersAreBusy
<1>. QED
  BY <1>1, <1>2, <1>3, <1>4, AbortKeepsLocks, ClaimKeepsLocks, AgeKeepsLocks
     DEF Next

-----------------------------------------------------------------------------
(* Among any sessions there is one that waits for none of them.  Sessions  *)
(* are taken in the order of what they hold: one that waits, waits for     *)
(* sessions that come before it.                                           *)

\* A worker that has its run, and an emission about to look for waits, wait
\* for nobody.
LEMMA SettlingWaitForNobody ==
  ASSUME NEW s \in Session, session[s].at \in {"idle", "read", "settle", "scan"}
  PROVE  WaitsFor(s) = {}
BY DEF WaitsFor

\* An emission waits for workers that have their run.
LEMMA WakingWaitForSettling ==
  ASSUME LockInv, NEW s \in Session, session[s].at = "wake", NEW h \in WaitsFor(s)
  PROVE  session[h].at \in {"read", "settle"}
<1>1. s \in Client
  BY DEF LockInv, TypeOK
<1>2. PICK r \in session[s].affected : h = runLock[r]
  BY DEF WaitsFor
<1>3. r \in Run /\ h # Null /\ h # s
  BY DEF LockInv, TypeOK, SessionRow, WaitsFor
<1>4. ~(h \in Client /\ session[h].at = "wake")
  BY <1>1, <1>3 DEF LockInv, EmittersWrite
<1>. QED
  BY <1>2, <1>3, <1>4 DEF LockInv, RunHoldersAreBusy

\* A worker waits for its run's row only, once it has the event's.
LEMMA LockingWaitForRunHolders ==
  ASSUME LockInv, NEW s \in Session, session[s].at = "lock", NEW h \in WaitsFor(s)
  PROVE  session[h].at \in {"read", "settle", "wake"}
<1>1. s \in Worker /\ session[s].run \in Run
  BY DEF LockInv, TypeOK
<1>2. h = runLock[session[s].run] /\ h # Null
  BY DEF WaitsFor
<1>. QED
  BY <1>1, <1>2 DEF LockInv, RunHoldersAreBusy

\* A worker shares a row that is there, so its writer is an emission.
LEMMA SharingWaitForEmitters ==
  ASSUME LockInv, NEW s \in Session, session[s].at = "share", NEW h \in WaitsFor(s)
  PROVE  session[h].at \in {"scan", "wake"}
<1>1. event.state # "absent" /\ h = writer /\ h # Null
  BY DEF WaitsFor
<1>. QED
  BY <1>1 DEF LockInv, WriterIsBusy

\* A worker that inserts waits for a writer, which has inserted already.
LEMMA InsertingWaitForWriter ==
  ASSUME LockInv, NEW s \in Session, session[s].at = "insert", NEW h \in WaitsFor(s)
  PROVE  session[h].at \in {"share", "lock", "read", "settle", "scan", "wake"}
<1>1. h = writer /\ h # Null
  BY DEF WaitsFor
<1>. QED
  BY <1>1 DEF LockInv, WriterIsBusy

\* A cleanup waits for those who hold the row, and is never among them.
LEMMA DeletingWaitForHolders ==
  ASSUME LockInv, NEW s \in Session, session[s].at = "delete", NEW h \in WaitsFor(s)
  PROVE  session[h].at \in {"share", "lock", "read", "settle", "scan", "wake"}
<1>1. h = writer \/ h \in sharers
  BY DEF WaitsFor
<1>2. h # Null
  BY DEF WaitsFor
<1>. QED
  BY <1>1, <1>2 DEF LockInv, WriterIsBusy, SharersAreBusy

\* So no sessions wait for each other in a cycle.
LEMMA LocksAreInOrder == LockInv => NoDeadlock
<1>. SUFFICES ASSUME LockInv, NEW S \in SUBSET Session, S # {}
              PROVE  \E s \in S : WaitsFor(s) \intersect S = {}
  BY DEF NoDeadlock
<1>. DEFINE In(points) == \E s \in S : session[s].at \in points
<1>1. CASE In({"idle", "read", "settle", "scan"})
  BY <1>1, SettlingWaitForNobody
<1>2. CASE /\ ~In({"idle", "read", "settle", "scan"})
           /\ In({"wake"})
  BY <1>2, WakingWaitForSettling
<1>3. CASE /\ ~In({"idle", "read", "settle", "scan", "wake"})
           /\ In({"lock"})
  BY <1>3, LockingWaitForRunHolders
<1>4. CASE /\ ~In({"idle", "read", "settle", "scan", "wake", "lock"})
           /\ In({"share"})
  BY <1>4, SharingWaitForEmitters
<1>5. CASE /\ ~In({"idle", "read", "settle", "scan", "wake", "lock", "share"})
           /\ In({"insert"})
  BY <1>5, InsertingWaitForWriter
<1>6. CASE ~In({"idle", "read", "settle", "scan", "wake", "lock", "share",
                "insert"})
  <2>1. \A s \in S : session[s].at = "delete"
    BY <1>6 DEF LockInv, TypeOK
  <2>. QED
    BY <2>1, DeletingWaitForHolders
<1>. QED
  BY <1>1, <1>2, <1>3, <1>4, <1>5, <1>6

\* The event, its waits and runs, the locks and the sessions keep their types.
THEOREM TypeCorrect == Spec => []TypeOK
BY InitTypes, NextTypes, PTL DEF Spec

\* However many sessions await, emit and clean up at the same time, the order
\* in which the three functions take their locks never makes them wait for
\* each other in a cycle.
THEOREM SessionsNeverDeadlock == Spec => []NoDeadlock
BY InitLocks, NextLocks, LocksAreInOrder, PTL DEF Spec

-----------------------------------------------------------------------------
(* Without cleanup no wakeup is lost: the inductive invariant.             *)

\* Only sleeping runs wait.
WaitersSleep == \A r \in waiting : runState[r] = "sleeping"

\* An emitted event has a payload.
EmittedHasPayload == IsEmitted(event) => event.payload \in Payload

\* What the writer of the row is doing, and what it has written.
WriterIsAtWork ==
  writer # Null =>
    /\ ~IsEmitted(event)
    /\ \/ /\ writer \in Worker
          /\ session[writer].at \in {"share", "lock", "read", "settle"}
          /\ event.state = "absent"
          /\ draft = Sentinel
       \/ /\ writer \in Client
          /\ session[writer].at \in {"scan", "wake"}
          /\ draft.state = "emitted" /\ draft.payload \in Payload
          /\ sharers = {}

SharersAreAtWork ==
  \A s \in sharers : /\ s \in Worker
                     /\ session[s].at \in {"lock", "read", "settle"}
                     /\ event.state # "absent"

\* A worker that has passed "for share" holds the row, or has inserted it.
AwaitersHoldEvent ==
  \A w \in Worker :
    /\ session[w].at = "share" => event.state # "absent" \/ writer = w
    /\ session[w].at \in {"lock", "read", "settle"} => w \in sharers \/ writer = w

\* What a worker has read is still so when it parks.
ReadIsCurrent ==
  \A w \in Worker :
    session[w].at = "settle" /\ session[w].seen = Null => ~IsEmitted(event)

\* An emission knows all the waits that it has not locked yet.
EmitterKnowsWaits ==
  \A c \in Client : session[c].at = "wake" =>
    waiting \subseteq session[c].affected \union {r \in Run : runLock[r] = c}

Protocol ==
  /\ TypeOK
  /\ WaitersSleep
  /\ EmittedHasPayload
  /\ WriterIsAtWork
  /\ EmittersWrite
  /\ SharersAreAtWork
  /\ AwaitersHoldEvent
  /\ ReadIsCurrent
  /\ EmitterKnowsWaits
  /\ NoLostWakeup

-----------------------------------------------------------------------------
(* Every step keeps the protocol, if nobody cleans up.                    *)

\* Starting an await locks nothing yet.
LEMMA BeginKeepsProtocol ==
  ASSUME Protocol, Cleaner = {}, NEW w \in Worker, NEW r \in Run, BeginAwait(w, r)
  PROVE  Protocol'
<1>1. TypeOK'
  BY BeginKeepsTypes DEF Protocol
<1>2. WaitersSleep'
  BY NextPoints DEF Protocol, WaitersSleep, BeginAwait, tables
<1>3. EmittedHasPayload'
  BY NextPoints DEF Protocol, TypeOK, EmittedHasPayload, WriterIsAtWork,
       BeginAwait, tables, locks, EventRow, NoEvent, Sentinel, Emitted,
       IsEmitted, SessionRow, Point, Idle
<1>4. WriterIsAtWork'
  BY NextPoints DEF Protocol, WriterIsAtWork, BeginAwait, tables, locks
<1>5. EmittersWrite'
  BY NextPoints DEF Protocol, EmittersWrite, BeginAwait, locks
<1>6. SharersAreAtWork'
  BY NextPoints DEF Protocol, SharersAreAtWork, BeginAwait, tables,
       locks
<1>7. AwaitersHoldEvent'
  BY NextPoints DEF Protocol, AwaitersHoldEvent, BeginAwait, tables,
       locks
<1>8. ReadIsCurrent'
  BY NextPoints DEF Protocol, ReadIsCurrent, BeginAwait, tables
<1>9. EmitterKnowsWaits'
  BY NextPoints DEF Protocol, EmitterKnowsWaits, BeginAwait, tables,
       locks
<1>10. NoLostWakeup'
  BY NextPoints DEF Protocol, NoLostWakeup, BeginAwait, tables
<1>. QED
  BY <1>1, <1>2, <1>3, <1>4, <1>5, <1>6, <1>7, <1>8, <1>9, <1>10 DEF Protocol

\* Inserting the sentinel makes the session the row's writer.
LEMMA InsertKeepsProtocol ==
  ASSUME Protocol, Cleaner = {}, NEW w \in Worker, InsertSentinel(w)
  PROVE  Protocol'
<1>1. TypeOK'
  BY InsertKeepsTypes DEF Protocol
<1>2. WaitersSleep'
  BY NextPoints DEF Protocol, WaitersSleep, InsertSentinel, tables
<1>3. EmittedHasPayload'
  BY NextPoints DEF Protocol, EmittedHasPayload, InsertSentinel, tables
<1>4. WriterIsAtWork'
  BY NextPoints DEF Protocol, TypeOK, WriterIsAtWork, InsertSentinel,
       Goto, tables, IsEmitted
<1>5. EmittersWrite'
  BY NextPoints DEF Protocol, EmittersWrite, InsertSentinel, Goto
<1>6. SharersAreAtWork'
  BY NextPoints DEF Protocol, SharersAreAtWork, InsertSentinel, Goto,
       tables
<1>7. AwaitersHoldEvent'
  BY NextPoints DEF Protocol, AwaitersHoldEvent, InsertSentinel, Goto,
       tables
<1>8. ReadIsCurrent'
  BY NextPoints DEF Protocol, ReadIsCurrent, InsertSentinel, Goto,
       tables
<1>9. EmitterKnowsWaits'
  BY NextPoints DEF Protocol, EmitterKnowsWaits, EmittersWrite,
       InsertSentinel, Goto
<1>10. NoLostWakeup'
  BY NextPoints DEF Protocol, NoLostWakeup, InsertSentinel, tables
<1>. QED
  BY <1>1, <1>2, <1>3, <1>4, <1>5, <1>6, <1>7, <1>8, <1>9, <1>10 DEF Protocol

\* Without cleanup the row is there, and is shared.
LEMMA ShareKeepsProtocol ==
  ASSUME Protocol, Cleaner = {}, NEW w \in Worker, LockEventRow(w)
  PROVE  Protocol'
<1>1. TypeOK'
  BY ShareKeepsTypes DEF Protocol
<1>2. WaitersSleep'
  BY NextPoints DEF Protocol, WaitersSleep, LockEventRow, tables
<1>3. EmittedHasPayload'
  BY NextPoints DEF Protocol, EmittedHasPayload, LockEventRow, tables
<1>4. WriterIsAtWork'
  BY NextPoints DEF Protocol, WriterIsAtWork, LockEventRow, Goto, tables
<1>5. EmittersWrite'
  BY NextPoints DEF Protocol, EmittersWrite, LockEventRow, Goto
<1>6. SharersAreAtWork'
  BY NextPoints DEF Protocol, TypeOK, SharersAreAtWork, LockEventRow,
       Goto, tables
<1>7. AwaitersHoldEvent'
  BY NextPoints DEF Protocol, AwaitersHoldEvent, LockEventRow, Goto,
       tables
<1>8. ReadIsCurrent'
  BY NextPoints DEF Protocol, ReadIsCurrent, LockEventRow, Goto, tables
<1>9. EmitterKnowsWaits'
  BY NextPoints DEF Protocol, EmitterKnowsWaits, AwaitersHoldEvent,
       EmittersWrite, LockEventRow, Goto
<1>10. NoLostWakeup'
  BY NextPoints DEF Protocol, NoLostWakeup, LockEventRow, tables
<1>. QED
  BY <1>1, <1>2, <1>3, <1>4, <1>5, <1>6, <1>7, <1>8, <1>9, <1>10 DEF Protocol

\* Locking the run keeps the hold on the event.
LEMMA LockKeepsProtocol ==
  ASSUME Protocol, Cleaner = {}, NEW w \in Worker, LockRunRow(w)
  PROVE  Protocol'
<1>1. TypeOK'
  BY LockKeepsTypes DEF Protocol
<1>2. WaitersSleep'
  BY NextPoints DEF Protocol, WaitersSleep, LockRunRow, tables
<1>3. EmittedHasPayload'
  BY NextPoints DEF Protocol, EmittedHasPayload, LockRunRow, tables
<1>4. WriterIsAtWork'
  BY NextPoints DEF Protocol, WriterIsAtWork, LockRunRow, Goto, tables
<1>5. EmittersWrite'
  BY NextPoints DEF Protocol, EmittersWrite, LockRunRow, Goto
<1>6. SharersAreAtWork'
  BY NextPoints DEF Protocol, SharersAreAtWork, LockRunRow, Goto, tables
<1>7. AwaitersHoldEvent'
  BY NextPoints DEF Protocol, AwaitersHoldEvent, LockRunRow, Goto,
       tables
<1>8. ReadIsCurrent'
  BY NextPoints DEF Protocol, ReadIsCurrent, LockRunRow, Goto, tables
<1>9. EmitterKnowsWaits'
  BY NextPoints DEF Protocol, EmitterKnowsWaits, WriterIsAtWork,
       AwaitersHoldEvent, EmittersWrite, LockRunRow, Goto, IsEmitted
<1>10. NoLostWakeup'
  BY NextPoints DEF Protocol, NoLostWakeup, LockRunRow, tables
<1>. QED
  BY <1>1, <1>2, <1>3, <1>4, <1>5, <1>6, <1>7, <1>8, <1>9, <1>10 DEF Protocol

\* The payload read is that of the committed row.
LEMMA ReadKeepsProtocol ==
  ASSUME Protocol, Cleaner = {}, NEW w \in Worker, ReadPayload(w)
  PROVE  Protocol'
<1>1. TypeOK'
  BY ReadKeepsTypes DEF Protocol
<1>2. WaitersSleep'
  BY NextPoints DEF Protocol, WaitersSleep, ReadPayload, tables
<1>3. EmittedHasPayload'
  BY NextPoints DEF Protocol, EmittedHasPayload, ReadPayload, tables
<1>4. WriterIsAtWork'
  BY NextPoints DEF Protocol, WriterIsAtWork, ReadPayload, tables, locks
<1>5. EmittersWrite'
  BY NextPoints DEF Protocol, EmittersWrite, ReadPayload, locks
<1>6. SharersAreAtWork'
  BY NextPoints DEF Protocol, SharersAreAtWork, ReadPayload, tables,
       locks
<1>7. AwaitersHoldEvent'
  BY NextPoints DEF Protocol, AwaitersHoldEvent, ReadPayload, tables,
       locks
<1>8. ReadIsCurrent'
  BY NextPoints DEF Protocol, ReadIsCurrent, EmittedHasPayload,
       ReadPayload, tables
<1>9. EmitterKnowsWaits'
  BY NextPoints DEF Protocol, EmitterKnowsWaits, WriterIsAtWork,
       AwaitersHoldEvent, EmittersWrite, ReadPayload
<1>10. NoLostWakeup'
  BY NextPoints DEF Protocol, NoLostWakeup, ReadPayload, tables
<1>. QED
  BY <1>1, <1>2, <1>3, <1>4, <1>5, <1>6, <1>7, <1>8, <1>9, <1>10 DEF Protocol

\* Returning a payload commits and lets go of the row.
LEMMA ResolveKeepsProtocol ==
  ASSUME Protocol, Cleaner = {}, NEW w \in Worker, Resolve(w)
  PROVE  Protocol'
<1>1. TypeOK'
  BY ResolveKeepsTypes DEF Protocol
<1>2. WaitersSleep'
  BY DEF Protocol, WaitersSleep, Resolve, Committed
<1>3. EmittedHasPayload'
  BY DEF Protocol, EmittedHasPayload, WriterIsAtWork, Resolve,
       Committed, Commit, Sentinel, IsEmitted
<1>4. WriterIsAtWork'
  BY DEF Protocol, WriterIsAtWork, SharersAreAtWork, AwaitersHoldEvent,
       Resolve, ReleaseLocks, Commit
<1>5. EmittersWrite'
  BY DEF Protocol, EmittersWrite, Resolve, ReleaseLocks, Commit
<1>6. SharersAreAtWork'
  BY DEF Protocol, SharersAreAtWork, WriterIsAtWork, Resolve, Committed,
       ReleaseLocks, Commit
<1>7. AwaitersHoldEvent'
  BY DEF Protocol, TypeOK, AwaitersHoldEvent, WriterIsAtWork, Resolve,
       Committed, ReleaseLocks, Commit, Sentinel, Idle
<1>8. ReadIsCurrent'
  BY DEF Protocol, ReadIsCurrent, WriterIsAtWork, Resolve, Committed,
       Commit, EventRow, NoEvent, Sentinel, IsEmitted, Idle
<1>9. EmitterKnowsWaits'
  BY DEF Protocol, EmitterKnowsWaits, Resolve, ReleaseLocks, Commit
<1>10. NoLostWakeup'
  BY DEF Protocol, NoLostWakeup, WriterIsAtWork, Resolve, Committed,
       Commit, Sentinel, IsEmitted
<1>. QED
  BY <1>1, <1>2, <1>3, <1>4, <1>5, <1>6, <1>7, <1>8, <1>9, <1>10 DEF Protocol

\* Parking commits a wait for an event that is not emitted.
LEMMA ParkKeepsProtocol ==
  ASSUME Protocol, Cleaner = {}, NEW w \in Worker, Park(w)
  PROVE  Protocol'
<1>1. TypeOK'
  BY ParkKeepsTypes DEF Protocol
<1>2. WaitersSleep'
  <2>1. session[w].run \in Run
    BY DEF Protocol, TypeOK, Park
  <2>. QED
    BY <2>1 DEF Protocol, TypeOK, WaitersSleep, Park
<1>3. EmittedHasPayload'
  BY DEF Protocol, EmittedHasPayload, WriterIsAtWork, Park, Committed,
       ReleaseLocks, Commit, Sentinel, IsEmitted
<1>4. WriterIsAtWork'
  BY DEF Protocol, WriterIsAtWork, SharersAreAtWork, AwaitersHoldEvent,
       Park, ReleaseLocks, Commit
<1>5. EmittersWrite'
  BY DEF Protocol, EmittersWrite, Park, ReleaseLocks, Commit
<1>6. SharersAreAtWork'
  BY DEF Protocol, SharersAreAtWork, WriterIsAtWork, Park, Committed,
       ReleaseLocks, Commit
<1>7. AwaitersHoldEvent'
  BY DEF Protocol, TypeOK, AwaitersHoldEvent, WriterIsAtWork, Park,
       Committed, ReleaseLocks, Commit, Idle
<1>8. ReadIsCurrent'
  BY DEF Protocol, ReadIsCurrent, WriterIsAtWork, Park, Committed,
       Commit, Sentinel, IsEmitted
<1>9. EmitterKnowsWaits'
  BY DEF Protocol, EmitterKnowsWaits, WriterIsAtWork, AwaitersHoldEvent,
       EmittersWrite, Park, Commit
<1>10. NoLostWakeup'
  BY DEF Protocol, NoLostWakeup, WriterIsAtWork, ReadIsCurrent, Park,
       Committed, Commit, Sentinel, IsEmitted
<1>. QED
  BY <1>1, <1>2, <1>3, <1>4, <1>5, <1>6, <1>7, <1>8, <1>9, <1>10 DEF Protocol

\* An emission begins when nobody holds the row.
LEMMA UpsertKeepsProtocol ==
  ASSUME Protocol, Cleaner = {}, NEW c \in Client, NEW p \in Payload, Upsert(c, p)
  PROVE  Protocol'
<1>1. TypeOK'
  BY UpsertKeepsTypes DEF Protocol
<1>2. WaitersSleep'
  BY NextPoints DEF Protocol, WaitersSleep, Upsert, tables
<1>3. EmittedHasPayload'
  BY NextPoints DEF Protocol, EmittedHasPayload, Upsert, tables
<1>4. WriterIsAtWork'
  BY NextPoints DEF Protocol, TypeOK, WriterIsAtWork, Upsert, Goto,
       tables, Emitted
<1>5. EmittersWrite'
  BY NextPoints DEF Protocol, EmittersWrite, Upsert, Goto
<1>6. SharersAreAtWork'
  BY NextPoints DEF Protocol, SharersAreAtWork, Upsert
<1>7. AwaitersHoldEvent'
  BY NextPoints DEF Protocol, AwaitersHoldEvent, Upsert, Goto, tables
<1>8. ReadIsCurrent'
  BY NextPoints DEF Protocol, ReadIsCurrent, Upsert, tables
<1>9. EmitterKnowsWaits'
  BY NextPoints DEF Protocol, EmitterKnowsWaits, EmittersWrite, Upsert,
       Goto
<1>10. NoLostWakeup'
  BY NextPoints DEF Protocol, NoLostWakeup, Upsert, tables
<1>. QED
  BY <1>1, <1>2, <1>3, <1>4, <1>5, <1>6, <1>7, <1>8, <1>9, <1>10 DEF Protocol

\* The snapshot has all waits.
LEMMA ScanKeepsProtocol ==
  ASSUME Protocol, Cleaner = {}, NEW c \in Client, ScanWaits(c)
  PROVE  Protocol'
<1>1. TypeOK'
  BY ScanKeepsTypes DEF Protocol
<1>2. WaitersSleep'
  BY DEF Protocol, WaitersSleep, ScanWaits, tables
<1>3. EmittedHasPayload'
  BY DEF Protocol, EmittedHasPayload, ScanWaits, tables
<1>4. WriterIsAtWork'
  BY DEF Protocol, WriterIsAtWork, ScanWaits, tables, locks
<1>5. EmittersWrite'
  BY DEF Protocol, EmittersWrite, ScanWaits, locks
<1>6. SharersAreAtWork'
  BY DEF Protocol, SharersAreAtWork, ScanWaits, tables, locks
<1>7. AwaitersHoldEvent'
  BY DEF Protocol, AwaitersHoldEvent, ScanWaits, tables, locks
<1>8. ReadIsCurrent'
  BY DEF Protocol, ReadIsCurrent, WriterIsAtWork, AwaitersHoldEvent,
       EmittersWrite, ScanWaits
<1>9. EmitterKnowsWaits'
  BY DEF Protocol, EmitterKnowsWaits, EmittersWrite, ScanWaits, tables
<1>10. NoLostWakeup'
  BY DEF Protocol, NoLostWakeup, ScanWaits, tables
<1>. QED
  BY <1>1, <1>2, <1>3, <1>4, <1>5, <1>6, <1>7, <1>8, <1>9, <1>10 DEF Protocol

\* A run that is not locked because it does not sleep does not wait.
LEMMA AffectedKeepsProtocol ==
  ASSUME Protocol, Cleaner = {}, NEW c \in Client, NEW r \in Run, LockAffectedRun(c, r)
  PROVE  Protocol'
<1>1. TypeOK'
  BY AffectedKeepsTypes DEF Protocol
<1>2. WaitersSleep'
  BY DEF Protocol, WaitersSleep, LockAffectedRun, tables
<1>3. EmittedHasPayload'
  BY DEF Protocol, EmittedHasPayload, LockAffectedRun, tables
<1>4. WriterIsAtWork'
  BY DEF Protocol, WriterIsAtWork, LockAffectedRun, tables
<1>5. EmittersWrite'
  BY DEF Protocol, EmittersWrite, LockAffectedRun
<1>6. SharersAreAtWork'
  BY DEF Protocol, SharersAreAtWork, LockAffectedRun, tables
<1>7. AwaitersHoldEvent'
  BY DEF Protocol, AwaitersHoldEvent, LockAffectedRun, tables
<1>8. ReadIsCurrent'
  BY DEF Protocol, ReadIsCurrent, WriterIsAtWork, AwaitersHoldEvent,
       EmittersWrite, LockAffectedRun
<1>9. EmitterKnowsWaits'
  <2>. SUFFICES ASSUME NEW d \in Client, session'[d].at = "wake",
                       NEW x \in waiting'
                PROVE  x \in session'[d].affected \/ (x \in Run /\ runLock'[x] = d)
    BY DEF EmitterKnowsWaits
  <2>1. d = c
    BY DEF Protocol, TypeOK, EmittersWrite, LockAffectedRun
  <2>2. waiting' = waiting /\ x \in Run /\ runState[x] = "sleeping"
    BY DEF Protocol, TypeOK, WaitersSleep, LockAffectedRun, tables
  <2>3. x \in session[c].affected \/ runLock[x] = c
    BY <2>2 DEF Protocol, EmitterKnowsWaits, LockAffectedRun
  <2>4. session'[c].affected = session[c].affected \ {r}
    BY DEF Protocol, TypeOK, SessionRow, LockAffectedRun
  <2>5. CASE x = r
    BY <2>1, <2>2, <2>5 DEF Protocol, TypeOK, LockAffectedRun
  <2>6. CASE x # r
    BY <2>1, <2>2, <2>3, <2>4, <2>6 DEF Protocol, TypeOK, LockAffectedRun
  <2>. QED
    BY <2>5, <2>6
<1>10. NoLostWakeup'
  BY DEF Protocol, NoLostWakeup, LockAffectedRun, tables
<1>. QED
  BY <1>1, <1>2, <1>3, <1>4, <1>5, <1>6, <1>7, <1>8, <1>9, <1>10 DEF Protocol

\* The emission wakes every run that waits, and commits.
LEMMA WakeKeepsProtocol ==
  ASSUME Protocol, Cleaner = {}, NEW c \in Client, WakeRuns(c)
  PROVE  Protocol'
<1>1. TypeOK'
  BY WakeKeepsTypes DEF Protocol
<1>2. WaitersSleep'
  BY DEF Protocol, TypeOK, WaitersSleep, WakeRuns
<1>3. EmittedHasPayload'
  BY DEF Protocol, EmittedHasPayload, WriterIsAtWork, WakeRuns,
       Committed, Commit
<1>4. WriterIsAtWork'
  BY DEF Protocol, WriterIsAtWork, EmittersWrite, WakeRuns,
       ReleaseLocks, Commit
<1>5. EmittersWrite'
  BY DEF Protocol, TypeOK, EmittersWrite, WakeRuns, Commit, Idle
<1>6. SharersAreAtWork'
  BY DEF Protocol, SharersAreAtWork, WriterIsAtWork, WakeRuns,
       Committed, ReleaseLocks, Commit
<1>7. AwaitersHoldEvent'
  BY DEF Protocol, AwaitersHoldEvent, WriterIsAtWork, WakeRuns,
       Committed, ReleaseLocks, Commit
<1>8. ReadIsCurrent'
  BY DEF Protocol, ReadIsCurrent, WriterIsAtWork, AwaitersHoldEvent,
       EmittersWrite, WakeRuns, Commit
<1>9. EmitterKnowsWaits'
  BY DEF Protocol, EmitterKnowsWaits, WakeRuns
<1>10. NoLostWakeup'
  BY DEF Protocol, NoLostWakeup, EmitterKnowsWaits, WakeRuns
<1>. QED
  BY <1>1, <1>2, <1>3, <1>4, <1>5, <1>6, <1>7, <1>8, <1>9, <1>10 DEF Protocol

\* A rollback leaves the tables and lets go of the row.
LEMMA AbortKeepsProtocol ==
  ASSUME Protocol, Cleaner = {}, NEW s \in Session, Abort(s)
  PROVE  Protocol'
<1>1. TypeOK'
  BY AbortKeepsTypes DEF Protocol
<1>2. WaitersSleep'
  BY DEF Protocol, WaitersSleep, Abort, tables
<1>3. EmittedHasPayload'
  BY DEF Protocol, EmittedHasPayload, Abort, tables
<1>4. WriterIsAtWork'
  BY DEF Protocol, WriterIsAtWork, Abort, tables, ReleaseLocks
<1>5. EmittersWrite'
  BY DEF Protocol, TypeOK, EmittersWrite, Abort, ReleaseLocks, Idle
<1>6. SharersAreAtWork'
  BY DEF Protocol, SharersAreAtWork, Abort, tables, ReleaseLocks
<1>7. AwaitersHoldEvent'
  BY DEF Protocol, TypeOK, AwaitersHoldEvent, Abort, tables,
       ReleaseLocks, Idle
<1>8. ReadIsCurrent'
  BY DEF Protocol, ReadIsCurrent, Abort, tables, Idle
<1>9. EmitterKnowsWaits'
  BY DEF Protocol, TypeOK, EmitterKnowsWaits, Abort, tables,
       ReleaseLocks, Idle
<1>10. NoLostWakeup'
  BY DEF Protocol, NoLostWakeup, Abort, tables
<1>. QED
  BY <1>1, <1>2, <1>3, <1>4, <1>5, <1>6, <1>7, <1>8, <1>9, <1>10 DEF Protocol

\* A run that is claimed does not sleep, so it does not wait.
LEMMA ClaimKeepsProtocol ==
  ASSUME Protocol, Cleaner = {}, NEW r \in Run, Claim(r)
  PROVE  Protocol'
<1>1. TypeOK'
  BY ClaimKeepsTypes DEF Protocol
<1>2. WaitersSleep'
  BY DEF Protocol, WaitersSleep, Claim
<1>3. EmittedHasPayload'
  BY DEF Protocol, EmittedHasPayload, Claim
<1>4. WriterIsAtWork'
  BY DEF Protocol, WriterIsAtWork, Claim, locks
<1>5. EmittersWrite'
  BY DEF Protocol, EmittersWrite, Claim, locks
<1>6. SharersAreAtWork'
  BY DEF Protocol, SharersAreAtWork, Claim, locks
<1>7. AwaitersHoldEvent'
  BY DEF Protocol, AwaitersHoldEvent, Claim, locks
<1>8. ReadIsCurrent'
  BY DEF Protocol, ReadIsCurrent, Claim
<1>9. EmitterKnowsWaits'
  BY DEF Protocol, EmitterKnowsWaits, Claim, locks
<1>10. NoLostWakeup'
  BY DEF Protocol, NoLostWakeup, Claim
<1>. QED
  BY <1>1, <1>2, <1>3, <1>4, <1>5, <1>6, <1>7, <1>8, <1>9, <1>10 DEF Protocol

\* Growing old does not change whether an event is emitted.
LEMMA AgeKeepsProtocol ==
  ASSUME Protocol, Cleaner = {}, Age
  PROVE  Protocol'
<1>1. TypeOK'
  BY AgeKeepsTypes DEF Protocol
<1>2. WaitersSleep'
  BY DEF Protocol, WaitersSleep, Age
<1>3. EmittedHasPayload'
  BY DEF Protocol, EmittedHasPayload, Age, IsEmitted
<1>4. WriterIsAtWork'
  BY DEF Protocol, WriterIsAtWork, Age, locks, IsEmitted
<1>5. EmittersWrite'
  BY DEF Protocol, EmittersWrite, WriterIsAtWork, Age, IsEmitted
<1>6. SharersAreAtWork'
  BY DEF Protocol, SharersAreAtWork, Age, locks
<1>7. AwaitersHoldEvent'
  BY DEF Protocol, AwaitersHoldEvent, Age, locks
<1>8. ReadIsCurrent'
  BY DEF Protocol, ReadIsCurrent, Age, IsEmitted
<1>9. EmitterKnowsWaits'
  BY DEF Protocol, EmitterKnowsWaits, WriterIsAtWork, EmittersWrite,
       Age, IsEmitted
<1>10. NoLostWakeup'
  BY DEF Protocol, NoLostWakeup, Age, IsEmitted
<1>. QED
  BY <1>1, <1>2, <1>3, <1>4, <1>5, <1>6, <1>7, <1>8, <1>9, <1>10 DEF Protocol

-----------------------------------------------------------------------------
(* The theorem.                                                            *)

\* The protocol holds before anything has happened.
LEMMA InitProtocol == Init => Protocol
<1>. SUFFICES ASSUME Init PROVE Protocol
  OBVIOUS
<1>1. NoEvent \in EventRow /\ ~IsEmitted(NoEvent)
  BY DEF NoEvent, EventRow, IsEmitted
<1>2. Idle \in SessionRow /\ Idle.at = "idle"
  BY DEF Idle, SessionRow, Point
<1>3. TypeOK
  BY <1>1, <1>2 DEF Init, TypeOK
<1>4. WaitersSleep /\ EmittedHasPayload /\ WriterIsAtWork /\ SharersAreAtWork
  BY <1>1 DEF Init, WaitersSleep, EmittedHasPayload, WriterIsAtWork,
       SharersAreAtWork
<1>5. EmittersWrite /\ AwaitersHoldEvent /\ ReadIsCurrent /\ EmitterKnowsWaits
  BY <1>2 DEF Init, EmittersWrite, AwaitersHoldEvent, ReadIsCurrent,
       EmitterKnowsWaits
<1>6. NoLostWakeup
  BY DEF Init, NoLostWakeup
<1>. QED
  BY <1>3, <1>4, <1>5, <1>6 DEF Protocol

\* Every step keeps the protocol, if nobody cleans up.
LEMMA NextProtocol ==
  ASSUME Protocol, Cleaner = {}, [Next]_vars
  PROVE  Protocol'
<1>1. ASSUME NEW w \in Worker, AwaitStep(w) PROVE Protocol'
  BY <1>1, BeginKeepsProtocol, InsertKeepsProtocol, ShareKeepsProtocol,
     LockKeepsProtocol, ReadKeepsProtocol, ResolveKeepsProtocol,
     ParkKeepsProtocol DEF AwaitStep
<1>2. ASSUME NEW c \in Client, EmitStep(c) PROVE Protocol'
  BY <1>2, UpsertKeepsProtocol, ScanKeepsProtocol, AffectedKeepsProtocol,
     WakeKeepsProtocol DEF EmitStep
<1>3. CASE UNCHANGED vars
  BY <1>3 DEF vars, Protocol, TypeOK, WaitersSleep, EmittedHasPayload,
       WriterIsAtWork, EmittersWrite, SharersAreAtWork, AwaitersHoldEvent,
       ReadIsCurrent, EmitterKnowsWaits, NoLostWakeup, IsEmitted
<1>. QED
  BY <1>1, <1>2, <1>3, AbortKeepsProtocol, ClaimKeepsProtocol,
     AgeKeepsProtocol DEF Next

\* As long as no cleanup of events runs, however many sessions await and emit
\* an event at the same time, no run is left waiting for an emitted event.
THEOREM NoWakeupIsLost ==
  ASSUME Cleaner = {}
  PROVE  Spec => []NoLostWakeup
<1>1. Protocol /\ [Next]_vars => Protocol'
  BY NextProtocol
<1>2. Protocol => NoLostWakeup
  BY DEF Protocol
<1>. QED
  BY <1>1, <1>2, InitProtocol, PTL DEF Spec

-----------------------------------------------------------------------------
(* Without cleanup the transactions implement AtomicEvent: what has to be  *)
(* known besides, to see that.                                             *)

\* Every sleeping run has its wait.
SleepersWait == \A r \in Run : runState[r] = "sleeping" => r \in waiting

\* An event that is not emitted has no payload.
OnlyEmittedHasPayload == ~IsEmitted(event) => event.payload = Null

\* A run was given the payload that the event has.
CheckpointIsPayload ==
  \A r \in Run : checkpoint[r] # Null =>
    IsEmitted(event) /\ checkpoint[r] = event.payload

\* So is a worker that has seen one about to give.
SeenIsPayload ==
  \A w \in Worker : session[w].at = "settle" /\ session[w].seen # Null =>
    IsEmitted(event) /\ session[w].seen = event.payload

\* An emission holds sleeping runs only.
EmittersHoldSleepers ==
  \A r \in Run : runLock[r] \in Client => runState[r] = "sleeping"

AtomicInv ==
  /\ Protocol
  /\ SleepersWait
  /\ OnlyEmittedHasPayload
  /\ CheckpointIsPayload
  /\ SeenIsPayload
  /\ EmittersHoldSleepers

\* What AtomicEvent says of the tables.
Promised ==
  <<IF IsEmitted(event) THEN event.payload ELSE Null, runState, checkpoint>>

\* A worker that commits has at most inserted the sentinel: whether the event
\* is emitted, and with what payload, stays as it was.
LEMMA AwaitKeepsPayload ==
  ASSUME AtomicInv, NEW w \in Worker, Commit(w)
  PROVE  /\ event'.payload = event.payload
         /\ IsEmitted(event') <=> IsEmitted(event)
<1>1. CASE writer # w
  BY <1>1 DEF Commit, Committed
<1>2. CASE writer = w
  <2>1. event' = Sentinel /\ ~IsEmitted(event)
    BY <1>2 DEF AtomicInv, Protocol, WriterIsAtWork, Commit, Committed
  <2>. QED
    BY <2>1 DEF AtomicInv, OnlyEmittedHasPayload, Sentinel, IsEmitted
<1>. QED
  BY <1>1, <1>2

\* A session that commits or rolls back keeps no lock, and the others theirs.
LEMMA ReleasedLocks ==
  ASSUME AtomicInv, NEW s \in Session, ReleaseLocks(s), NEW r \in Run,
         runLock'[r] # Null
  PROVE  runLock'[r] = runLock[r] /\ runLock[r] # s
BY DEF ReleaseLocks

\* A worker's statements before it commits leave the tables alone.
LEMMA AwaitKeepsAtomic ==
  ASSUME AtomicInv, Protocol', NEW w \in Worker,
         \/ \E r \in Run : BeginAwait(w, r)
         \/ InsertSentinel(w) \/ LockEventRow(w)
         \/ LockRunRow(w) \/ ReadPayload(w)
  PROVE  AtomicInv' /\ UNCHANGED tables
<1>1. UNCHANGED tables
  BY DEF BeginAwait, InsertSentinel, LockEventRow, LockRunRow, ReadPayload
<1>2. SleepersWait' /\ OnlyEmittedHasPayload' /\ CheckpointIsPayload'
  BY <1>1 DEF AtomicInv, SleepersWait, OnlyEmittedHasPayload,
       CheckpointIsPayload, tables
<1>3. session \in [Session -> SessionRow] /\ w \in Session
  BY DEF AtomicInv, Protocol, TypeOK
<1>4. PICK row : session' = [session EXCEPT ![w] = row]
  BY DEF BeginAwait, InsertSentinel, LockEventRow, LockRunRow, ReadPayload, Goto
<1>5. row.at # "settle" \/ row.seen = event.payload
  <2>1. CASE \E r \in Run : BeginAwait(w, r)
    BY <1>3, <1>4, <2>1, NextPoints DEF BeginAwait, Idle
  <2>2. CASE InsertSentinel(w)
    BY <1>3, <1>4, <2>2, NextPoints DEF InsertSentinel, Goto, SessionRow
  <2>3. CASE LockEventRow(w)
    BY <1>3, <1>4, <2>3, NextPoints DEF LockEventRow, Goto, SessionRow
  <2>4. CASE LockRunRow(w)
    BY <1>3, <1>4, <2>4, NextPoints DEF LockRunRow, Goto, SessionRow
  <2>5. CASE ReadPayload(w)
    <3>1. row = session'[w] /\ session[w] \in SessionRow
      BY <1>3, <1>4
    <3>2. session'[w] = [session[w] EXCEPT !.at = "settle",
                                           !.seen = event.payload]
      BY <1>3, <2>5, NextPoints DEF ReadPayload
    <3>3. session'[w].seen = event.payload
      BY <3>1, <3>2 DEF SessionRow
    <3>. QED
      BY <3>1, <3>3
  <2>. QED
    BY <2>1, <2>2, <2>3, <2>4, <2>5
<1>6. SeenIsPayload'
  BY <1>1, <1>3, <1>4, <1>5
     DEF AtomicInv, SeenIsPayload, OnlyEmittedHasPayload, tables
<1>7. \A r \in Run : runLock'[r] \in Client => runLock'[r] = runLock[r]
  <2>1. CASE LockRunRow(w)
    BY <2>1 DEF AtomicInv, Protocol, TypeOK, LockRunRow
  <2>2. CASE ~LockRunRow(w)
    BY <2>2 DEF BeginAwait, InsertSentinel, LockEventRow, ReadPayload, locks
  <2>. QED
    BY <2>1, <2>2
<1>8. EmittersHoldSleepers'
  BY <1>1, <1>7 DEF AtomicInv, EmittersHoldSleepers, tables
<1>. QED
  BY <1>1, <1>2, <1>6, <1>8 DEF AtomicInv

\* Returning a payload gives the run the payload of the event, which is what
\* it was given before if it was given one.
LEMMA ResolveIsAtomic ==
  ASSUME AtomicInv, Protocol', NEW w \in Worker, Resolve(w)
  PROVE  /\ AtomicInv'
         /\ (\E r \in Run : Atomic!Await(r))
            \/ UNCHANGED Promised
<1>. DEFINE r == session[w].run
<1>1. r \in Run /\ session[w].at = "settle" /\ session[w].seen # Null
  BY DEF AtomicInv, Protocol, TypeOK, Resolve
<1>2. IsEmitted(event) /\ session[w].seen = event.payload
  BY <1>1 DEF AtomicInv, SeenIsPayload
<1>3. /\ event'.payload = event.payload
      /\ IsEmitted(event') <=> IsEmitted(event)
  BY AwaitKeepsPayload DEF Resolve
<1>4. checkpoint' = [checkpoint EXCEPT ![r] = event.payload]
  BY <1>2 DEF Resolve
<1>5. UNCHANGED <<runState, waiting>>
  BY DEF Resolve
<1>6. checkpoint \in [Run -> Payload \union {Null}]
  BY DEF AtomicInv, Protocol, TypeOK
<1>7. SleepersWait' /\ OnlyEmittedHasPayload'
  BY <1>3, <1>5 DEF AtomicInv, SleepersWait, OnlyEmittedHasPayload
<1>8. CheckpointIsPayload'
  BY <1>1, <1>2, <1>3, <1>4, <1>6 DEF AtomicInv, CheckpointIsPayload
<1>9. SeenIsPayload'
  BY <1>3 DEF AtomicInv, SeenIsPayload, Protocol, TypeOK, Resolve, Commit, Idle
<1>10. EmittersHoldSleepers'
  BY <1>5, ReleasedLocks DEF AtomicInv, EmittersHoldSleepers, Resolve, Commit
<1>11. CASE checkpoint[r] = Null
  <2>1. event.payload # Null
    BY <1>1, <1>2
  <2>2. Atomic!Await(r)
    BY <1>1, <1>2, <1>3, <1>4, <1>5, <1>11, <2>1 DEF Atomic!Await, Resolve
  <2>. QED
    BY <1>1, <1>7, <1>8, <1>9, <1>10, <2>2 DEF AtomicInv
<1>12. CASE checkpoint[r] # Null
  <2>1. checkpoint[r] = event.payload
    BY <1>1, <1>12 DEF AtomicInv, CheckpointIsPayload
  <2>2. checkpoint' = checkpoint
    BY <1>4, <1>6, <2>1
  <2>. QED
    BY <1>3, <1>5, <1>7, <1>8, <1>9, <1>10, <2>2 DEF AtomicInv, Promised
<1>. QED
  BY <1>11, <1>12

\* Parking puts a run to sleep that was given nothing.
LEMMA ParkIsAtomic ==
  ASSUME AtomicInv, Protocol', NEW w \in Worker, Park(w)
  PROVE  AtomicInv' /\ \E r \in Run : Atomic!Await(r)
<1>. DEFINE r == session[w].run
<1>1. r \in Run /\ session[w].at = "settle" /\ session[w].seen = Null
  BY DEF AtomicInv, Protocol, TypeOK, Park
<1>2. ~IsEmitted(event) /\ checkpoint[r] = Null
  BY <1>1 DEF AtomicInv, Protocol, ReadIsCurrent, CheckpointIsPayload
<1>3. /\ event'.payload = event.payload
      /\ IsEmitted(event') <=> IsEmitted(event)
  BY AwaitKeepsPayload DEF Park
<1>4. /\ runState' = [runState EXCEPT ![r] = "sleeping"]
      /\ waiting' = waiting \union {r}
      /\ UNCHANGED checkpoint
  BY DEF Park
<1>5. runState \in [Run -> {"pending", "running", "sleeping"}]
  BY DEF AtomicInv, Protocol, TypeOK
<1>6. SleepersWait' /\ OnlyEmittedHasPayload' /\ CheckpointIsPayload'
  BY <1>3, <1>4, <1>5 DEF AtomicInv, SleepersWait, OnlyEmittedHasPayload,
                          CheckpointIsPayload
<1>7. SeenIsPayload'
  BY <1>3 DEF AtomicInv, SeenIsPayload, Protocol, TypeOK, Park, Commit, Idle
<1>8. EmittersHoldSleepers'
  <2>1. \A q \in Run : runLock'[q] \in Client => runLock[q] \in Client
    BY ReleasedLocks DEF Park, Commit
  <2>. QED
    BY <1>4, <1>5, <2>1 DEF AtomicInv, EmittersHoldSleepers
<1>9. Atomic!Await(r)
  BY <1>2, <1>3, <1>4 DEF Atomic!Await, Park
<1>. QED
  BY <1>1, <1>6, <1>7, <1>8, <1>9 DEF AtomicInv

\* Until it commits, an emission leaves the tables alone.
LEMMA EmitKeepsAtomic ==
  ASSUME AtomicInv, Protocol', NEW c \in Client,
         \/ \E p \in Payload : Upsert(c, p)
         \/ ScanWaits(c)
         \/ \E r \in Run : LockAffectedRun(c, r)
  PROVE  AtomicInv' /\ UNCHANGED tables
<1>1. UNCHANGED tables
  BY DEF Upsert, ScanWaits, LockAffectedRun
<1>2. SleepersWait' /\ OnlyEmittedHasPayload' /\ CheckpointIsPayload'
  BY <1>1 DEF AtomicInv, SleepersWait, OnlyEmittedHasPayload,
       CheckpointIsPayload, tables
<1>3. SeenIsPayload'
  <2>1. \A w \in Worker : session'[w] = session[w]
    BY DEF Upsert, ScanWaits, LockAffectedRun, Goto, AtomicInv, Protocol,
           TypeOK
  <2>. QED
    BY <1>1, <2>1 DEF AtomicInv, SeenIsPayload, tables
<1>4. EmittersHoldSleepers'
  BY DEF AtomicInv, Protocol, TypeOK, EmittersHoldSleepers, Upsert,
         ScanWaits, LockAffectedRun, tables, locks
<1>. QED
  BY <1>1, <1>2, <1>3, <1>4 DEF AtomicInv

\* The emission that commits holds the runs that sleep, all of them.
LEMMA EmissionHoldsSleepers ==
  ASSUME AtomicInv, NEW c \in Client, session[c].at = "wake",
         session[c].affected = {}
  PROVE  {r \in Run : runLock[r] = c} = {r \in Run : runState[r] = "sleeping"}
BY DEF AtomicInv, Protocol, SleepersWait, EmitterKnowsWaits,
       EmittersHoldSleepers

\* So it gives them the payload in one step.
LEMMA WakeIsAtomic ==
  ASSUME AtomicInv, Protocol', NEW c \in Client, WakeRuns(c)
  PROVE  AtomicInv' /\ \E p \in Payload : Atomic!Emit(p)
<1>. DEFINE woken == {r \in Run : runLock[r] = c}
<1>1. woken = {r \in Run : runState[r] = "sleeping"}
  BY EmissionHoldsSleepers DEF WakeRuns
<1>2. writer = c /\ ~IsEmitted(event)
  BY DEF AtomicInv, Protocol, EmittersWrite, WriterIsAtWork, WakeRuns
<1>3. draft.state = "emitted" /\ draft.payload \in Payload
  BY <1>2 DEF AtomicInv, Protocol, WriterIsAtWork
<1>4. event' = draft /\ IsEmitted(event')
  BY <1>2, <1>3 DEF WakeRuns, Commit, Committed, IsEmitted
<1>5. /\ runState' = [r \in Run |->
                        IF r \in woken THEN "pending" ELSE runState[r]]
      /\ checkpoint' = [r \in Run |->
                          IF r \in woken THEN draft.payload ELSE checkpoint[r]]
  BY DEF WakeRuns
<1>6. SleepersWait' /\ OnlyEmittedHasPayload'
  BY <1>1, <1>4, <1>5 DEF SleepersWait, OnlyEmittedHasPayload
<1>7. CheckpointIsPayload'
  BY <1>2, <1>4, <1>5 DEF AtomicInv, CheckpointIsPayload
<1>8. SeenIsPayload'
  BY <1>2 DEF AtomicInv, SeenIsPayload, Protocol, TypeOK, WakeRuns, Commit
<1>9. EmittersHoldSleepers'
  BY <1>5, ReleasedLocks DEF AtomicInv, EmittersHoldSleepers, WakeRuns, Commit
<1>10. Atomic!Emit(draft.payload)
  BY <1>1, <1>2, <1>4, <1>5 DEF Atomic!Emit
<1>. QED
  BY <1>3, <1>6, <1>7, <1>8, <1>9, <1>10 DEF AtomicInv

\* A rollback leaves the tables alone.
LEMMA AbortKeepsAtomic ==
  ASSUME AtomicInv, Protocol', NEW s \in Session, Abort(s)
  PROVE  AtomicInv' /\ UNCHANGED tables
<1>1. SleepersWait' /\ OnlyEmittedHasPayload' /\ CheckpointIsPayload'
  BY DEF AtomicInv, SleepersWait, OnlyEmittedHasPayload,
         CheckpointIsPayload, Abort, tables
<1>2. SeenIsPayload'
  BY DEF AtomicInv, SeenIsPayload, Protocol, TypeOK, Abort, Idle, tables
<1>3. EmittersHoldSleepers'
  BY ReleasedLocks DEF AtomicInv, EmittersHoldSleepers, Abort, tables
<1>. QED
  BY <1>1, <1>2, <1>3 DEF AtomicInv, Abort

\* A claim is a step of its own.
LEMMA ClaimIsAtomic ==
  ASSUME AtomicInv, Protocol', NEW r \in Run, Claim(r)
  PROVE  AtomicInv' /\ Atomic!Claim(r)
<1>1. SleepersWait' /\ OnlyEmittedHasPayload' /\ CheckpointIsPayload'
  BY DEF AtomicInv, Protocol, TypeOK, SleepersWait, OnlyEmittedHasPayload,
         CheckpointIsPayload, Claim
<1>2. SeenIsPayload' /\ EmittersHoldSleepers'
  BY DEF AtomicInv, Protocol, TypeOK, SeenIsPayload, EmittersHoldSleepers,
         Claim, locks
<1>3. Atomic!Claim(r)
  BY DEF Atomic!Claim, Claim
<1>. QED
  BY <1>1, <1>2, <1>3 DEF AtomicInv

\* An event that grows old keeps its payload.
LEMMA AgeKeepsAtomic ==
  ASSUME AtomicInv, Protocol', Age
  PROVE  /\ AtomicInv'
         /\ UNCHANGED Promised
<1>1. /\ IsEmitted(event) /\ IsEmitted(event')
      /\ event'.payload = event.payload
  BY DEF AtomicInv, Protocol, TypeOK, EventRow, Age, IsEmitted
<1>2. SleepersWait' /\ OnlyEmittedHasPayload' /\ CheckpointIsPayload'
  BY <1>1 DEF AtomicInv, SleepersWait, OnlyEmittedHasPayload,
              CheckpointIsPayload, Age
<1>3. SeenIsPayload' /\ EmittersHoldSleepers'
  BY <1>1 DEF AtomicInv, SeenIsPayload, EmittersHoldSleepers, Age, locks
<1>. QED
  BY <1>1, <1>2, <1>3 DEF AtomicInv, Promised, Age

-----------------------------------------------------------------------------
(* The refinement.                                                         *)

\* At first the event is not emitted, and no run sleeps.
LEMMA InitAtomic == Init => AtomicInv /\ Atomic!Init
<1>. SUFFICES ASSUME Init PROVE AtomicInv /\ Atomic!Init
  OBVIOUS
<1>1. ~IsEmitted(event) /\ event.payload = Null
  BY DEF Init, NoEvent, IsEmitted
<1>2. Atomic!Init
  BY <1>1 DEF Init, Atomic!Init
<1>3. SleepersWait /\ OnlyEmittedHasPayload /\ CheckpointIsPayload
  BY <1>1 DEF Init, SleepersWait, OnlyEmittedHasPayload, CheckpointIsPayload
<1>4. SeenIsPayload /\ EmittersHoldSleepers
  BY DEF Init, Idle, SeenIsPayload, EmittersHoldSleepers
<1>. QED
  BY <1>2, <1>3, <1>4, InitProtocol DEF AtomicInv

\* Every step keeps the invariant, and is a step of AtomicEvent or none.
LEMMA NextAtomic ==
  ASSUME AtomicInv, Cleaner = {}, [Next]_vars
  PROVE  AtomicInv' /\ (Atomic!Next \/ UNCHANGED Promised)
<1>1. Protocol'
  BY NextProtocol DEF AtomicInv
<1>2. UNCHANGED tables => UNCHANGED Promised
  BY DEF tables, Promised
<1>3. ASSUME NEW w \in Worker, AwaitStep(w)
      PROVE  AtomicInv' /\ (Atomic!Next \/ UNCHANGED Promised)
  BY <1>1, <1>2, <1>3, AwaitKeepsAtomic, ResolveIsAtomic, ParkIsAtomic
     DEF AwaitStep, Atomic!Next, Promised
<1>4. ASSUME NEW c \in Client, EmitStep(c)
      PROVE  AtomicInv' /\ (Atomic!Next \/ UNCHANGED Promised)
  BY <1>1, <1>2, <1>4, EmitKeepsAtomic, WakeIsAtomic DEF EmitStep, Atomic!Next
<1>5. ASSUME NEW s \in Session, Abort(s)
      PROVE  AtomicInv' /\ (Atomic!Next \/ UNCHANGED Promised)
  BY <1>1, <1>2, <1>5, AbortKeepsAtomic
<1>6. ASSUME NEW r \in Run, Claim(r)
      PROVE  AtomicInv' /\ (Atomic!Next \/ UNCHANGED Promised)
  BY <1>1, <1>6, ClaimIsAtomic DEF Atomic!Next
<1>7. CASE Age
  BY <1>1, <1>7, AgeKeepsAtomic DEF Promised
<1>8. CASE UNCHANGED vars
  BY <1>1, <1>8 DEF vars, Promised, AtomicInv, SleepersWait,
       OnlyEmittedHasPayload, CheckpointIsPayload, SeenIsPayload,
       EmittersHoldSleepers, IsEmitted
<1>. QED
  BY <1>3, <1>4, <1>5, <1>6, <1>7, <1>8 DEF Next

\* Without cleanup, sessions at work at the same time change the runs, their
\* checkpoints and the event as if each call of await_event and emit_event
\* ran alone: whoever awaits is given the one payload, at once or when woken.
THEOREM AwaitAndEmitAreAtomic ==
  ASSUME Cleaner = {}
  PROVE  Spec => FunctionsAreAtomic
<1>. DEFINE emitted == IF IsEmitted(event) THEN event.payload ELSE Null
<1>1. AtomicInv /\ [Next]_vars => AtomicInv'
  BY NextAtomic
<1>2. AtomicInv /\ [Next]_vars =>
        [Atomic!Next]_<<emitted, runState, checkpoint>>
  BY NextAtomic DEF Promised
<1>3. Init => AtomicInv /\ Atomic!Init
  BY InitAtomic
<1>. QED
  BY <1>1, <1>2, <1>3, PTL DEF Spec, FunctionsAreAtomic, Atomic!Spec

=============================================================================

----------------------------- MODULE SqliteStore -----------------------------
(***************************************************************************)
(* Statements and transactions of storage/sqlite/internals.py, and the     *)
(* callers that need more than one statement: insert_entry and             *)
(* cleanup_old_entries of storage/sqlite/entries.py.                       *)
(*                                                                         *)
(* Processes share one database file in WAL mode: one connection at a time *)
(* holds the write lock, and a connection that read inside a transaction   *)
(* keeps its snapshot until that ends.  A process has an asyncio write     *)
(* lock around each storage call that writes, a write gate around each     *)
(* statement or transaction, and a pool that hands connections out in      *)
(* turn.  A call that fails gives its connection back as it is.            *)
(***************************************************************************)
EXTENDS Naturals, Sequences

CONSTANTS Process,
          Thread,       \* storage calls in flight, each with its worker thread
          Home,         \* the process of a thread
          Entry,        \* identifiers of entries
          Old,          \* entries dated before the retention cutoff
          Cleaners,     \* processes that run cleanup_old_entries
          Cancelled,    \* threads whose callers may be cancelled
          MaxSize,      \* max_size of each pool
          Retries,      \* SQLITE_LOCK_RETRIES
          NoThread, NoConn, NoItem,
          MaxCalls, MaxCleanups, MaxConflicts, MaxFaults, MaxCrashes   \* bounds of the runs

ASSUME HomeAssumption == Home \in [Thread -> Process]
ASSUME SizeAssumption == MaxSize \in Nat \ {0} /\ Retries \in Nat
ASSUME BoundsAssumption ==
  {MaxCalls, MaxCleanups, MaxConflicts, MaxFaults, MaxCrashes} \subseteq Nat

Conn == Process \X (1..MaxSize)
Ticket == 1..MaxCalls      \* one for each call; a touch writes its ticket
ASSUME NoneAssumption == NoThread \notin Thread /\ NoConn \notin Conn /\ NoItem \notin Entry

VARIABLES
  db,        \* committed: entries, total, archive and rows that other calls wrote
  tx,        \* transaction of a connection: "none", "begun", "read", "stale" or "write"
  view,      \* what a connection that holds the write lock would commit
  opened,    \* connections a process has opened
  pool,      \* _pool: idle connections, the next one first
  gate,      \* _write_gate: the thread inside
  guard,     \* _write_lock: the call inside
  call,      \* state of each thread's call
  acked,     \* entries and tickets whose call returned
  late,      \* old entries logged since a retention archived and before it deletes
  calls, cleanups, conflicts, faults, crashes

memory == <<opened, pool, gate, guard>>
counters == <<calls, cleanups, conflicts, faults, crashes>>
vars == <<db, tx, view, memory, call, acked, late, counters>>

Empty == [entries |-> {}, total |-> 0, archive |-> {}, rows |-> {}]
Databases == [entries: SUBSET Entry, total: Nat, archive: SUBSET Entry, rows: SUBSET Ticket]

Kinds == {"insert", "touch", "archive", "count", "delete", "read"}
Idle == [pc |-> "idle", kind |-> "read", item |-> NoItem, ticket |-> 0, conn |-> NoConn,
         attempt |-> 0, cancelled |-> FALSE]
Calls == [pc: {"idle", "ready", "working", "stored", "executed"}, kind: Kinds,
          item: Entry \cup {NoItem}, ticket: Ticket \cup {0}, conn: Conn \cup {NoConn},
          attempt: 0..Retries, cancelled: BOOLEAN]

TypeOK ==
  /\ db \in Databases
  /\ tx \in [Conn -> {"none", "begun", "read", "stale", "write"}]
  /\ view \in [Conn -> Databases]
  /\ opened \in [Process -> 0..MaxSize]
  /\ pool \in [Process -> Seq(Conn)]
  /\ gate \in [Process -> Thread \cup {NoThread}]
  /\ guard \in [Process -> Thread \cup {NoThread}]
  /\ call \in [Thread -> Calls]
  /\ acked \subseteq Entry \cup Ticket /\ late \subseteq Entry
  /\ calls \in Nat /\ cleanups \in Nat /\ conflicts \in Nat /\ faults \in Nat /\ crashes \in Nat

Init ==
  /\ db = Empty
  /\ tx = [c \in Conn |-> "none"]
  /\ view = [c \in Conn |-> Empty]
  /\ opened = [p \in Process |-> 0]
  /\ pool = [p \in Process |-> <<>>]
  /\ gate = [p \in Process |-> NoThread]
  /\ guard = [p \in Process |-> NoThread]
  /\ call = [t \in Thread |-> Idle]
  /\ acked = {} /\ late = {}
  /\ calls = 0 /\ cleanups = 0 /\ conflicts = 0 /\ faults = 0 /\ crashes = 0

-----------------------------------------------------------------------------
(* SQLite.                                                                  *)

Writer == {c \in Conn : tx[c] = "write"}
LockFree(c) == Writer \subseteq {c}

\* A write on c is refused: another connection writes, or c read an older state.
Refused(c) == tx[c] = "stale" \/ ~LockFree(c)

\* The state a write on c adds to.
Base(c) == IF tx[c] = "write" THEN view[c] ELSE db

Stage(c, state) == /\ view' = [view EXCEPT ![c] = state]
                   /\ tx' = [tx EXCEPT ![c] = "write"]
                   /\ UNCHANGED db

\* Python begins a transaction before the first write; a refused write leaves it begun.
LeaveBegun(c) == /\ tx' = [tx EXCEPT ![c] = IF @ = "none" THEN "begun" ELSE @]
                 /\ UNCHANGED <<db, view>>

\* Broken: the statement is not committed.
BrokenCommit(c) == UNCHANGED <<db, tx, view>>

\* Snapshots that others hold grow old when the commit changed something.
Commit(c) ==
  /\ db' = view[c]
  /\ tx' = [d \in Conn |-> IF d = c THEN "none"
                           ELSE IF tx[d] = "read" /\ view[c] # db THEN "stale" ELSE tx[d]]
  /\ view' = [view EXCEPT ![c] = Empty]

\* Broken: the transaction is left as it is.
BrokenRollback(c) == UNCHANGED <<db, tx, view>>

Rollback(c) == /\ tx' = [tx EXCEPT ![c] = "none"]
               /\ view' = [view EXCEPT ![c] = Empty]
               /\ UNCHANGED db

-----------------------------------------------------------------------------
(* A storage call.  A call that writes holds the write lock of its process  *)
(* to its end, and each of its statements the gate.                         *)

Writes(kind) == kind \notin {"count", "read"}
Statement(t) == call[t].kind
At(t, pc) == call[t].pc = pc
Using(t) == call[t].conn

Begin(t, kind, item) ==
  /\ At(t, "idle") /\ calls < MaxCalls
  /\ calls' = calls + 1
  /\ call' = [call EXCEPT ![t] = [Idle EXCEPT !.pc = "ready", !.kind = kind, !.item = item,
                                              !.ticket = calls + 1]]
  /\ UNCHANGED <<db, tx, view, opened, pool, gate, acked, late, conflicts, faults, crashes>>

Locks(t) == guard[Home[t]] = NoThread /\ guard' = [guard EXCEPT ![Home[t]] = t]

\* insert_entry; the same identifier may be inserted again.
BeginInsert(t) == \E e \in Entry : Begin(t, "insert", e) /\ Locks(t) /\ UNCHANGED cleanups

\* A call with one writing statement: upsert_session, set_session_project, ...
BeginTouch(t) == Begin(t, "touch", NoItem) /\ Locks(t) /\ UNCHANGED cleanups

\* cleanup_old_entries, once in the background of a starting server.
BeginCleanup(t) == /\ Home[t] \in Cleaners
                   /\ cleanups < MaxCleanups /\ cleanups' = cleanups + 1
                   /\ Begin(t, "archive", NoItem) /\ Locks(t)

\* A call that reads.
BeginRead(t) == Begin(t, "read", NoItem) /\ UNCHANGED <<guard, cleanups>>

\* Broken: every statement opens a connection.
BrokenOpens(t) == LET p == Home[t] IN
  /\ opened' = [opened EXCEPT ![p] = @ + 1]
  /\ call' = [call EXCEPT ![t].pc = "working", ![t].conn = <<p, opened[p] + 1>>]
  /\ UNCHANGED pool

Opens(t) == LET p == Home[t] IN
  /\ pool[p] = <<>> /\ opened[p] < MaxSize
  /\ opened' = [opened EXCEPT ![p] = @ + 1]
  /\ call' = [call EXCEPT ![t].pc = "working", ![t].conn = <<p, opened[p] + 1>>]
  /\ UNCHANGED pool

Reuses(t) == LET p == Home[t] IN
  /\ pool[p] # <<>>
  /\ pool' = [pool EXCEPT ![p] = Tail(@)]
  /\ call' = [call EXCEPT ![t].pc = "working", ![t].conn = Head(pool[p])]
  /\ UNCHANGED opened

\* The gate, then a connection.
Connect(t) ==
  /\ At(t, "ready")
  /\ IF Writes(Statement(t))
     THEN gate[Home[t]] = NoThread /\ gate' = [gate EXCEPT ![Home[t]] = t]
     ELSE UNCHANGED gate
  /\ Opens(t) \/ Reuses(t)
  /\ UNCHANGED <<db, tx, view, guard, acked, late, counters>>

\* The connection goes to the end of the pool and the gate opens.
GiveBack(t) == LET p == Home[t] IN
  /\ pool' = [pool EXCEPT ![p] = Append(@, Using(t))]
  /\ gate' = [gate EXCEPT ![p] = IF @ = t THEN NoThread ELSE @]
  /\ UNCHANGED opened

Unlocks(t) == guard' = [guard EXCEPT ![Home[t]] = IF @ = t THEN NoThread ELSE @]

\* The call ends with an error, or returns.
Raise(t) == GiveBack(t) /\ Unlocks(t) /\ call' = [call EXCEPT ![t] = Idle] /\ UNCHANGED acked

Return(t) ==
  /\ GiveBack(t) /\ Unlocks(t)
  /\ acked' = acked \cup (CASE call[t].cancelled -> {}
                             [] Statement(t) = "insert" -> {call[t].item}
                             [] Statement(t) = "touch" -> {call[t].ticket}
                             [] OTHER -> {})
  /\ call' = [call EXCEPT ![t] = Idle]

\* A cleanup goes on with its next statement.
Continue(t, kind) ==
  /\ GiveBack(t)
  /\ call' = [call EXCEPT ![t].pc = "ready", ![t].kind = kind, ![t].conn = NoConn, ![t].attempt = 0]
  /\ UNCHANGED <<guard, acked>>

\* _with_lock_retry.  Broken: the attempts are not counted.
BrokenRetryOrRaise(t) ==
  /\ GiveBack(t)
  /\ call' = [call EXCEPT ![t].pc = "ready", ![t].conn = NoConn]
  /\ UNCHANGED <<guard, acked>>

RetryOrRaise(t) ==
  \/ /\ call[t].attempt < Retries
     /\ GiveBack(t)
     /\ call' = [call EXCEPT ![t].pc = "ready", ![t].conn = NoConn, ![t].attempt = @ + 1]
     /\ UNCHANGED <<guard, acked>>
  \/ call[t].attempt = Retries /\ Raise(t)

-----------------------------------------------------------------------------
(* execute: one statement and its commit.                                   *)

Effect(c, state) ==
  CASE c.kind = "touch" -> [state EXCEPT !.rows = @ \cup {c.ticket}]
    [] c.kind = "archive" -> [state EXCEPT !.archive = @ \cup (Old \cap state.entries)]
    [] c.kind = "delete" -> [state EXCEPT !.entries = @ \ Old]

Executes(t) == At(t, "working") /\ Statement(t) \in {"touch", "archive", "delete"}

Execute(t) ==
  /\ Executes(t) /\ ~Refused(Using(t))
  /\ Stage(Using(t), Effect(call[t], Base(Using(t))))
  /\ call' = [call EXCEPT ![t].pc = "executed"]
  /\ UNCHANGED <<memory, acked, late, counters>>

\* A unique index or a trigger refuses the row: the transaction stays open.
Conflict(t) ==
  /\ Executes(t) /\ Statement(t) = "touch" /\ ~Refused(Using(t))
  /\ conflicts < MaxConflicts /\ conflicts' = conflicts + 1
  /\ Stage(Using(t), Base(Using(t)))
  /\ Raise(t)
  /\ UNCHANGED <<late, calls, cleanups, faults, crashes>>

\* SQLite answers that the database is locked.
LockedStatement(t) ==
  /\ Executes(t) /\ Refused(Using(t))
  /\ LeaveBegun(Using(t))
  /\ RetryOrRaise(t)
  /\ UNCHANGED <<late, counters>>

\* A retention on v has archived and not deleted yet, and nothing keeps an
\* insert of t apart from it: it runs in another process, or it was cancelled
\* and its statement goes on without the write lock.
Beside(t, v) == /\ Statement(v) \in {"count", "delete"}
                /\ Home[v] # Home[t] \/ call[v].cancelled

\* An old entry is logged too late to be archived, or in time.
MarksLate(t) ==
  late' = IF Statement(t) # "insert" THEN late
          ELSE IF \E v \in Thread : Beside(t, v) THEN late \cup (Old \cap {call[t].item})
          ELSE late \ {call[t].item}

Committed(t) ==
  /\ At(t, "executed")
  /\ Commit(Using(t)) /\ MarksLate(t)
  /\ IF Statement(t) = "archive" /\ ~call[t].cancelled THEN Continue(t, "count") ELSE Return(t)
  /\ UNCHANGED counters

\* fetchone, fetchall: a read in a transaction that was left begun pins its snapshot.
Fetch(t) ==
  /\ At(t, "working") /\ ~Writes(Statement(t))
  /\ tx' = [tx EXCEPT ![Using(t)] = IF @ = "begun" THEN "read" ELSE @]
  /\ IF Statement(t) = "count" /\ ~call[t].cancelled THEN Continue(t, "delete") ELSE Return(t)
  /\ UNCHANGED <<db, view, late, counters>>

-----------------------------------------------------------------------------
(* _run_transaction, for insert_entry: BEGIN IMMEDIATE, the entry, its      *)
(* metrics, COMMIT; any error rolls back.                                   *)

Inserts(t) == At(t, "working") /\ Statement(t) = "insert"

\* INSERT OR IGNORE.  Broken: the metrics count an ignored row too.
BrokenStored(t) == "stored"
Stored(t) == IF call[t].item \in db.entries THEN "executed" ELSE "stored"

Insert(t) ==
  /\ Inserts(t) /\ tx[Using(t)] = "none" /\ LockFree(Using(t))
  /\ Stage(Using(t), [db EXCEPT !.entries = @ \cup {call[t].item}])
  /\ call' = [call EXCEPT ![t].pc = Stored(t)]
  /\ UNCHANGED <<memory, acked, late, counters>>

LockedTransaction(t) ==
  /\ Inserts(t) /\ tx[Using(t)] = "none" /\ ~LockFree(Using(t))
  /\ RetryOrRaise(t)
  /\ UNCHANGED <<db, tx, view, late, counters>>

\* The connection came with an open transaction: BEGIN fails, the rollback ends it.
Nested(t) ==
  /\ Inserts(t) /\ tx[Using(t)] # "none"
  /\ Rollback(Using(t)) /\ Raise(t)
  /\ UNCHANGED <<late, counters>>

CountEntry(t) ==
  /\ At(t, "stored")
  /\ Stage(Using(t), [view[Using(t)] EXCEPT !.total = @ + 1])
  /\ call' = [call EXCEPT ![t].pc = "executed"]
  /\ UNCHANGED <<memory, acked, late, counters>>

CountFails(t) ==
  /\ At(t, "stored")
  /\ faults < MaxFaults /\ faults' = faults + 1
  /\ Rollback(Using(t)) /\ Raise(t)
  /\ UNCHANGED <<late, calls, cleanups, conflicts, crashes>>

-----------------------------------------------------------------------------
(* The caller is cancelled; the statement runs on in its worker thread.     *)
(* execute gives the write lock up at once, _run_transaction keeps it until *)
(* the worker has ended.  A cancelled retention starts no further statement.*)

\* Broken: the transaction is not awaited either.
BrokenDrains(t) == FALSE
Drains(t) == Statement(t) = "insert"

Cancel(t) ==
  /\ t \in Cancelled
  /\ ~At(t, "idle") /\ Statement(t) # "read" /\ ~call[t].cancelled
  /\ call' = [call EXCEPT ![t].cancelled = TRUE]
  /\ IF Drains(t) THEN UNCHANGED guard ELSE Unlocks(t)
  /\ UNCHANGED <<db, tx, view, opened, pool, gate, acked, late, counters>>

\* A process ends: SQLite rolls its transactions back.
Crash(p) ==
  /\ crashes < MaxCrashes /\ crashes' = crashes + 1
  /\ tx' = [c \in Conn |-> IF c[1] = p THEN "none" ELSE tx[c]]
  /\ view' = [c \in Conn |-> IF c[1] = p THEN Empty ELSE view[c]]
  /\ opened' = [opened EXCEPT ![p] = 0]
  /\ pool' = [pool EXCEPT ![p] = <<>>]
  /\ gate' = [gate EXCEPT ![p] = NoThread]
  /\ guard' = [guard EXCEPT ![p] = NoThread]
  /\ call' = [t \in Thread |-> IF Home[t] = p THEN Idle ELSE call[t]]
  /\ UNCHANGED <<db, acked, late, calls, cleanups, conflicts, faults>>

Begins(t) == BeginInsert(t) \/ BeginTouch(t) \/ BeginCleanup(t) \/ BeginRead(t)

Works(t) == \/ Connect(t)
            \/ Execute(t) \/ LockedStatement(t) \/ Committed(t) \/ Fetch(t)
            \/ Insert(t) \/ LockedTransaction(t) \/ Nested(t) \/ CountEntry(t)

Fails(t) == Conflict(t) \/ CountFails(t) \/ Cancel(t)

Next == \/ \E t \in Thread : Begins(t) \/ Works(t) \/ Fails(t)
        \/ \E p \in Process : Crash(p)

Spec == Init /\ [][Next]_vars

\* A worker thread that can run is scheduled.
FairSpec == Spec /\ \A t \in Thread : WF_vars(Works(t))

-----------------------------------------------------------------------------
(* Properties.                                                              *)

\* The rows of entries and the metrics implement the ledger: an entry and
\* its count are one step, an ignored duplicate is not counted, and what a
\* failing insert staged is never committed by a later call on its connection.
Ledger == INSTANCE EntryLedger WITH entries <- db.entries, total <- db.total
KeepsLedger == Ledger!Spec

\* What a call that returned has written is committed, whichever connection
\* and whatever open transaction it met there, and survives a crash or is
\* archived, late entries excepted.
AckedStored == /\ acked \cap Ticket \subseteq db.rows
               /\ acked \cap Entry \subseteq db.entries \cup db.archive \cup late

\* The only entries retention deletes without having archived them are old
\* ones that another process, or a call beside a cancelled retention, logged
\* between its two commits; an insert the write lock orders is never lost,
\* whoever cancels it.
PurgesArchived == [][\A e \in db.entries \ db'.entries : e \in db'.archive \cup late]_vars

\* A connection nobody uses holds no change that a later call would commit.
LeftoversEmpty == \A p \in Process : \A i \in DOMAIN pool[p] :
                    tx[pool[p][i]] = "write" => view[pool[p][i]] = db

\* Every call ends, whatever lock it meets.
CallsEnd == \A t \in Thread : ~At(t, "idle") ~> At(t, "idle")
=============================================================================

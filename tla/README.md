# Scribe MCP: a TLA+ model

Scribe MCP is a Python server (`src/src/scribe_mcp/`) that gives coding agents an
audit trail: append-only progress logs, managed documents, sessions bound to
projects, cases, and a SQLite (or Postgres) store beside the files. Several server
processes, each with an asyncio loop and worker threads, share the same files and
the same database. What makes it hard to test is there: file locks, a journal
that is replayed beside live writers, pooled connections with transactions left
open, leases and fences, blocking locks on a bounded executor, whole rows that are
read, kept over an await and written back.

Paths below are relative to `src/src/scribe_mcp/`.

## Inventory

| Component | State | Operations | Interacts with | What makes it correct |
|---|---|---|---|---|
| Journalled append (`utils/files.py`: `file_lock`, `WriteAheadLog`, `append_line`; startup task in `server.py`) | the `.journal` file, the log, a per-process cache of journal validations, a pending entry per call | write_entry, the line, commit_entry, read_uncommitted, replay_uncommitted | every appending tool; rotation; other processes through sibling `.lock` files | an entry is committed once, only when its line is in the log; an acknowledged line is in the log; the cache decides as a scan would; what is uncommitted at a start beside an existing log is replayed |
| Log rotation (`utils/files.py: rotate_file, preflight_backup`, `tools/rotate_log.py`) | the log, its archives, backups, the `.new` file | backup, rename to the archive, install the new log, write its header, roll back | the append above, which shares the log's lock | no acknowledged line is in none of log and archives; a failed rotation leaves the log as it was |
| Connection pool (`storage/pool.py`) | idle connections, active count, closed flag, threads waiting on a condition | acquire, release, close_all | every statement of the SQLite store | never more than max_size connections; each in one place; a waiter is woken when it could be served |
| SQLite statements (`storage/sqlite/internals.py`, `entries.py`) | the database, the open transaction and snapshot of each pooled connection, a write gate and a write lock per process | execute, execute_many, retry on a locked database, insert_entry, cleanup_old_entries | pool; all storage modules | an entry and its count are one step; what a failed statement staged is never committed by a later call; a returned write is committed; retention deletes what it archived |
| Apply previews (`doc_management/apply_preview.py`, `storage/sqlite/apply_preview_receipts.py`) | one receipt row per preview: state, fence, lease, expiry | issue, claim, execute, finalize, clean up | document manager; registry | a retained intent is executed at most once, and only on the document as previewed |
| Document mutations (`doc_management/manager.py`) | managed documents, a lock file each, the process's executor and its jobs | lock all targets in order, read, compare, back up, write, observe, verify, undo | rehome, barrier, apply previews, case tools | no lost update; a failure is undone; a conditional change meets the text it expects; no deadlock |
| Write barrier (`shared/write_barrier.py`, `tools/write_barrier.py`) | an O_EXCL marker file with owner and operation | acquire, release, check | every mutating tool | documents keep still while it is up |
| Agent sessions (`state/agent_manager.py`, `shared/execution_context.py`, `shared/tool_runtime.py`, `storage/sqlite/sessions.py`) | session rows, a versioned row per agent, leases and routes in memory | resolve a call's session, set project, heartbeat, end, clean up | state manager; tools | nobody works on a project it did not ask for; a caller keeps its session; an ended one leads nowhere |
| Tool state (`state/manager.py`, `tools/set_project.py`) | the project of a session in caches of the process | load, record activity, set current project | sessions | a cache never gives one caller the project of another |
| Cases (`tools/sentinel_tools.py`, `case_lifecycle.py`, `storage/sqlite/cases.py`) | the counter file with its O_EXCL lock file, the reports, the case registry, log entries | open_bug, open_security, link_fix, reopen_case, edits of a report | log, document manager, store | an identifier is given out once; the log explains every row |
| Rotation state (`utils/rotation_state.py`, `audit.py`, `integrity.py`) | a JSON file of sequence numbers and hash chains | read the next number, record the rotation | rotate_log | sequence numbers are unique and each hash chain is a chain |
| Rehome transaction (`doc_management/rehome_transaction.py`) | source and target files, index rows, journal of the move | classify, execute, recover | document manager | a crash anywhere leaves a state that recovery recognises |
| Object store (`object_store/hybrid.py`) | a local copy and a remote copy of each object | put, get, delete, list | document tools | the copies converge; a deleted object stays deleted |
| Bridges, plugins, sync, reminders, templates, access policy, transports, formatters, CLI, Postgres, background receipts | see PROJECT.json | | | |

How they meet: a tool call is resolved to a session (`SessionBinding`), which gives
it a project; it appends to that project's log (`ScribeWal`, which `LogRotation`
renames under it), edits documents (`DocumentMutations`, through a receipt in
`ApplyReceipt` when it was previewed) and writes rows (`SqliteStore` over
`SqlitePool`). A case tool (`CaseRegistry`) does all three in sequence and holds
nothing over the whole. Each module has what its neighbours promise as one step,
with their failures: a storage statement in `ApplyReceipt`, `SessionBinding` and
`CaseRegistry` is atomic because `SqliteStore` says so (`KeepsLedger`,
`AckedStored`), an edit of a report in `CaseRegistry` because `DocumentMutations`
does (`KeepsAcked`, `FailedUndone`).

## Plan

Built, in this order:

1. `AuditTrail`, `ScribeWal`: the promise of the journalled append, and the append
   itself with its cache, processes, crashes, failing writes and replays.
2. `RotatedLog`, `LogRotation`: rotation beside appends, with its rollback and header write.
3. `ConnectionSlots`, `SqlitePool`: the pool under failing creates, invalid connections and close.
4. `RetainedIntent`, `ApplyReceipt`: receipts with leases and fences.
5. `SessionBinding`: sessions, leases, the versioned agent row and the caches of the tool state.
6. `EntryLedger`, `SqliteStore`: transactions that outlive the call that began them.
7. `DocumentMutations`: locks, executor, cancellation, rollback and the write barrier.
8. `CaseRegistry`: the counter's lock file and rows written back from old copies.

What would come next, most important first: `RehomeTransaction` (the states a move
that dies can leave, refining the two halves of `ApplyReceipt`), `RotationState`
(sequence numbers and hash chains kept by processes that overwrite each other's
file), `HybridStore` (local and remote copies with pushes in the background), owners
of the write barrier, and the section and range edits of the document manager
against reference definitions. Their hazards, for then:

- `utils/rotation_state.py:110`: each process saves its whole in-memory state through one temporary name, so a save of one undoes that of another, and `tools/rotate_log.py:974` reads the sequence number before the awaits after which it is recorded.
- `utils/rotation_state.py:86`: a state file that does not parse is replaced by a fresh state: the sequence starts again at 1 and the hash chain loses its root.
- `tools/rotate_log.py:1080`: the fallback's archive name is the suffix only, so a second fallback overwrites the first archive.
- `server.py:938`: one unreadable journal raises out of the fallback scan: the journals after it are not replayed at this start.
- `tools/append_entry.py:653`: a failed append is retried as a new append: when the failure came after the first intent, a later replay writes that line a second time.
- `storage/sqlite/apply_preview_receipts.py:264`: a receipt left in applying is never deleted.
- `doc_management/manager.py:306`: a document that does not resolve is locked by its name, and by its path once it exists: a create and a later edit hold different locks on one file.
- `shared/write_barrier.py:144`: the marker is created empty and filled afterwards: a reader or a crash in between sees a malformed barrier that nobody may release.
- `doc_management/rehome_transaction.py:374`: a move dies between its files, its registries and its indexes.
- `object_store/__init__.py:125`: each save starts a push of its own: two pushes of one file may reach the remote store in the other order.

## Modules

| Module | What it is | Source |
|---|---|---|
| `AuditTrail` | what a journalled append promises | |
| `ScribeWal` | the journalled append, the validation cache, the replay at a start | `utils/files.py` 200-625, 930-1070; `server.py` 840-950 |
| `RotatedLog` | what a rotation promises | |
| `LogRotation` | rotation, rollback and the fallback of `rotate_log` beside appends | `utils/files.py` 1075-1230; `tools/rotate_log.py` 970-1110 |
| `ConnectionSlots` | what a bounded pool promises | |
| `SqlitePool` | the connection pool | `storage/pool.py` |
| `EntryLedger` | what entries and their counts promise | |
| `SqliteStore` | statements, transactions, retries, insert_entry, cleanup_old_entries | `storage/sqlite/internals.py`, `storage/sqlite/entries.py` |
| `RetainedIntent` | what a receipt promises | |
| `ApplyReceipt` | issue, claim, execution and verdict of an apply preview | `doc_management/apply_preview.py`; `storage/sqlite/apply_preview_receipts.py` |
| `SerialEdits` | what changes of managed documents promise | |
| `DocumentMutations` | one managed change from its locks to its rollback | `doc_management/manager.py`, `utils/files.py: atomic_write`, `shared/write_barrier.py` |
| `SessionBinding` | session, lease, agent row and project of tool calls | `shared/tool_runtime.py`, `shared/execution_context.py`, `state/agent_manager.py`, `state/manager.py`, `storage/sqlite/sessions.py`, `tools/set_project.py` |
| `CaseRegistry` | case identifiers, the case tools and the registry's refresh | `tools/sentinel_tools.py`, `doc_management/special_create.py`, `doc_management/runtime.py`, `doc_management/utils.py`, `case_lifecycle.py`, `storage/sqlite/cases.py` |
| `*_proofs` | the theorems of the module of that name | |
| `MC*` | instances for TLC: functions as values of constants, model values | |

Definitions called `Broken...` are not part of any specification. Each is a
definition of the module as a plausible mistake in the code would have it, and
stands before the definition it is a broken form of; `PROJECT.json` names the
property that each one violates.

Every module bounds what would be unbounded (crashes, failing steps, calls,
edits) with a constant named `Max...` in the guard of the action. The theorems
hold for every value of these bounds.

### Journalled append: `ScribeWal`

`append_line` journals an intent, appends the line and journals a commit marker
(`_write_line_with_wal`), each in its own section under the lock of the file it
writes. A section is one action, and its failing form is another: `IntentFast` /
`IntentScan` / `IntentRepeated` / `IntentRefused` / `IntentFails` are the ways
out of `write_entry`; `ApplyLine` / `ApplyFails` the line; `CommitFast` /
`CommitScan` / `CommitFound` / `CommitRefused` / `CommitFails` /
`CommitTimesOut` the ways out of `commit_entry`; `StartReplay`, `ReplayApply`,
`ReplayCommit`, `ReplayFails` are `replay_uncommitted`, entry by entry. `StartReplay`
has the guard of both scans of `server.py` (905, 936): a journal whose log does not
exist is skipped, and the pass over it is over.

| Variable | Code |
|---|---|
| `journal`, `size`, `health` | the `.journal` file: its rows, its stat signature, whether it ends in a newline and parses |
| `proof` | the entry for this journal in the process's `_validated_journals` |
| `pending` | `_pending_entry` of a call's `WriteAheadLog` |
| `present`, `logged`, `copies`, `ragged` | the log: whether it exists, lines written by their own call, copies written by replays, a torn last line |
| `pc`, `cur`, `acked`, `started` | the calls of `append_line` |
| `rpc`, `todo`, `passes` | the startup replay of each process |

Identifiers are numbers in the order of the code's strings. One call has one
identifier (`Stamp`) and one payload digest (`DigestOf`); two calls may share
an identifier with the same payload (the same line in the same microsecond) or,
as an identifier holds eight digits of the digest, with another. Calls run in any order, so the
clock may step back between them. A failing write leaves nothing, all of its
bytes or, with `Tears`, a part.

### Log rotation: `LogRotation`

One action is what a coroutine does between two awaits, or what it hands to a
thread. `Start` and `Refuse` are the checks of `rotate_file`: a missing or empty log
is an `AtomicFileError` like any other, which an append ignores and `rotate_log`
heals with its fallback. `BackUp` is `preflight_backup` (a copy without the lock),
`WriteTemp` the `.new` file, `TakeLock` / `Spin` / `TimesOut` the lock, `Archive` the rename, `Install` the replace, `Rollback` the
handler, `Fallback` and `WriteHeader` what `rotate_log` does after a rotation
that failed. `UsesTool` are the rotations that `rotate_log` asked for; the others are
those of an append. Each step has a failing form. `OpenLog` and `WriteLine` are the append,
whose open file may be renamed away under it by the two steps that do not take
the lock. `unlocked` remembers that the rollback or the fallback has changed the log
without its lock. The important part of the scheduling is `OnLoop`: `file_lock` waits on
the event loop, so while one coroutine waits no other of the process runs, its
holder included, and only the deadline ends that wait.

A file is the set of its lines. Archives made under the lock get a fresh name
and are kept as one union; the fallback's name comes from the suffix (`NameOf`)
and is overwritten by the next one of that name. A thread call whose loop is
blocked may complete, but the coroutine goes on only when the loop is free. The
pruning of backups beyond the third is left out: a rotation uses its own only.

### Connection pool: `SqlitePool`

`acquire`, `release` and `close_all` are critical sections of one lock.
`acquire` leaves the lock to wait (`pc = "waiting"`, `"woken"` after a notify)
and to open a connection (`"creating"`, its slot already counted). A wait whose time is up
is `"expired"` until its thread has the lock again; until then it is still in the
condition's queue, so a notify may go to it (`"missed"`, counted by `missed`), and
`TimesOut` raises all the same. `_pool`,
`_active_count` and `_closed` are `pool`, `active` and `closed`. Which pooled
connection is taken and which waiter is woken is left open (the code uses a
deque and a queue), and so is how many of the invalid connections are dropped
on the way. `min_size` is stored and logged by the code and decides nothing.

### SQLite statements: `SqliteStore`

A call takes `_write_lock` (`guard`), then for each statement or transaction a
worker thread, `_write_gate` (`gate`) and a connection of the pool, whose order is
kept (a deque: the last one given back is the next one used). A connection is
`"none"` (no transaction), `"begun"`, `"read"` (it has a snapshot), `"stale"`
(the database went on since) or `"write"` (it holds the file's write lock; `view`
is what it would commit). `Execute` and `Commit` are two actions, and between them
a call may fail: the connection then goes back to the pool as it is, with what it
staged. The next statement on it is where the hazard bites; what makes it
harmless is that every transaction of the module begins with `BEGIN` or its first
statement fails, which the model finds by itself. `RetryOrRaise` is the retry loop
on a locked database. A caller in `Cancelled` may be cancelled at any step: `execute`
gives `_write_lock` up at once while its thread goes on, `_run_transaction` keeps it.

Entries, their count in the metrics, the archive and the rows all other calls
write are the database. `cleanup_old_entries` is its three transactions, which
`_write_lock` keeps apart from the other calls of its process only. `late` has the old
entries that were logged between its archive and its delete past that lock: by
another process, or by the same one when the retention was cancelled and its
statement runs on without the lock (`Beside`). Any process may log an old entry. A
process that dies takes its connections with it, uncommitted work included.

### Apply previews: `ApplyReceipt`

A receipt is a row; every SQL statement on it is one action (`Issue`, `Claim`,
`Decide` within the `Finalize...` actions, `Cleanup`). A call of `apply` reads
the row, claims it (the fence goes up, a 60 s lease starts), takes the mutation
lock, looks at the document (`Recheck`), executes, compares (`Observe`) and
records the verdict if the fence is still its own. The document is one of
`"before"` (as previewed), `"partial"` (a rehome half done), `"after"`, `"other"`;
`by` is the receipt whose change it has. The lease and the expiry end at any
time: the code compares them with clocks of several processes. All receipts were
issued for one document and one content of it. `Edit` is any other writer; it
holds the same lock. A call in `Cancelled` may be cancelled at any step (`Cancel`):
`CancelledError` is no `Exception`, so nothing is recorded and the lock is dropped,
while the thread it waited for goes on. What that thread still has to do is `left`:
the change, the second half of a rehome, or the verdict. `ChangesLate`, `DecidesLate`
and `EndsLate` are its end, whoever has the lock by then; `lateChanges` and
`lateVerdict` count what was done so. Previews that change nothing, and the project registry and
index rows a change updates beside the document, are not distinguished.

### Document mutations: `DocumentMutations`

`apply_doc_change` is a coroutine whose every blocking step is a job of the
process's default executor: `phase` is the step it awaits, `job` whether that is
`"queued"`, `"running"` in one of `Workers` threads or, for a write, `"filled"`
(the temporary file is complete, the replacement is not made). `Begin` opens the
first lock file, `Start` hands a job to a thread, `Grant` is a `flock` that
succeeds, in the order of the paths; a thread keeps waiting for a lock that is
taken. `Read`, `Backup`, `Fill`, `Install`, `Observe`, `Verify`, `Unlock` are the
steps, with their failures and the rollback (`Recover`). `Cancel` ends a call at
once but a running job stays as a `stray`: it still takes its lock, or replaces the
document. A text is the set of the changes in it. `barrier` is the marker file,
checked once in `Read`. The check lets the operation through whose label the barrier
has (`shared/write_barrier.py:106`); the barrier here is another operation's, as that
of a rehome or a maintenance call is, and stops the calls of this module.

Merged: creating and opening a lock file with waiting for it; `LOCK_UN` with the
close; the parent directory with the read; the bytes of the temporary file into one
`Fill`. An absent and an empty document are one text, for which the code has no
rollback. A call that locks several documents (rehome, an accepted preview) changes
one of them here. The executor starts queued jobs in any order (the code's is first
come, first served), so the model has more behaviours. Not in it: cancelling a call
in its unlock, the second cancellation anyio delivers to a shielded wait, and the
owners of the barrier, its file's creation in two steps and its release by another
owner.

### Sessions and projects: `SessionBinding`

One action is what a coroutine does between two awaits. A tool call (`LookUp` to
`Finish`) looks for its session in the router's index, in the database, or creates
one, in an order in which two calls of one caller may `Collide`; `Start` to `Cache`
are `set_project`: a session row, a lease, its validation, the versioned write of
the agent's row (`Point`), the session's binding and the cache. `Reuse` is the branch
that finds the project set already: the cache is compared, the lease and the rows it
reads next may or may not agree. `EndBegin` to
`EndPurge` are the teardown, with the failures of its statements: `EndAborts` for what
reaches the caller, `EndUnbindFails` and `EndRowFails` for what is swallowed, `CleanBegin`, `CleanExpire`, `CleanDetach` the periodic
cleanup, `Restart` empties the memory. A transport identity is the connection
folded with the actor (`Scoped`). The history variables say who a session was made
for (`born`), what each caller asked for (`asked`), which session it was given
(`given`), what was torn down (`torn`), what was in use at that time (`raced`) and
which statements of the teardown failed (`kept`).

The successful branch of `Collide` cannot be taken by one process alone: it is the
code's answer to a second one. The identity lookup of an agent session, the audit
events, session modes and the legacy pointer are left out.

### Cases: `CaseRegistry`

A call is a tool call: `open_bug` / `open_security` (`"open"`), `link_fix`
(`"link"`), `reopen_case` (`"reopen"`) or an edit of a report by `manage_docs`
(`"edit"`). `_next_case_id_for_project` is `TakeLock` / `TimesOut`, `Count`,
`Save`, `Release`; it awaits nothing, so from the first test of the lock file to
its removal the call keeps its event loop (`OnLoop`). The rest of `_open_case` is
`Register`, `Create`, `Enlist` (the registration within the creation) and `Claim`,
`Own` (the one after it). `Load`, `AppendEntry`, `Record`, `Verify`, `Finish` are the
two tools that change a row, `Mutate`, `Refetch`, `Refresh` an edit with the
registry's refresh after it, which `link_fix` runs twice. The refresh reads the report
first (`Extract`, kept in `found`), then awaits the row (`Refetch`) and writes both
(`Refresh`): a status read off the report may be old when it is written. `seen` is the row a call
read and later writes back. A row has a status, the document type (`"bug"` as the
tools write it, `"bug_report"` as it is read off a report) and the fix link.

One repository on one day: the counter's file name has both. The completeness gate
for a merged fix is a refusal that may come. The report's `Status:` line is
`INVESTIGATING`, so a reopened case is `"investigating"`. Previews, sentinel mode, `list_open_cases`,
the answers and the entry in the project's docs are left out, and so is the
comparison of `updated_at` on an exact retry of `reopen_case`.

## Runs

| Run | Instance | What it shows |
|---|---|---|
| `wal_threads` | 2 processes, 2 threads of one of them, 3 calls of which two share an identifier, 1 crash, 1 failing section, 1 eviction | the cache tells the truth (`ProofsTrue`), no entry is committed twice (`CommittedOnce`), success means a durable line (`AckedDurable`), and `AuditTrail` is implemented (`KeepsAuditTrail`) |
| `wal_recovery` | 1 writing thread beside the replays of 2 processes, 3 calls of which two clash, 2 crashes, 1 failing section that may tear, no stat signatures, fair startup tasks | every entry uncommitted at a start beside an existing log is committed (`StartupReplays`), unless a section has failed |
| `rotation_shared` | 3 coroutines (a `rotate_log` call and a rotation for an append in one process, a rotation in another), 3 lines, 2 rotations, 1 failing step, 1 crash | no acknowledged line is lost (`LockedKept`) and lines move to archives once (`KeepsRotatedLog`) until a rollback or a fallback has changed the log without its lock; a loop that waits for itself gets on, rotations end (`RotationEnds`) |
| `rotation_fallback` | 1 call of `rotate_log`, 2 lines, nothing fails | **violated**: the fallback takes an append's empty log and its header truncates what was acknowledged meanwhile |
| `rotation_rollback` | 1 rotation for an append, 2 lines, 1 failing step | **violated**: the rollback loses lines acknowledged since the backup |
| `pool_shared` | 4 threads (one with a timeout), 2 slots, 3 connections, 5 calls, 1 failing creation, 1 invalid connection, a close | slots are lent at most once and none after the close (`KeepsSlots`), free ones are announced (`SlotsAnnounced`), waits end unless a creation fails or a notify goes to an expired wait (`WaitsEndUnlessUnannounced`) |
| `store_calls` | 2 calls of one process, one of which may be cancelled, and 1 of another, 2 entries of which one is old, 2 connections each, a retention, a constraint violation, a failing metrics update, a refused lock with 1 retry, 1 crash | an entry and its count are one step (`KeepsLedger`), a returned write is committed (`AckedStored`), leftovers hold nothing (`LeftoversEmpty`), what is purged is archived or late (`PurgesArchived`), calls end (`CallsEnd`) |
| `receipt_recovery` | 2 calls of which one may be cancelled, 2 receipts of which one is a rehome, 2 edits, crashes and failures at every step | one execution per time the document is as previewed, late changes apart (`ExecutedOnce`), true answers (`AnswersTrue`), final verdicts, applied on the previewed content until a cancelled call's thread works beside the lock (`KeepsIntent`), calls end (`CallsEnd`) |
| `document_calls` | 2 calls of one process and a conditional one of another, one document with a second lock for two of them, 2 workers, 1 cancellation, 1 fault, 1 crash, the barrier up once | no acknowledged change is lost (`KeepsAcked`), failures are undone (`FailedUndone`), a conditional change meets its text (`ConditionalFits`), changes come one after the other as in `SerialEdits` (`KeepsEdits`), the barrier settles (`BarrierQuiets`), nobody waits in a circle (`NoDeadlock`), calls end (`CallsEnd`) |
| `document_workers` | 3 calls of one process, 1 document, 2 workers, nothing fails | **violated**: the waiting calls take every worker and the holder gets none |
| `session_calls` | 2 calls at a time of 3 callers (2 agents on one connection, one of them on a second), 1 teardown, 1 fault (a lease that expires and is cleaned up, or a statement of the teardown that fails), 1 restart | projects are asked for (`AskedOnly`), sessions are kept (`KeepsSession`), a teardown takes its own only (`TeardownSpares`) and all of it but what its failed statements leave (`Revoked`) |
| `cases_calls` | any 3 of 6 calls of 2 processes (2 opens, a fix, a wontfix, a reopening, an edit that completes), an earlier case and a lost counter, 1 failing step, 1 crash | identifiers are unique (`UniqueIds`), the log explains the registry (`RowsExplained`), calls end (`CallsEnd`) |

The bounds are small because the interesting cases need few actors: a stale
proof needs two writers and one other write between a validation and its use, so
two threads or processes and three calls; a rotation is at risk from an append
that is in flight at each of its steps, from another rotation of its own loop and
from one of another process, so three lines, three coroutines and two rotations; a lost wake-up needs a waiter, a holder, a newcomer
that overtakes and a slot, and the fourth thread and second slot make one notify
serve the wrong one, or one whose time is up; a leftover needs a call that fails, one that meets its
connection, and a process that meets its lock or logs between its transactions; a lost claim needs the claimant and
its successor, with a second receipt for the same document; a lost update needs two
calls, and a third to stand in the way of a lock; a borrowed project needs two
agents on a connection and one agent on two; an old row needs a reader that
writes, a writer in between, and the open that made the row, of which one may be an
earlier case. The theorems cover the sizes beyond.

Fairness, where a run has it, is the scheduler's and nothing more:

- `ScribeWal`: a startup task that is not cancelled runs on (`Replay(p)`); writers are not fair.
- `LogRotation`: the append that holds the lock finishes; a coroutine whose loop is free is run, a thread call ends, and a wait ends at its 30 s deadline. A failing step is never assumed to be the one that is taken.
- `SqlitePool`: a woken thread runs, an open call returns, and a user releases what it uses: `_run_with_connection` does so in a `finally` clause. A wait that has expired gets the lock; that a wait expires is not assumed.
- `SqliteStore`: a worker thread that can run is scheduled; that a lock held by another process is refused is one of its steps (the busy timeout ends).
- `ApplyReceipt`: a call that has begun runs on, and a free lock goes to a call that waits. That calls begin, leases end, steps fail, or the thread of a cancelled call gets anywhere, is not assumed.
- `DocumentMutations`: threads are scheduled, the jobs of cancelled calls too, and a queued job is handed to a free thread.
- `CaseRegistry`: while some call has a step to take, one is taken; a call that polls the lock file sees its deadline pass.

Deadlock is not checked: every instance ends when its calls, rotations and budgets
are used up. That calls end is the liveness property of the run instead.

## Findings

1. `rotation_rollback`: the backup is copied before the lock is taken and put back
   after it is left (`utils/files.py:1164`): lines acknowledged in between are gone.
2. `rotation_fallback`: `rotate_log` takes up an `AtomicFileError` by renaming the log and
   writing a new header without the lock (`tools/rotate_log.py:1086`). That a log is empty
   is enough for it (`utils/files.py:1104`): an append has just created one. A line
   acknowledged between the rename and the header is truncated away, and nothing failed.
3. `document_workers`: a call that waits for a document's lock waits in a thread of
   the process's executor (`doc_management/manager.py:228`); when the waiting calls
   have them all, the call that holds the lock never gets one for its read. With as
   many workers as calls (`document_calls`) every call ends.

Met while modelling, and not checked by a run of their own:

- One torn journal row ends replays for good (`utils/files.py:335`), where the class
  comment says that uncommitted operations are replayed on startup. `StartupReplays`
  is therefore about behaviours in which no section failed.
- A journal whose log does not exist is skipped at every start (`server.py:905`, `:936`):
  the intent of a process that died before its first line created the log is not replayed
  before an append has created the log and a server starts again. `StartupReplays` is about starts beside an existing log.
- A log that ends in a part of a line is appended to as it is (`utils/files.py:991`):
  the next line is joined to the part, and its call returns success. A marker after a
  row without its newline is joined likewise (`:475`), and an acknowledged call loses it.
- The replay reads under the lock and writes after it (`server.py:845`), so a line
  whose call commits in between is in the log twice.
- A creation that fails gives its slot back without a notify (`storage/pool.py:273`),
  and a notify may go to a wait that has just expired, which raises without passing it
  on (`:295`): another thread may then wait for ever beside a free slot. Hence the two
  conditions in `WaitsEndUnlessUnannounced` and the two terms in `SlotsAnnounced`.
- The fence of a receipt is checked for the verdict, not for the execution
  (`doc_management/apply_preview.py:375`). The document is compared under the lock, so
  a call that lost its claim does not execute a second time; but the thread of a cancelled call makes its
  change after the lock was dropped (`:407`; `doc_management/manager.py:255`), beside
  another receipt that found the document still as it was, and both are executed.
  `ExecutedOnce` counts such a change on top, and `KeepsIntent` promises nothing of the
  document's content after one. A verdict recorded so (`lateVerdict`) may call
  applied what somebody has changed again.
- A statement that fails leaves its connection in the pool with its transaction open
  (`storage/sqlite/internals.py:284`, the handler of `:93` is not on this path).
  Nothing wrong is ever committed from it, but it may hold the write lock, and the
  next writer of the same process then gets "database is locked". Confirmed by
  running the program.
- `cleanup_old_entries` deletes what an earlier transaction has archived
  (`storage/sqlite/entries.py:595`): an old entry that another process logs in between is
  deleted without an archived copy, and so is one of the same process when the retention
  was cancelled and its statement goes on without `_write_lock`. `PurgesArchived` and
  `AckedStored` except these entries (`late`) and no others.
- A write whose call is cancelled goes on in its thread after the lock was released
  (`doc_management/manager.py:1153`) and overwrites what the next holder reported as
  done. `KeepsAcked`, `FailedUndone` and `ConditionalFits` are about documents without
  such a write (`torn`). Confirmed by running the program.
- The statements of a teardown that fail are swallowed (`state/agent_manager.py:325`,
  `:344`, `:371`): the session ends and its binding or the agent's row still leads to it.
  `Revoked` excepts what such a statement left (`kept`).
- After a cleanup of its lease and a restart a caller is refused with a
  ConflictError (`storage/sqlite/sessions.py:201`, `shared/execution_context.py:625`):
  the session is still its own, but ended. Confirmed by running the program.
- After any managed edit of its report a case's row has document type `bug_report`,
  and `reopen_case` wants `bug` (`tools/sentinel_tools.py:1093`): a case that
  `link_fix` closed, which edits the report, is refused. Confirmed by running the program.

## Proofs

Assumed are the named assumptions of each module: the types of the constants
(`ConstantsAssumption`, `CallAssumption`, `HomeAssumption`, `SizeAssumption`,
`WorkersAssumption`, `CallersAssumption`), that bounds are naturals
(`BoundsAssumption`), that the distinguished values are no members of the sets they
are to be told apart from (`NamesAssumption`, `NoneAssumption`), and that lock paths
can be sorted (`OrderAssumption`: a set of paths has a first and a last one). Nothing bounds the number of actors. Each proof
module names its inductive invariant first, has a lemma for each action with a step
for each conjunct it can disturb, and ends with the temporal theorems.

**ScribeWal.** `IInv` is the type invariant with four parts. `JournalInv` says
what the rows satisfy (an identifier has one intent and one marker at
most, the marker after the intent). `CacheInv` says that a proof whose
size is the file's has the highest identifiers of the file; for it to be kept
when others write it has to say of *every* proof that its size is at most the
file's. `PendingInv` says of a pending entry that its intent is in the
journal, and uncommitted while nothing has been written since. `TodoInv` says the positions of a replay are intent
rows. `CommittedOnce` alone is not inductive: a fast commit is right only because
of what the cache and the pending entry say, and these only because sizes never
repeat. The consequences are `TypeCorrect`, `CommitsOnce`, `AlwaysReadable`,
`CacheIsTrue`, `PendingIsTrue`.

What the log holds is about behaviours in which files stay whole, and the hypotheses
are as weak as TLC's counterexamples allow. A torn line at the end of the log
(`ragged`) swallows the next line, whose call goes on and is acknowledged: no promise
survives it. While no append to the log tears (`[]LogWhole`), an acknowledged line is
in the log (`AckedIsLogged`) and so is the line of every committed entry
(`CommittedIsInLog`), whatever happens to the journal: `LinesInv` adds that a call or a
replay about to commit has its line in the log. While the journal can be read too
(`[]JournalWhole`), `IntentInv` (a call that goes on has its intent in the journal)
makes each action an action of `AuditTrail` or a stutter (`WholeFilesKeepThePromise`),
from which `WholeFilesAreDurable` follows. That hypothesis is needed as well: a commit
that follows a row without its newline is joined to it, and an acknowledged call
loses its marker, though not its line. With `~Tears` both hold
(`UntornIsWhole`), hence `ImplementsAuditTrail` and `AckedIsDurable`.

**LogRotation.** `TypeCorrect` is for every instance. Three places of the code
change the log without its lock: the rollback of `rotate_file`, and the rename and
the header write of `rotate_log`'s fallback (`OutsideLock`).
`LockedRotationsLoseNoLine` and `ImplementsRotatedLog` say that these are
the only ones that can lose a line: until one of them is taken no acknowledged line
is lost and lines move only to archives, however many coroutines of however many
processes rotate, fail and die, on missing and empty logs too, and with a `.new`
file they all share. The invariant
`LockInv` says who has the lock at which step (`HoldsLock`, an equivalence: a call
that archives holds it, and its holder is at such a step), that there is no log
between the rename and the replace, and that an append that holds the lock writes to
the log, never to a renamed file (`Appending`). `AckedKept` needs all of it: the line
of an append is acknowledged after the write, and is in the log then only if nobody
has renamed the log since it was opened. `NoLineLost` is a corollary for
`Quiet` instances, in which one coroutine rotates, for appends and not for `rotate_log`,
and no step fails: no rollback or fallback is reached (`QuietInv`). All three hypotheses
are needed: a `rotate_log` call reaches its fallback without a failing step and a
failing step leads to a rollback, which are two of the findings, and a second rotation
of a loop may wait for the lock of the first until its deadline, and then rolls back.

**SqlitePool.** `IInv` adds `Linked` (a thread has a connection exactly while it
uses one, and a closed pool is empty and not waited for) to the type invariant and
to `OnePlace`, `Counted` and `SlotsAnnounced`. `Counted` needs
`OnePlace`, for a release takes one thread out of the busy ones and puts one
connection into the pool, and `SlotsAnnounced` needs `Counted`: a notify that an expired wait takes is one more term, and
each failed creation another. `ImplementsSlots`
(`KeepsSlots`) follows with `holders` as the busy threads.

**SqliteStore.** `IInv` is the type invariant with: `Placed` (a connection is with
one thread of its process, or once in its pool), `OneWriter` (the database file has
one writer), `Staged` (what the connection of a call in the middle of a transaction
would commit, relative to what is committed), `Clean` (an open transaction that no
statement is in the middle of would change nothing). `LeftoversAreEmpty` is `Clean`
for the connections in the pools, and not inductive without the others: a connection
comes back clean because what its call staged was refused, and a leftover stays clean
because while it holds the write lock nobody else commits. `ImplementsLedger`
(`KeepsLedger`) then reads each commit as a step of `EntryLedger`.
`PurgesOnlyArchived` needs two parts more. `Guarded` says that a
write that was not cancelled, or drains, has the write lock of its process, and `Archived` that while a
retention counts or deletes every old entry is archived or `late`: an insert in between either
runs beside it, and then its entry is late, or would have to hold that lock too.
`AckedIsStored` follows, under `Entry \cap Ticket = {}`, which keeps the two kinds of
acknowledgement apart.

**DocumentMutations.** `LockInv` says who holds which lock: a call in its critical
section has all its targets, a call that waits has all it opened but one, and a job
whose call has ended (`stray`) goes on for a call that is unlocking or done.
`TypeCorrect` is from it. `TextInv` says, while no write outlived its call
(`torn = {}`), what a call knows of the document: what it read is still there until
its own replacement, its temporary file is that text with its change, and the change
of a call that has not written, or was undone, is in no text. `AckedChangesStay`,
`FailuresAreUndone` and `ConditionalChangesFit` are from the two together; the first
is not inductive without them, as a write is right only if the text is the one
read. `BarrierKeepsQuiet` needs `LockInv` only.

`EditsAreSerial` (`KeepsEdits`) is the refinement: while no write outlived its call,
every step is a step of `SerialEdits` or changes neither documents nor answers, so a
change is made when all others in the document have been answered for, and an answer
is final and true. `ImplementsSerialEdits` is the same for a behaviour in which no
write outlives its call at all. `EditInv` adds to `TextInv` what that takes: a text,
read or temporary, holds the changes of calls for its own document (`Confined`), and a
call that lets go of its locks has been answered (`Answered`), so that the only
change without an answer is the lock holder's.

`DeadlockFree` (`NoDeadlock`) is about waiting. A state is not stuck when some call or
leftover job can go on, which is stated as what it waits for (a free lock, a free
thread, or nothing) because the provers do not know `ENABLED`. The argument is the usual one for ordered locks:
take the highest lock that is held; whoever has it waits for a higher one, which is
free, or for no lock at all. `OrderInv` is what makes it true at every state: a call
has the locks before the one it waits for (`Ordered`), a cancelled call whose thread
still waits is no different (`StrayOrdered`), and a call leaves one job at most. The
executor adds the second half: a holder may wait for a thread, and threads may be
taken by calls that wait for its lock. While a process serves no more calls than it
has threads, a call with a queued job finds one that is free (`FreeThread`, a
comparison of cardinalities, for which `FewInv` says that there are finitely many
active calls). `document_workers` is the case that the theorem excludes.

**CaseRegistry.** `Known` says that every row of the registry, and every copy of a
row that a call has read and may write back (`seen`), is `Justified` by what was
registered, the reports, the log and the edits. These only grow (`Grows`), so a copy
that was justified when read is justified when it is written over a newer row, which
is why `RowsAreExplained` holds although updates can be lost. `Numbers` is for the
lock file: one call is in the section (`Sync`), the counter file is at least every
number given out, and what the holder has read of it is still true. `IdsAreUnique`
needs it and `Known`.

**SessionBinding.** `IInv` is the type invariant with: `SessionsOK` (a session has
the transport it was made for until it is ended, transports are not shared, and the
router's index names the session of a transport that is not ended), `ProjectsOK` (a
project bound to or cached for a session was asked for by its caller), `AgentsOK` (the
same for the agent's row and lease, whose sessions are of callers of that agent),
`CallsOK` (what a call has resolved and carries over its awaits), `TeardownsOK` (an
ending session was ended, and the version it cleared by is not beyond the row's).
`CallersChoose`, `SessionsKept` and `TeardownIsCareful` are from it. The parts take
the state as arguments and are shown monotone in `Later`, so that a step that only
makes a session or adds to `asked` keeps all calls' knowledge at once.
`RevokedIsGone` needs `GoneInv` too: what is already gone of a session at each step of
its teardown, provided no call held it (`raced`) and but for what a failed statement
left (`kept`).

**ApplyReceipt.** `IInv` is the type invariant with: `Locked` (the steps that
hold the lock are its holder's), `Underway` (a call on its way has a receipt and no
answer yet), `Leftover` (only a call that has ended leaves work to its thread),
`SeenTrue` (what a call has seen of the document still pays for its execution while it
has the lock, or a late change has come), `Spendable` (while the document is as previewed, one execution more is due).
`ExecutedOnce` is not inductive without `Spendable`, and that not without
`SeenTrue`; `AnswersTrue` needs that only an applying row gets a verdict.
`ImplementsIntent` maps `issued` and `applying` to an open verdict.

Proved although no run checks them are `AlwaysReadable`, `PendingIsTrue`,
`CommittedIsInLog`, `AckedIsLogged`, `ConnectionsInOnePlace` and `CountIsTrue`, which
are parts of the invariants above, and the types of `LogRotation` and
`DocumentMutations`. Only model-checked are the liveness properties (`StartupReplays`,
`RotationEnds`, `WaitsEndUnlessUnannounced`, `CallsEnd`), which are out of the
prover's reach, and the violations. Neither proved nor claimed is that no line
is lost once a rollback or the fallback has run.

## Not modelled

`PROJECT.json` lists each part with its reason. In short:

- Rotation state, the rehome transaction, the object store, owners of the write
  barrier and the section edits could be modelled as the parts above are. They come
  next in the plan, with the hazards listed there.
- Queries, reminders, formatting, templates, access decisions and transports keep no
  state across requests that these properties are about, or none another actor can
  meet halfway.
- Bridges and plugins run code that is not in the repository. The background receipts
  are an interface without an implementation here.
- Postgres and the remote store repeat operations of the SQLite store on another
  database, whose isolation would have to be assumed rather than read off this code.
- Scripts and migrations run once, alone, with the server stopped.

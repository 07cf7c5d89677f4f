------------------------------ MODULE ScribeWal ------------------------------
(***************************************************************************)
(* The journalled append of utils/files.py: _write_line_with_wal journals  *)
(* an intent, appends the line and journals a commit, each under the       *)
(* sibling lock of the file it writes; the startup task of every server    *)
(* process replays what it finds uncommitted while other threads and       *)
(* processes go on appending.                                              *)
(*                                                                         *)
(* A section guarded by file_lock is one action: no cooperating process    *)
(* sees its middle.  What can be seen of it is its failure, so every       *)
(* section also has a failing form with the outcomes the code can leave.   *)
(* The stat signature of the journal is its size, which grows by every     *)
(* write; an entry ID is a number, ordered as the code orders the strings  *)
(* (time stamp first, digest last).  An operation has one fixed ID, and    *)
(* operations run in any order: the clock may step back or repeat.         *)
(***************************************************************************)
EXTENDS Naturals, Sequences

CONSTANTS Proc,         \* server processes sharing the log
          Thread,       \* worker threads running append_line
          ProcOf,       \* the process of a thread
          Op,           \* the calls of append_line
          Id,           \* entry identifiers, as numbers above zero
          Stamp,        \* the identifier a call generates
          Digest,       \* payload digests
          DigestOf,     \* the digest of a call's payload
          Posix,        \* whether the stat signature is available
          ReplayPasses, \* how often one start of a server replays this log
          MaxCrashes,   \* bound on process crashes
          MaxFaults,    \* bound on sections that fail
          MaxEvictions, \* bound on validation cache evictions
          Tears,        \* whether a failing write may leave a part of its bytes
          NoProof,      \* no validation cached for the journal
          NoOp          \* a thread that runs no append

Proofs == [size : Nat, high : Nat, committedHigh : Nat]

ASSUME ConstantsAssumption ==
    /\ ProcOf \in [Thread -> Proc]
    /\ Id \subseteq Nat \ {0}
    /\ Stamp \in [Op -> Id]
    /\ DigestOf \in [Op -> Digest]
    /\ Posix \in BOOLEAN
    /\ Tears \in BOOLEAN
    /\ ReplayPasses \in Nat
    /\ NoProof \notin Proofs
    /\ NoOp \notin Op

ASSUME BoundsAssumption ==
    MaxCrashes \in Nat /\ MaxFaults \in Nat /\ MaxEvictions \in Nat

VARIABLES
    journal,   \* the rows of the .journal file, in order
    size,      \* its size: what the stat signature tells apart
    health,    \* "sound", "unterminated" (last newline missing), "corrupt"
    logged,    \* calls whose own copy of the line is a line of the log
    copies,    \* how many copies of an id's line replays have added
    ragged,    \* whether the log ends in a part of a line
    present,   \* whether the log file exists
    acked,     \* calls whose append_line returned success
    started,   \* calls that have been made
    pc,        \* where each thread is in _write_line_with_wal
    cur,       \* the call each thread runs
    pending,   \* the size _pending_entry remembers, 0 when it proves nothing
    proof,     \* per process: its _validated_journals entry for this journal
    rpc,       \* where the replay of each process is
    todo,      \* the journal positions it read as uncommitted, still to do
    passes,    \* the replays this start of the process still owes
    crashes, faults, evictions

fileVars == <<journal, size, health>>
lineVars == <<logged, copies, ragged, present>>
threadVars == <<pc, cur>>
replayVars == <<rpc, todo, passes>>
budgetVars == <<crashes, faults, evictions>>

vars == <<fileVars, lineVars, acked, started, threadVars, pending, proof,
          replayVars, budgetVars>>

-----------------------------------------------------------------------------
(* The journal and what a full scan of it (_read_journal_locked) computes.  *)

Intent(id, d) == [op |-> "append", id |-> id, digest |-> d]
Marker(id) == [op |-> "commit", id |-> id]

Row == [op : {"append"}, id : Id, digest : Digest] \cup [op : {"commit"}, id : Id]

IntentRows(j) == {i \in DOMAIN j : j[i].op = "append"}
MarkerRows(j) == {i \in DOMAIN j : j[i].op = "commit"}
Intended(j) == {j[i].id : i \in IntentRows(j)}
Committed(j) == {j[i].id : i \in MarkerRows(j)}

\* A scan refuses a commit of an entry it has not seen, and a second intent
\* of an entry that differs from the first or follows its commit.
Readable(j) ==
    /\ \A i \in MarkerRows(j) :
         \E k \in IntentRows(j) : k < i /\ j[k].id = j[i].id
    /\ \A i \in IntentRows(j) : \A k \in 1..(i - 1) :
         j[k].id = j[i].id => j[k] = j[i]

ScanSucceeds == health # "corrupt" /\ Readable(journal)

Bound(id, d) == \A i \in IntentRows(journal) :
                    journal[i].id = id => journal[i].digest = d

\* Broken: positions counted from 0.
BrokenUncommitted(j) == {i - 1 : i \in {k \in IntentRows(j) :
                                           j[k].id \notin Committed(j)}}

\* The entries read_uncommitted returns: each once, at its first row.
Uncommitted(j) == {i \in IntentRows(j) :
                      /\ j[i].id \notin Committed(j)
                      /\ \A k \in IntentRows(j) : j[k].id = j[i].id => i <= k}

Highest(S) == IF S = {} THEN 0 ELSE CHOOSE x \in S : \A y \in S : y <= x
Larger(a, b) == IF a < b THEN b ELSE a

-----------------------------------------------------------------------------
(* The validation cache.  A scan starts a new lineage: from then on no      *)
(* pending entry of another thread of the process matches it.               *)

\* Broken: the signature of the file is not compared.
BrokenValid(p) == proof[p] # NoProof

Valid(p) == proof[p] # NoProof /\ proof[p].size = size

Scanned == IF Posix /\ health = "sound"
           THEN [size |-> size, high |-> Highest(Intended(journal)),
                 committedHigh |-> Highest(Committed(journal))]
           ELSE NoProof

\* Broken: the marker of a smaller identifier lowers what is known.
BrokenGrown(base, intent, marker) ==
    IF base = NoProof THEN NoProof
    ELSE [size |-> size + 1, high |-> Larger(base.high, intent),
          committedHigh |-> marker]

Grown(base, intent, marker) ==
    IF base = NoProof THEN NoProof
    ELSE [size |-> size + 1, high |-> Larger(base.high, intent),
          committedHigh |-> Larger(base.committedHigh, marker)]

Remember(p, v) == proof' = [proof EXCEPT ![p] = v]

NewLineage(p) ==
    pending' = [t \in Thread |-> IF ProcOf[t] = p THEN 0 ELSE pending[t]]

-----------------------------------------------------------------------------
(* Writing.  A row appended behind a missing newline joins the row before   *)
(* it, and the scan refuses what results.                                   *)

WriteRow(row) ==
    /\ size' = size + 1
    /\ IF health = "unterminated"
       THEN health' = "corrupt" /\ journal' = journal
       ELSE health' = health /\ journal' = Append(journal, row)

TearRow(row) ==
    /\ Tears
    /\ size' = size + 1
    /\ \/ health' = "corrupt" /\ journal' = journal
       \/ /\ health = "sound"
          /\ health' = "unterminated"
          /\ journal' = Append(journal, row)

\* write, flush or fsync raises: nothing, all or some of the row is there.
FailRow(row) == \/ UNCHANGED fileVars
                \/ WriteRow(row)
                \/ TearRow(row)

WriteLine(o) == /\ ragged' = FALSE /\ present' = TRUE
                /\ logged' = IF ragged THEN logged ELSE logged \cup {o}
                /\ copies' = copies

WriteCopy(id) == /\ ragged' = FALSE /\ present' = TRUE
                 /\ copies' = IF ragged THEN copies
                              ELSE [copies EXCEPT ![id] = @ + 1]
                 /\ logged' = logged

TearLine == /\ Tears
            /\ ragged' = TRUE /\ present' = TRUE
            /\ UNCHANGED <<logged, copies>>

\* Nothing is written, but the file may have been opened, which creates it.
NoLine == /\ present' \in {present, TRUE}
          /\ UNCHANGED <<logged, copies, ragged>>

FailLine(written) == NoLine \/ written \/ TearLine

Fault == /\ faults < MaxFaults
         /\ faults' = faults + 1
         /\ UNCHANGED <<crashes, evictions>>

-----------------------------------------------------------------------------
(* WriteAheadLog.write_entry, called by an append that begins.              *)

Begins(t, o) == /\ pc[t] = "idle" /\ o \notin started
                /\ started' = started \cup {o}
                /\ UNCHANGED <<lineVars, acked, replayVars>>

Journalled(t, o) == /\ pc' = [pc EXCEPT ![t] = "apply"]
                    /\ cur' = [cur EXCEPT ![t] = o]

Absent(p, id) == Valid(p) /\ id > proof[p].high

\* The cached high-water mark proves the identifier new: no scan.
IntentFast(t, o) ==
    LET p == ProcOf[t] IN
    /\ Begins(t, o) /\ Absent(p, Stamp[o])
    /\ WriteRow(Intent(Stamp[o], DigestOf[o]))
    /\ Remember(p, Grown(proof[p], Stamp[o], 0))
    /\ pending' = [pending EXCEPT ![t] = size + 1]
    /\ Journalled(t, o)
    /\ UNCHANGED budgetVars

IntentScan(t, o) ==
    LET p == ProcOf[t]
        rest == [u \in Thread |-> IF ProcOf[u] = p THEN 0 ELSE pending[u]]
    IN
    /\ Begins(t, o) /\ ~Absent(p, Stamp[o])
    /\ ScanSucceeds /\ Stamp[o] \notin Intended(journal)
    /\ WriteRow(Intent(Stamp[o], DigestOf[o]))
    /\ Remember(p, Grown(Scanned, Stamp[o], 0))
    /\ pending' = IF Scanned = NoProof THEN rest
                  ELSE [rest EXCEPT ![t] = size + 1]
    /\ Journalled(t, o)
    /\ UNCHANGED budgetVars

\* The same entry is in the journal already: its identifier is returned.
IntentRepeated(t, o) ==
    LET p == ProcOf[t] IN
    /\ Begins(t, o) /\ ~Absent(p, Stamp[o])
    /\ ScanSucceeds /\ Stamp[o] \in Intended(journal)
    /\ Bound(Stamp[o], DigestOf[o])
    /\ Remember(p, Scanned) /\ NewLineage(p)
    /\ Journalled(t, o)
    /\ UNCHANGED <<fileVars, budgetVars>>

\* WalEntryConflictError, or WalJournalCorruptError from the scan.
IntentRefused(t, o) ==
    LET p == ProcOf[t] IN
    /\ Begins(t, o) /\ ~Absent(p, Stamp[o])
    /\ \/ ~ScanSucceeds /\ Remember(p, NoProof)
       \/ /\ ScanSucceeds /\ Remember(p, Scanned)
          /\ Stamp[o] \in Intended(journal) /\ ~Bound(Stamp[o], DigestOf[o])
    /\ NewLineage(p)
    /\ UNCHANGED <<fileVars, threadVars, budgetVars>>

IntentFails(t, o) ==
    LET p == ProcOf[t] IN
    /\ Begins(t, o)
    /\ \/ Absent(p, Stamp[o])
       \/ ScanSucceeds /\ Stamp[o] \notin Intended(journal)
    /\ FailRow(Intent(Stamp[o], DigestOf[o]))
    /\ Remember(p, NoProof) /\ NewLineage(p)
    /\ Fault
    /\ UNCHANGED threadVars

-----------------------------------------------------------------------------
(* The line itself, under the lock of the log.                              *)

ApplyLine(t) ==
    /\ pc[t] = "apply"
    /\ WriteLine(cur[t])
    /\ pc' = [pc EXCEPT ![t] = "commit"]
    /\ UNCHANGED <<fileVars, acked, started, cur, pending, proof, replayVars,
                   budgetVars>>

Returns(t) == /\ pc' = [pc EXCEPT ![t] = "idle"]
              /\ cur' = [cur EXCEPT ![t] = NoOp]

\* Broken: the exception is swallowed and the entry committed.
BrokenApplyFails(t) ==
    /\ pc[t] = "apply"
    /\ FailLine(WriteLine(cur[t]))
    /\ Fault
    /\ pc' = [pc EXCEPT ![t] = "commit"]
    /\ UNCHANGED <<fileVars, acked, started, cur, pending, proof, replayVars>>

\* The exception is raised to the caller; the intent stays uncommitted.
ApplyFails(t) ==
    /\ pc[t] = "apply"
    /\ FailLine(WriteLine(cur[t]))
    /\ Fault /\ Returns(t)
    /\ pending' = [pending EXCEPT ![t] = 0]
    /\ UNCHANGED <<fileVars, acked, started, proof, replayVars>>

-----------------------------------------------------------------------------
(* WriteAheadLog.commit_entry, called by the append.                        *)

Commits(t) == /\ pc[t] = "commit" /\ Returns(t)
              /\ UNCHANGED <<lineVars, started, replayVars>>

Acks(t) == acked' = acked \cup {cur[t]}

\* The pending entry is known to be uncommitted: nothing has been written
\* since its intent, or it is above every committed identifier.
StillPending(t) ==
    LET p == ProcOf[t] IN
    /\ Valid(p) /\ pending[t] # 0
    /\ pending[t] = size \/ Stamp[cur[t]] > proof[p].committedHigh

CommitFast(t) ==
    LET p == ProcOf[t] IN
    /\ Commits(t) /\ Acks(t) /\ StillPending(t)
    /\ WriteRow(Marker(Stamp[cur[t]]))
    /\ Remember(p, Grown(proof[p], 0, Stamp[cur[t]]))
    /\ pending' = [pending EXCEPT ![t] = 0]
    /\ UNCHANGED budgetVars

CommitScan(t) ==
    LET p == ProcOf[t] IN
    /\ Commits(t) /\ Acks(t) /\ ~StillPending(t)
    /\ ScanSucceeds /\ Stamp[cur[t]] \in Intended(journal) \ Committed(journal)
    /\ WriteRow(Marker(Stamp[cur[t]]))
    /\ Remember(p, Grown(Scanned, 0, Stamp[cur[t]])) /\ NewLineage(p)
    /\ UNCHANGED budgetVars

CommitFound(t) ==
    LET p == ProcOf[t] IN
    /\ Commits(t) /\ Acks(t) /\ ~StillPending(t)
    /\ ScanSucceeds /\ Stamp[cur[t]] \in Intended(journal) \cap Committed(journal)
    /\ Remember(p, Scanned) /\ NewLineage(p)
    /\ UNCHANGED <<fileVars, budgetVars>>

CommitRefused(t) ==
    LET p == ProcOf[t] IN
    /\ Commits(t) /\ ~StillPending(t)
    /\ \/ ~ScanSucceeds /\ Remember(p, NoProof)
       \/ /\ ScanSucceeds /\ Stamp[cur[t]] \notin Intended(journal)
          /\ Remember(p, Scanned)
    /\ NewLineage(p)
    /\ UNCHANGED <<fileVars, acked, budgetVars>>

CommitFails(t) ==
    LET p == ProcOf[t] IN
    /\ Commits(t)
    /\ \/ StillPending(t)
       \/ ScanSucceeds /\ Stamp[cur[t]] \in Intended(journal) \ Committed(journal)
    /\ FailRow(Marker(Stamp[cur[t]]))
    /\ Remember(p, NoProof) /\ NewLineage(p)
    /\ Fault
    /\ UNCHANGED acked

\* FileLockError: the journal was locked by others until the deadline.
CommitTimesOut(t) ==
    /\ Commits(t) /\ Fault
    /\ pending' = [pending EXCEPT ![t] = 0]
    /\ UNCHANGED <<fileVars, acked, proof>>

-----------------------------------------------------------------------------
(* replay_uncommitted, run by the startup task of each process.             *)

ReplayOnly == UNCHANGED <<acked, started, threadVars>>

\* A journal is read only where its log exists; the pass is over either way.
StartReplay(p) ==
    /\ rpc[p] = "idle" /\ passes[p] > 0
    /\ passes' = [passes EXCEPT ![p] = @ - 1]
    /\ \/ /\ ~present \/ size = 0
          /\ UNCHANGED <<todo, rpc, proof, pending>>
       \/ /\ present /\ size > 0 /\ ScanSucceeds
          /\ todo' = [todo EXCEPT ![p] = Uncommitted(journal)]
          /\ rpc' = [rpc EXCEPT ![p] = IF Uncommitted(journal) = {}
                                       THEN "idle" ELSE "apply"]
          /\ Remember(p, Scanned) /\ NewLineage(p)
       \/ /\ present /\ size > 0 /\ ~ScanSucceeds
          /\ Remember(p, NoProof) /\ NewLineage(p)
          /\ UNCHANGED <<todo, rpc>>
    /\ ReplayOnly /\ UNCHANGED <<fileVars, lineVars, budgetVars>>

\* The entries are taken in journal order.
IsNext(i, p) == i \in todo[p] /\ \A k \in todo[p] : i <= k

ReplayApply(p) == \E i \in todo[p] :
    /\ rpc[p] = "apply" /\ IsNext(i, p)
    /\ WriteCopy(journal[i].id)
    /\ rpc' = [rpc EXCEPT ![p] = "commit"]
    /\ ReplayOnly
    /\ UNCHANGED <<fileVars, pending, proof, todo, passes, budgetVars>>

\* On to the next entry, whatever became of this one.
Proceed(p, i) ==
    /\ todo' = [todo EXCEPT ![p] = @ \ {i}]
    /\ rpc' = [rpc EXCEPT ![p] = IF todo[p] = {i} THEN "idle" ELSE "apply"]
    /\ UNCHANGED passes

\* commit_entry of a fresh WriteAheadLog: nothing pending, so always a scan.
ReplayCommit(p) == \E i \in todo[p] :
    LET id == journal[i].id IN
    /\ rpc[p] = "commit" /\ IsNext(i, p) /\ Proceed(p, i)
    /\ \/ /\ ScanSucceeds /\ id \notin Committed(journal)
          /\ WriteRow(Marker(id))
          /\ Remember(p, Grown(Scanned, 0, id))
       \/ /\ ScanSucceeds /\ id \in Committed(journal)
          /\ Remember(p, Scanned) /\ UNCHANGED fileVars
       \/ /\ ~ScanSucceeds
          /\ Remember(p, NoProof) /\ UNCHANGED fileVars
    /\ NewLineage(p)
    /\ ReplayOnly /\ UNCHANGED <<lineVars, budgetVars>>

\* Broken: the handler covers the line only and the commit runs regardless.
BrokenReplayFails(p) == \E i \in todo[p] :
    /\ rpc[p] = "apply" /\ IsNext(i, p)
    /\ FailLine(WriteCopy(journal[i].id))
    /\ rpc' = [rpc EXCEPT ![p] = "commit"]
    /\ Fault /\ ReplayOnly
    /\ UNCHANGED <<fileVars, todo, passes, proof, pending>>

\* Each entry has its own try: an exception (FileLockError among them, when
\* a lock is not free in time) is logged and the next entry is tried.
ReplayFails(p) == \E i \in todo[p] :
    LET id == journal[i].id IN
    /\ rpc[p] # "idle" /\ IsNext(i, p) /\ Proceed(p, i)
    /\ \/ /\ rpc[p] = "apply"
          /\ FailLine(WriteCopy(id))
          /\ UNCHANGED <<fileVars, proof, pending>>
       \/ /\ rpc[p] = "commit"
          /\ ScanSucceeds /\ id \notin Committed(journal)
          /\ FailRow(Marker(id))
          /\ Remember(p, NoProof) /\ NewLineage(p)
          /\ UNCHANGED lineVars
       \/ /\ rpc[p] = "commit"
          /\ UNCHANGED <<fileVars, lineVars, proof, pending>>
    /\ Fault /\ ReplayOnly

-----------------------------------------------------------------------------

\* Broken: the restarted process owes no replay.
BrokenCrash(p) ==
    /\ crashes < MaxCrashes /\ crashes' = crashes + 1
    /\ pc' = [t \in Thread |-> IF ProcOf[t] = p THEN "idle" ELSE pc[t]]
    /\ cur' = [t \in Thread |-> IF ProcOf[t] = p THEN NoOp ELSE cur[t]]
    /\ NewLineage(p) /\ Remember(p, NoProof)
    /\ rpc' = [rpc EXCEPT ![p] = "idle"]
    /\ todo' = [todo EXCEPT ![p] = {}]
    /\ UNCHANGED <<fileVars, lineVars, acked, started, passes, faults, evictions>>

\* Every thread of the process is gone, its locks are free and its cache is
\* lost; the process starts again and owes its replays.  What a section cut
\* short leaves in a file is what the failing form of the section leaves.
Crash(p) ==
    /\ crashes < MaxCrashes /\ crashes' = crashes + 1
    /\ pc' = [t \in Thread |-> IF ProcOf[t] = p THEN "idle" ELSE pc[t]]
    /\ cur' = [t \in Thread |-> IF ProcOf[t] = p THEN NoOp ELSE cur[t]]
    /\ NewLineage(p) /\ Remember(p, NoProof)
    /\ rpc' = [rpc EXCEPT ![p] = "idle"]
    /\ todo' = [todo EXCEPT ![p] = {}]
    /\ passes' = [passes EXCEPT ![p] = ReplayPasses]
    /\ UNCHANGED <<fileVars, lineVars, acked, started, faults, evictions>>

\* Validations of other journals push this one out of the cache.
Evict(p) ==
    /\ evictions < MaxEvictions /\ evictions' = evictions + 1
    /\ proof[p] # NoProof
    /\ Remember(p, NoProof) /\ NewLineage(p)
    /\ ReplayOnly
    /\ UNCHANGED <<fileVars, lineVars, replayVars, crashes, faults>>

Init ==
    /\ journal = <<>> /\ size = 0 /\ health = "sound"
    /\ logged = {} /\ copies = [id \in Id |-> 0] /\ ragged = FALSE
    /\ present \in BOOLEAN
    /\ acked = {} /\ started = {}
    /\ pc = [t \in Thread |-> "idle"]
    /\ cur = [t \in Thread |-> NoOp]
    /\ pending = [t \in Thread |-> 0]
    /\ proof = [p \in Proc |-> NoProof]
    /\ rpc = [p \in Proc |-> "idle"]
    /\ todo = [p \in Proc |-> {}]
    /\ passes = [p \in Proc |-> ReplayPasses]
    /\ crashes = 0 /\ faults = 0 /\ evictions = 0

WriteEntry(t) == \E o \in Op : \/ IntentFast(t, o)
                               \/ IntentScan(t, o)
                               \/ IntentRepeated(t, o)
                               \/ IntentRefused(t, o)
                               \/ IntentFails(t, o)

CommitEntry(t) == \/ CommitFast(t)
                  \/ CommitScan(t)
                  \/ CommitFound(t)
                  \/ CommitRefused(t)
                  \/ CommitFails(t)
                  \/ CommitTimesOut(t)

AppendLine(t) == WriteEntry(t) \/ ApplyLine(t) \/ ApplyFails(t) \/ CommitEntry(t)

Replay(p) == StartReplay(p) \/ ReplayApply(p) \/ ReplayCommit(p)

Next == \/ \E t \in Thread : AppendLine(t)
        \/ \E p \in Proc : Replay(p) \/ ReplayFails(p) \/ Crash(p) \/ Evict(p)

Spec == Init /\ [][Next]_vars

\* A startup task that is not cancelled runs to its end.
FairSpec == Spec /\ \A p \in Proc : WF_vars(Replay(p))

-----------------------------------------------------------------------------

TypeOK ==
    /\ journal \in Seq(Row)
    /\ size \in Nat
    /\ health \in {"sound", "unterminated", "corrupt"}
    /\ logged \subseteq Op /\ acked \subseteq Op /\ started \subseteq Op
    /\ copies \in [Id -> Nat]
    /\ ragged \in BOOLEAN /\ present \in BOOLEAN
    /\ pc \in [Thread -> {"idle", "apply", "commit"}]
    /\ cur \in [Thread -> Op \cup {NoOp}]
    /\ pending \in [Thread -> Nat]
    /\ proof \in [Proc -> Proofs \cup {NoProof}]
    /\ rpc \in [Proc -> {"idle", "apply", "commit"}]
    /\ todo \in [Proc -> SUBSET (Nat \ {0})]
    /\ passes \in [Proc -> 0..ReplayPasses]
    /\ crashes \in 0..MaxCrashes /\ faults \in 0..MaxFaults
    /\ evictions \in 0..MaxEvictions

InLog(id) == copies[id] > 0 \/ \E o \in logged : Stamp[o] = id

\* The cached validation of write_entry and commit_entry never lets an entry
\* be committed twice, however threads, processes, replays, failed writes and
\* evictions interleave.
CommittedOnce == \A i, k \in MarkerRows(journal) :
                    journal[i].id = journal[k].id => i = k

\* The journal the writers leave is one their own reader accepts: commits
\* follow their intents and no identifier is bound to two payloads.
JournalReadable == Readable(journal)

\* A proof whose signature matches the file says what a full scan would say:
\* the fast paths decide on the truth.
ProofsTrue == \A p \in Proc : Valid(p) =>
                /\ health = "sound"
                /\ proof[p].high = Highest(Intended(journal))
                /\ proof[p].committedHigh = Highest(Committed(journal))

\* What StillPending concludes without reading the journal is so.
PendingUncommitted == \A t \in Thread : pc[t] = "commit" /\ StillPending(t) =>
                        Stamp[cur[t]] \in Intended(journal) \ Committed(journal)

\* A commit marker means the line is in the log: nothing that a replay skips
\* is missing from it.
CommittedInLog == \A id \in Committed(journal) : InLog(id)

\* append_line returns success only when its own line is in the log and its
\* entry is committed, through crashes and failed sections of anyone.
AckedDurable == \A o \in acked :
                    o \in logged /\ Stamp[o] \in Committed(journal)

\* The journal with its cache, threads and processes implements the promise.
Audit == INSTANCE AuditTrail WITH intended <- Intended(journal),
                                  committed <- Committed(journal)
KeepsAuditTrail == Audit!Spec

\* An entry that is uncommitted when a server starts beside an existing log
\* ends up committed, unless a step on the journal or the log has failed: the
\* replays of several processes, live appends, crashes in the middle of a
\* replay and entries sharing an identifier do not leave it out.
StartupReplays ==
    \A p \in Proc, id \in Id :
        (passes[p] > 0 /\ present /\ id \in Intended(journal))
            ~> (id \in Committed(journal) \/ faults > 0)
=============================================================================

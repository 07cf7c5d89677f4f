-------------------------- MODULE DocumentMutations --------------------------
(***************************************************************************)
(* Mutations of managed documents: the cross-process locks, the read, the  *)
(* compare, the write, the verification and the rollback of                *)
(* doc_management/manager.py, over the atomic replacement of               *)
(* utils/files.py and the check of shared/write_barrier.py.                *)
(*                                                                         *)
(* A call is a coroutine of a server process.  Each of its blocking steps, *)
(* the wait for a lock included, is a job of the process's default         *)
(* executor and needs one of its worker threads.  A cancelled call leaves  *)
(* a job that already runs to its thread.                                  *)
(***************************************************************************)
EXTENDS Naturals, FiniteSets, Functions

CONSTANTS Process, Call,
          Doc,          \* documents by the order of the paths of their lock files
          Home,         \* the process of a call
          Document,     \* the document a call changes
          Targets,      \* the documents a call locks
          Conditional,  \* the calls that give the hash of the text they expect
          Workers,      \* threads of a default executor
          Nobody,
          MaxCancels, MaxFaults, MaxCrashes, MaxBarriers   \* bounds of the runs

ASSUME CallAssumption ==
  /\ Home \in [Call -> Process] /\ Document \in [Call -> Doc]
  /\ Targets \in [Call -> SUBSET Doc] /\ Conditional \subseteq Call
  /\ \A c \in Call : Document[c] \in Targets[c]
\* The paths of the lock files can be sorted, in both directions.
ASSUME OrderAssumption ==
  /\ Doc \subseteq Nat
  /\ \A S \in SUBSET Doc : S # {} => /\ \E d \in S : \A e \in S : d <= e
                                     /\ \E d \in S : \A e \in S : e <= d
ASSUME WorkersAssumption == Workers \in Nat
ASSUME NamesAssumption == Nobody \notin Call
ASSUME BoundsAssumption == {MaxCancels, MaxFaults, MaxCrashes, MaxBarriers} \subseteq Nat

VARIABLES
  doc, tmp,                \* the text of a document (the changes in it); its temporary file, if any
  holder,                  \* who holds a document's lock
  barrier,                 \* whether the write barrier is up
  phase, job, handles,     \* a call: where it is, its job, the lock files it has open
  read, outcome,           \* the text it read, how it ended
  stray,                   \* the jobs of cancelled calls that still run
  seen, torn, grace,       \* history: see below
  used                     \* counters of the bounds

files == <<doc, tmp, holder, barrier>>
coroutine == <<phase, job, handles, read, outcome>>
history == <<seen, torn, grace>>
vars == <<files, coroutine, stray, history, used>>

(* seen: the text a conditional call expects.  torn: the calls that were    *)
(* cancelled while their write ran.  grace: the calls that had passed the   *)
(* check of the barrier when it went up.                                    *)

Text == SUBSET Call
Critical == {"read", "backup", "write", "observe", "verify", "undo"}
Phase == Critical \cup {"idle", "lock", "unlock", "done"}
Job == {"none", "queued", "running", "filled"}
Stray == [call: Call, phase: Critical \cup {"lock"}, job: {"running", "filled"}, on: Doc]
Writing == {"write", "undo"}

TypeOK ==
  /\ doc \in [Doc -> Text] /\ tmp \in [Doc -> SUBSET Text]
  /\ holder \in [Doc -> Call \cup {Nobody}]
  /\ barrier \in BOOLEAN
  /\ phase \in [Call -> Phase] /\ job \in [Call -> Job]
  /\ handles \in [Call -> SUBSET Doc]
  /\ read \in [Call -> Text] /\ seen \in [Call -> Text]
  /\ outcome \in [Call -> {"none", "ok", "failed", "denied", "refused", "cancelled", "crashed"}]
  /\ stray \subseteq Stray
  /\ torn \subseteq Call /\ grace \subseteq Call
  /\ used \in [{"cancels", "faults", "crashes", "barriers"} -> Nat]

Init ==
  /\ doc = [d \in Doc |-> {}] /\ tmp = [d \in Doc |-> {}]
  /\ holder = [d \in Doc |-> Nobody] /\ barrier = FALSE
  /\ phase = [c \in Call |-> "idle"] /\ job = [c \in Call |-> "none"]
  /\ handles = [c \in Call |-> {}]
  /\ read = [c \in Call |-> {}] /\ seen = [c \in Call |-> {}]
  /\ outcome = [c \in Call |-> "none"]
  /\ stray = {} /\ torn = {} /\ grace = {}
  /\ used = [b \in {"cancels", "faults", "crashes", "barriers"} |-> 0]

-----------------------------------------------------------------------------
(* Executor and locks.                                                      *)

Busy(p) == Cardinality({c \in Call : Home[c] = p /\ job[c] \in {"running", "filled"}})
           + Cardinality({s \in stray : Home[s.call] = p})

Least(S) == CHOOSE d \in S : \A e \in S : d <= e
Greatest(S) == CHOOSE d \in S : \A e \in S : e <= d

\* The lock files are opened in their order; Wanted is the one being waited for.
BrokenNextLock(c) == IF c \in Conditional THEN Greatest(Targets[c] \ handles[c])
                                          ELSE Least(Targets[c] \ handles[c])
NextLock(c) == Least(Targets[c] \ handles[c])
Wanted(c) == CHOOSE d \in handles[c] : holder[d] # c

\* flock(LOCK_EX) returns.
Free(d) == holder[d] = Nobody

\* What a write job puts in the document's place.
BrokenWritten(c, ph) == IF ph = "undo" THEN {} ELSE read[c] \cup {c}
Written(c, ph) == IF ph = "undo" THEN read[c] ELSE read[c] \cup {c}

Spend(b) == used' = [used EXCEPT ![b] = @ + 1]
Step(c, ph, j) == phase' = [phase EXCEPT ![c] = ph] /\ job' = [job EXCEPT ![c] = j]
End(c, result) == outcome' = [outcome EXCEPT ![c] = result]

\* A client calls: the first lock file is opened and waited for.
Begin(c) ==
  /\ phase[c] = "idle"
  /\ Step(c, "lock", "queued")
  /\ handles' = [handles EXCEPT ![c] = {NextLock(c)}]
  /\ seen' = IF c \in Conditional THEN [seen EXCEPT ![c] = doc[Document[c]]] ELSE seen
  /\ UNCHANGED <<files, read, outcome, stray, torn, grace, used>>

\* A worker takes a job.
Start(c) ==
  /\ job[c] = "queued" /\ Busy(Home[c]) < Workers
  /\ job' = [job EXCEPT ![c] = "running"]
  /\ UNCHANGED <<files, phase, handles, read, outcome, stray, history, used>>

\* Under its locks a call checks the barrier once, then reads the document.
BrokenEnter(c) == Step(c, "read", "queued") /\ UNCHANGED outcome
Enter(c) ==
  IF barrier THEN Step(c, "unlock", "queued") /\ End(c, "refused")
             ELSE Step(c, "read", "queued") /\ UNCHANGED outcome

Grant(c) ==
  /\ phase[c] = "lock" /\ job[c] = "running"
  /\ Free(Wanted(c))
  /\ holder' = [holder EXCEPT ![Wanted(c)] = c]
  /\ IF handles[c] = Targets[c]
     THEN Enter(c) /\ UNCHANGED handles
     ELSE /\ Step(c, "lock", "queued") /\ UNCHANGED outcome
          /\ handles' = [handles EXCEPT ![c] = @ \cup {NextLock(c)}]
  /\ UNCHANGED <<doc, tmp, barrier, read, stray, history, used>>

\* The last lock file that was opened is the first to be unlocked and closed.
Unlock(c) ==
  /\ phase[c] = "unlock" /\ job[c] = "running"
  /\ LET l == Greatest(handles[c]) rest == handles[c] \ {l} IN
     /\ holder' = [holder EXCEPT ![l] = IF @ = c THEN Nobody ELSE @]
     /\ handles' = [handles EXCEPT ![c] = rest]
     /\ IF rest = {} THEN Step(c, "done", "none") ELSE Step(c, "unlock", "queued")
  /\ UNCHANGED <<doc, tmp, barrier, read, outcome, stray, history, used>>

-----------------------------------------------------------------------------
(* The mutation.                                                            *)

\* An exception after the read: the text is restored if there was one.
BrokenRecover(c) == Step(c, "unlock", "queued") /\ End(c, "failed")
Recover(c) ==
  IF read[c] # {} THEN Step(c, "undo", "queued") /\ UNCHANGED outcome
                  ELSE Step(c, "unlock", "queued") /\ End(c, "failed")

BrokenMatches(c) == TRUE
Matches(c) == c \in Conditional => doc[Document[c]] = seen[c]

Read(c) ==
  /\ phase[c] = "read" /\ job[c] = "running"
  /\ read' = [read EXCEPT ![c] = doc[Document[c]]]
  /\ IF Matches(c)
     THEN /\ Step(c, IF doc[Document[c]] # {} THEN "backup" ELSE "write", "queued")
          /\ UNCHANGED outcome
     ELSE Step(c, "unlock", "queued") /\ End(c, "denied")
  /\ UNCHANGED <<files, handles, stray, history, used>>

\* The file cannot be read, or the edit does not fit its text.
ReadFails(c) ==
  /\ phase[c] = "read" /\ job[c] = "running" /\ used.faults < MaxFaults
  /\ Step(c, "unlock", "queued") /\ End(c, "failed") /\ Spend("faults")
  /\ UNCHANGED <<files, handles, read, stray, history>>

Backup(c) ==
  /\ phase[c] = "backup" /\ job[c] = "running"
  /\ Step(c, "write", "queued")
  /\ UNCHANGED <<files, handles, read, outcome, stray, history, used>>

BackupFails(c) ==
  /\ phase[c] = "backup" /\ job[c] = "running" /\ used.faults < MaxFaults
  /\ Recover(c) /\ Spend("faults")
  /\ UNCHANGED <<files, handles, read, stray, history>>

\* atomic_write: the temporary file is filled, then it replaces the document.
Fill(c) ==
  /\ phase[c] \in Writing /\ job[c] = "running"
  /\ tmp' = [tmp EXCEPT ![Document[c]] = {Written(c, phase[c])}]
  /\ job' = [job EXCEPT ![c] = "filled"]
  /\ UNCHANGED <<doc, holder, barrier, phase, handles, read, outcome, stray, history, used>>

Replace(d) ==
  /\ \E t \in tmp[d] : doc' = [doc EXCEPT ![d] = t]
  /\ tmp' = [tmp EXCEPT ![d] = {}]

\* The call goes on after its write: with the verification, or with its failure.
AfterWrite(c, fails) ==
  IF phase[c] = "undo" THEN Step(c, "unlock", "queued") /\ End(c, "failed")
  ELSE Step(c, IF fails THEN "observe" ELSE "verify", "queued") /\ UNCHANGED outcome

Install(c) ==
  /\ phase[c] \in Writing /\ job[c] = "filled"
  /\ Replace(Document[c]) /\ AfterWrite(c, FALSE)
  /\ UNCHANGED <<holder, barrier, handles, read, stray, history, used>>

\* A write fails before the replacement or after it; the temporary file is removed.
WriteFails(c) ==
  /\ phase[c] \in Writing /\ job[c] \in {"running", "filled"} /\ used.faults < MaxFaults
  /\ \/ tmp' = [tmp EXCEPT ![Document[c]] = {}] /\ UNCHANGED doc
     \/ job[c] = "filled" /\ Replace(Document[c])
  /\ AfterWrite(c, TRUE) /\ Spend("faults")
  /\ UNCHANGED <<holder, barrier, handles, read, stray, history>>

\* The temporary file is gone: another write of the document took it.
FileMissing(c) ==
  /\ phase[c] \in Writing /\ job[c] = "filled" /\ tmp[Document[c]] = {}
  /\ AfterWrite(c, TRUE)
  /\ UNCHANGED <<files, handles, read, stray, history, used>>

BrokenInPlace(c) == TRUE
InPlace(c) == doc[Document[c]] = Written(c, "write")

\* After a failed write the text decides whether it had been done.
Observe(c) ==
  /\ phase[c] = "observe" /\ job[c] = "running"
  /\ IF InPlace(c) THEN Step(c, "verify", "queued") /\ UNCHANGED outcome ELSE Recover(c)
  /\ UNCHANGED <<files, handles, read, stray, history, used>>

Verify(c) ==
  /\ phase[c] = "verify" /\ job[c] = "running"
  /\ IF InPlace(c) THEN Step(c, "unlock", "queued") /\ End(c, "ok") ELSE Recover(c)
  /\ UNCHANGED <<files, handles, read, stray, history, used>>

CheckFails(c) ==
  /\ phase[c] \in {"observe", "verify"} /\ job[c] = "running" /\ used.faults < MaxFaults
  /\ Recover(c) /\ Spend("faults")
  /\ UNCHANGED <<files, handles, read, stray, history>>

-----------------------------------------------------------------------------
(* Cancellation, crashes and the barrier.                                   *)

\* A job that waits for a worker is dropped, one that runs goes on without its call.
JobOf(c) == [call |-> c, phase |-> phase[c], job |-> job[c],
             on |-> IF phase[c] = "lock" THEN Wanted(c) ELSE Document[c]]
LeftBy(c) == IF job[c] = "queued" THEN {} ELSE {JobOf(c)}

\* The caller gives up.
Cancel(c) ==
  /\ phase[c] \in Critical \cup {"lock"} /\ used.cancels < MaxCancels
  /\ stray' = stray \cup LeftBy(c)
  /\ torn' = IF phase[c] \in Writing /\ job[c] # "queued" THEN torn \cup {c} ELSE torn
  /\ Step(c, "unlock", "queued") /\ End(c, "cancelled") /\ Spend("cancels")
  /\ UNCHANGED <<files, handles, read, seen, grace>>

\* A lock that comes after its handle was closed is dropped at once.
StrayGrant(s) ==
  /\ s.phase = "lock" /\ Free(s.on)
  /\ holder' = IF s.on \in handles[s.call] THEN [holder EXCEPT ![s.on] = s.call] ELSE holder
  /\ stray' = stray \ {s}
  /\ UNCHANGED <<doc, tmp, barrier, coroutine, history, used>>

StrayFill(s) ==
  /\ s.phase \in Writing /\ s.job = "running"
  /\ tmp' = [tmp EXCEPT ![s.on] = {Written(s.call, s.phase)}]
  /\ stray' = (stray \ {s}) \cup {[s EXCEPT !.job = "filled"]}
  /\ UNCHANGED <<doc, holder, barrier, coroutine, history, used>>

\* It replaces the document, or fails and removes the temporary file.
StrayInstall(s) ==
  /\ s.phase \in Writing /\ s.job = "filled"
  /\ \/ Replace(s.on)
     \/ tmp' = [tmp EXCEPT ![s.on] = {}] /\ UNCHANGED doc
  /\ stray' = stray \ {s}
  /\ UNCHANGED <<holder, barrier, coroutine, history, used>>

StrayEnds(s) ==
  /\ s.phase \in Critical \ Writing
  /\ stray' = stray \ {s}
  /\ UNCHANGED <<files, coroutine, history, used>>

\* A process dies: its threads stop, the system drops its locks.
Crash(p) ==
  LET dead == {c \in Call : Home[c] = p /\ phase[c] \notin {"idle", "done"}} IN
  /\ used.crashes < MaxCrashes /\ dead # {}
  /\ phase' = [c \in Call |-> IF c \in dead THEN "done" ELSE phase[c]]
  /\ job' = [c \in Call |-> IF c \in dead THEN "none" ELSE job[c]]
  /\ handles' = [c \in Call |-> IF c \in dead THEN {} ELSE handles[c]]
  /\ outcome' = [c \in Call |-> IF c \in dead /\ outcome[c] = "none" THEN "crashed" ELSE outcome[c]]
  /\ holder' = [d \in Doc |-> IF holder[d] \in dead THEN Nobody ELSE holder[d]]
  /\ stray' = {s \in stray : Home[s.call] # p}
  /\ Spend("crashes")
  /\ UNCHANGED <<doc, tmp, barrier, read, history>>

\* An operation other than manage_docs acquires the barrier, and releases it; a
\* barrier of that label would let the calls of this module through.
RaiseBarrier ==
  /\ ~barrier /\ used.barriers < MaxBarriers
  /\ barrier' = TRUE /\ Spend("barriers")
  /\ grace' = {c \in Call : phase[c] \in Critical} \cup {s.call : s \in stray}
  /\ UNCHANGED <<doc, tmp, holder, coroutine, stray, seen, torn>>

LowerBarrier ==
  /\ barrier /\ barrier' = FALSE /\ grace' = {}
  /\ UNCHANGED <<doc, tmp, holder, coroutine, stray, seen, torn, used>>

-----------------------------------------------------------------------------
Works(c) ==
  \/ Grant(c) \/ Unlock(c)
  \/ Read(c) \/ Backup(c) \/ Fill(c) \/ Install(c) \/ FileMissing(c) \/ Observe(c) \/ Verify(c)

Fails(c) == ReadFails(c) \/ BackupFails(c) \/ WriteFails(c) \/ CheckFails(c)

GoesOn(s) == StrayGrant(s) \/ StrayFill(s) \/ StrayInstall(s) \/ StrayEnds(s)

Next ==
  \/ \E c \in Call : Begin(c) \/ Start(c) \/ Works(c) \/ Fails(c) \/ Cancel(c)
  \/ \E s \in stray : GoesOn(s)
  \/ \E p \in Process : Crash(p)
  \/ RaiseBarrier \/ LowerBarrier

Spec == Init /\ [][Next]_vars

\* Threads are scheduled, and the executor hands its jobs to them.
Fairness ==
  /\ \A c \in Call : WF_vars(Start(c)) /\ WF_vars(Works(c))
  /\ \A c \in Call : WF_vars(\E s \in stray : s.call = c /\ GoesOn(s))

FairSpec == Spec /\ Fairness

-----------------------------------------------------------------------------
(* Correctness.                                                             *)

\* No acknowledged change is lost: while no call was cancelled in its write, the change of every
\* call that reported success is in its document, whatever the others read before it, wrote
\* after it, rolled back or left behind in a crash (the transaction under the lock, manager.py).
KeepsAcked ==
  torn = {} => \A c \in Call : outcome[c] = "ok" => c \in doc[Document[c]]

\* A call that reports a failure has restored the document: after at most one fault, and unless
\* the document was empty, its change is gone (the rollback of apply_doc_change).
FailedUndone ==
  torn = {} /\ used["faults"] <= 1 =>
    \A c \in Call : outcome[c] \in {"failed", "denied", "refused"} /\ read[c] # {}
                      => c \notin doc[Document[c]]

\* A conditional change lands on the very text its caller saw: nothing gets between the
\* comparison of the hash and the replacement of the file (expected_anchor_sha256,
\* patch_source_hash).
ConditionalFits ==
  [][\A c \in Conditional :
       LET d == Document[c] IN
       torn = {} /\ c \notin doc[d] /\ c \in doc'[d] => doc[d] = seen[c]]_vars

\* While the write barrier is up, documents stop changing once the calls that had passed its
\* check before it went up have ended (assert_writes_allowed is read once, under the locks).
BarrierQuiets ==
  [][barrier /\ stray = {} /\ (\A c \in grace : phase[c] = "done") => UNCHANGED doc]_vars

\* Documents keep their promise to callers: changes come one at a time, over changes that are
\* answered for, success means the change is in place, and what is answered is not touched again
\* (the serialised transaction apply_doc_change announces, manager.py:1430).
Edits == INSTANCE SerialEdits WITH text <- doc, answer <- outcome
KeepsEdits == Edits!Init /\ [][torn' = {} => Edits!Next]_(Edits!editVars)

\* A call that has begun and not ended, or that was cancelled and has left a job.
Active(c) == phase[c] \notin {"idle", "done"} \/ \E s \in stray : s.call = c

\* What a job that has a thread waits for: a lock, or nothing.
Runs(c) == job[c] \in {"running", "filled"} /\ (phase[c] = "lock" => Free(Wanted(c)))
StrayRuns(s) == s.phase = "lock" => Free(s.on)

\* The calls never wait for each other in a circle, neither for locks nor for the threads of those
\* that wait for locks: while no process serves more calls than its executor has threads, one of
\* the calls can go on (the sorted lock paths of document_transaction, manager.py).
NoDeadlock ==
  /\ \A p \in Process : Cardinality({c \in Call : Home[c] = p /\ Active(c)}) <= Workers
  /\ \E c \in Call : Active(c)
  => \/ \E c \in Call : Runs(c) \/ (job[c] = "queued" /\ Busy(Home[c]) < Workers)
     \/ \E s \in stray : StrayRuns(s)

\* Every call that begins ends and has let go of its locks.
CallsEnd == \A c \in Call : phase[c] = "lock" ~> phase[c] = "done" /\ handles[c] = {}

=============================================================================

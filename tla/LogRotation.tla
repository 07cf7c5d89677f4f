----------------------------- MODULE LogRotation -----------------------------
(***************************************************************************)
(* rotate_file of utils/files.py beside the locked append, with the        *)
(* rollback it runs when it fails and the fallback rotate_log runs then.   *)
(*                                                                         *)
(* A file is the set of lines it holds, its header one of them.  A         *)
(* rotation is a coroutine: what it does between two awaits is one action  *)
(* on the event loop of its process, what it hands to a worker thread is   *)
(* another.  file_lock is taken on the loop and waits there, so a rotation *)
(* that waits blocks every other coroutine of the process; its threads go  *)
(* on.  Archives are never overwritten (the name is made unique under the  *)
(* lock), so their lines are kept together.                                *)
(***************************************************************************)
EXTENDS Naturals

CONSTANTS Proc,          \* server processes
          Rotator,       \* coroutines that rotate this log
          ProcOf,        \* the process of a rotator
          UsesTool,      \* the rotators that are calls of rotate_log
          Name,          \* names of fallback archives
          NameOf,        \* the name a rotator's suffix yields
          Op,            \* appended lines
          MaxRotations,  \* bound on rotations started
          MaxFaults,     \* bound on failing steps and foreign timeouts
          MaxCrashes,    \* bound on process crashes
          Header,        \* the header of a new log
          Nobody         \* owner of a free lock, of a missing .new file

ASSUME ConstantsAssumption ==
    /\ ProcOf \in [Rotator -> Proc]
    /\ UsesTool \subseteq Rotator
    /\ NameOf \in [Rotator -> Name]
    /\ Nobody \notin Rotator \cup Op /\ Header \notin Op \cup {Nobody}
    /\ Rotator \cap Op = {}
    /\ Name \cap {"none", "log", "gone"} = {}

ASSUME BoundsAssumption ==
    MaxRotations \in Nat /\ MaxFaults \in Nat /\ MaxCrashes \in Nat

VARIABLES
    log,       \* lines of the progress log, or NoFile
    archived,  \* lines of the archives rotate_file made
    parked,    \* the fallback archives, by name
    backup,    \* per rotator: the preflight backup of its last rotation
    temp,      \* who wrote the shared .new file
    lock,      \* who holds the log's sibling lock
    open,      \* where the file is that the appending lock holder opened
    acked,     \* lines whose append returned
    begun,     \* lines whose append began
    unlocked,  \* whether the log has been changed outside its lock
    pc,        \* where each rotation is
    rotations, faults, crashes

fileVars == <<log, archived, parked, backup, temp>>
lineVars == <<acked, begun, unlocked>>
vars == <<fileVars, lock, open, lineVars, pc, rotations, faults, crashes>>

\* The content of a file that does not exist: no set of lines.
NoFile == {Nobody}

Files == {NoFile} \cup SUBSET (Op \cup {Header})
Lines(f) == f \cap Op

\* What a file opened for appending holds.
Created(f) == IF f = NoFile THEN {} ELSE f

\* No coroutine of the process waits for a lock on its loop.
LoopFree(p) == \A r \in Rotator : ProcOf[r] = p => pc[r] # "spin"

OnLoop(r) == LoopFree(ProcOf[r])

Goto(r, label) == pc' = [pc EXCEPT ![r] = label]

Calm == UNCHANGED <<faults, crashes>>
Fault == faults < MaxFaults /\ faults' = faults + 1 /\ UNCHANGED crashes

\* The step fails for certain under the condition, else by a fault.
FailsWhen(condition) == \/ condition /\ Calm
                        \/ ~condition /\ Fault

\* AtomicFileError reaches the caller: rotate_log heals it with its fallback,
\* append_entry appends without a rotation.
Raises(r) == Goto(r, IF r \in UsesTool THEN "fallback" ELSE "idle")

\* The rollback and the fallback change the log without taking its lock.
OutsideLock == unlocked' = TRUE /\ UNCHANGED <<acked, begun>>

-----------------------------------------------------------------------------
(* The append: opened (and created) under the lock, written, released.      *)

OpenLog(o) ==
    /\ lock = Nobody /\ o \notin begun
    /\ lock' = o /\ open' = "log"
    /\ begun' = begun \cup {o}
    /\ log' = Created(log)
    /\ Calm /\ UNCHANGED <<archived, parked, backup, temp, acked, unlocked, pc, rotations>>

\* The line goes to the file that was opened, wherever it has been moved.
WriteLine(o) ==
    /\ lock = o
    /\ lock' = Nobody /\ open' = "none"
    /\ acked' = acked \cup {o}
    /\ log' = IF open = "log" THEN Created(log) \cup {o} ELSE log
    /\ parked' = IF open \in Name THEN [parked EXCEPT ![open] = Created(@) \cup {o}]
                 ELSE parked
    /\ Calm /\ UNCHANGED <<archived, backup, temp, begun, unlocked, pc, rotations>>

-----------------------------------------------------------------------------
(* rotate_file.                                                             *)

\* A missing or empty log raises before anything is changed: the fallback of
\* rotate_log takes it up like any other failure.
Refuse(r) ==
    /\ pc[r] = "idle" /\ OnLoop(r)
    /\ rotations < MaxRotations /\ rotations' = rotations + 1
    /\ log \in {NoFile, {}}
    /\ Raises(r)
    /\ Calm /\ UNCHANGED <<fileVars, lock, open, lineVars>>

Start(r) ==
    /\ pc[r] = "idle" /\ OnLoop(r)
    /\ rotations < MaxRotations /\ rotations' = rotations + 1
    /\ log \notin {NoFile, {}}
    /\ Goto(r, "backup")
    /\ Calm /\ UNCHANGED <<fileVars, lock, open, lineVars>>

\* preflight_backup: a copy made without the lock.
BackUp(r) ==
    /\ pc[r] = "backup" /\ log # NoFile
    /\ backup' = [backup EXCEPT ![r] = log]
    /\ Goto(r, "temp")
    /\ Calm
    /\ UNCHANGED <<log, archived, parked, temp, lock, open, lineVars, rotations>>

\* It raises before the try statement: there is no rollback.
BackUpFails(r) ==
    /\ pc[r] = "backup"
    /\ FailsWhen(log = NoFile)
    /\ Raises(r)
    /\ UNCHANGED <<fileVars, lock, open, lineVars, rotations>>

\* The new log goes to a .new file whose name all rotations share.
WriteTemp(r) ==
    /\ pc[r] = "temp"
    /\ temp' = r
    /\ Goto(r, "lock")
    /\ Calm
    /\ UNCHANGED <<log, archived, parked, backup, lock, open, lineVars, rotations>>

WriteTempFails(r) ==
    /\ pc[r] = "temp" /\ Fault
    /\ temp' \in {temp, r}
    /\ Goto(r, "rollback")
    /\ UNCHANGED <<log, archived, parked, backup, lock, open, lineVars, rotations>>

Waits(r) == \/ pc[r] = "spin"
            \/ pc[r] = "lock" /\ OnLoop(r)

TakeLock(r) ==
    /\ Waits(r) /\ lock = Nobody /\ log # NoFile
    /\ lock' = r
    /\ Goto(r, "archive")
    /\ Calm /\ UNCHANGED <<fileVars, open, lineVars, rotations>>

Spin(r) ==
    /\ pc[r] = "lock" /\ OnLoop(r) /\ lock # Nobody
    /\ Goto(r, "spin")
    /\ Calm /\ UNCHANGED <<fileVars, lock, open, lineVars, rotations>>

\* The lock is free but the log cannot be opened.
OpenFails(r) ==
    /\ Waits(r) /\ lock = Nobody
    /\ FailsWhen(log = NoFile)
    /\ temp' = Nobody
    /\ Goto(r, "rollback")
    /\ UNCHANGED <<log, archived, parked, backup, lock, open, lineVars, rotations>>

\* The holder is a coroutine of the loop that waits for it.
SelfBlocked(r) == lock \in Rotator /\ ProcOf[lock] = ProcOf[r]

\* Broken: the wait for the lock has no deadline.
BrokenTimesOut(r) == FALSE /\ UNCHANGED vars

\* FileLockError after 30 s: nothing else ends a wait of a loop for itself.
\* The finally clause removes the .new file, whoever wrote it.
TimesOut(r) ==
    /\ pc[r] = "spin" /\ lock # Nobody
    /\ FailsWhen(SelfBlocked(r))
    /\ temp' = Nobody
    /\ Goto(r, "rollback")
    /\ UNCHANGED <<log, archived, parked, backup, lock, open, lineVars, rotations>>

\* Broken: an existing archive of that name is overwritten.
BrokenArchive(r) ==
    /\ pc[r] = "archive" /\ log # NoFile
    /\ archived' = Lines(log) /\ log' = NoFile
    /\ Goto(r, "install")
    /\ Calm /\ UNCHANGED <<parked, backup, temp, lock, open, lineVars, rotations>>

\* path.rename(archive), in a thread while the lock is held.
Archive(r) ==
    /\ pc[r] = "archive" /\ log # NoFile
    /\ archived' = archived \cup Lines(log) /\ log' = NoFile
    /\ Goto(r, "install")
    /\ Calm /\ UNCHANGED <<parked, backup, temp, lock, open, lineVars, rotations>>

ArchiveFails(r) ==
    /\ pc[r] = "archive"
    /\ FailsWhen(log = NoFile)
    /\ Goto(r, "unwind")
    /\ UNCHANGED <<fileVars, lock, open, lineVars, rotations>>

\* The with statement is left by an exception, the .new file removed.
Unwind(r) ==
    /\ pc[r] = "unwind" /\ OnLoop(r)
    /\ lock' = Nobody /\ temp' = Nobody
    /\ Goto(r, "rollback")
    /\ Calm
    /\ UNCHANGED <<log, archived, parked, backup, open, lineVars, rotations>>

\* Broken: the old lines are put into the new log as well.
BrokenInstall(r) ==
    /\ pc[r] = "install" /\ OnLoop(r) /\ temp # Nobody
    /\ log' = Lines(backup[r]) /\ temp' = Nobody /\ lock' = Nobody
    /\ Goto(r, "idle")
    /\ Calm /\ UNCHANGED <<archived, parked, backup, open, lineVars, rotations>>

\* temp_path.replace(path), the directory fsync, the release of the lock.
Install(r) ==
    /\ pc[r] = "install" /\ OnLoop(r) /\ temp # Nobody
    /\ log' = {Header} /\ temp' = Nobody /\ lock' = Nobody
    /\ Goto(r, "idle")
    /\ Calm /\ UNCHANGED <<archived, parked, backup, open, lineVars, rotations>>

\* The .new file is gone, or replace or the fsync after it fails.
InstallFails(r) ==
    /\ pc[r] = "install" /\ OnLoop(r)
    /\ FailsWhen(temp = Nobody)
    /\ log' \in IF temp = Nobody THEN {log} ELSE {log, {Header}}
    /\ temp' = Nobody /\ lock' = Nobody
    /\ Goto(r, "rollback")
    /\ UNCHANGED <<archived, parked, backup, open, lineVars, rotations>>

\* backup_path.rename(path), in a thread and without the lock.
Rollback(r) ==
    /\ pc[r] = "rollback"
    /\ log' = backup[r]
    /\ backup' = [backup EXCEPT ![r] = NoFile]
    /\ open' = IF open = "log" THEN "gone" ELSE open
    /\ Raises(r)
    /\ OutsideLock
    /\ Calm /\ UNCHANGED <<archived, parked, temp, lock, rotations>>

RollbackFails(r) ==
    /\ pc[r] = "rollback" /\ Fault
    /\ Raises(r)
    /\ UNCHANGED <<fileVars, lock, open, lineVars, rotations>>

-----------------------------------------------------------------------------
(* The fallback of rotate_log: a plain rename, then a plain write, both     *)
(* without the lock.                                                        *)

Fallback(r) ==
    /\ pc[r] = "fallback" /\ log # NoFile
    /\ parked' = [parked EXCEPT ![NameOf[r]] = log]
    /\ log' = NoFile
    /\ open' = IF open = "log" THEN NameOf[r]
               ELSE IF open = NameOf[r] THEN "gone" ELSE open
    /\ Goto(r, "header")
    /\ OutsideLock
    /\ Calm /\ UNCHANGED <<archived, backup, temp, lock, rotations>>

FallbackFails(r) ==
    /\ pc[r] = "fallback"
    /\ FailsWhen(log = NoFile)
    /\ Goto(r, "idle")
    /\ UNCHANGED <<fileVars, lock, open, lineVars, rotations>>

\* log_path.write_text truncates what appends have put there meanwhile.
WriteHeader(r) ==
    /\ pc[r] = "header"
    /\ log' = {Header}
    /\ Goto(r, "idle")
    /\ OutsideLock
    /\ Calm /\ UNCHANGED <<archived, parked, backup, temp, lock, open, rotations>>

\* The minimal header cannot be written either.
WriteHeaderFails(r) ==
    /\ pc[r] = "header" /\ Fault
    /\ log' \in {log, {}, {Header}}
    /\ Goto(r, "idle")
    /\ OutsideLock
    /\ UNCHANGED <<archived, parked, backup, temp, lock, open, rotations>>

-----------------------------------------------------------------------------

\* The rotations of a process end with it and its lock is free; no start
\* of a server takes up a rotation again.
Crash(p) ==
    /\ crashes < MaxCrashes /\ crashes' = crashes + 1
    /\ pc' = [r \in Rotator |-> IF ProcOf[r] = p THEN "idle" ELSE pc[r]]
    /\ lock' = IF lock \in Rotator /\ ProcOf[lock] = p THEN Nobody ELSE lock
    /\ UNCHANGED <<fileVars, open, lineVars, rotations, faults>>

Init ==
    /\ log = NoFile /\ archived = {}
    /\ parked = [n \in Name |-> NoFile]
    /\ backup = [r \in Rotator |-> NoFile]
    /\ temp = Nobody /\ lock = Nobody /\ open = "none"
    /\ acked = {} /\ begun = {} /\ unlocked = FALSE
    /\ pc = [r \in Rotator |-> "idle"]
    /\ rotations = 0 /\ faults = 0 /\ crashes = 0

AppendLine == \E o \in Op : OpenLog(o) \/ WriteLine(o)

Proceeds(r) == \/ BackUp(r) \/ WriteTemp(r) \/ TakeLock(r) \/ Spin(r)
               \/ Archive(r) \/ Unwind(r) \/ Install(r) \/ Rollback(r)
               \/ Fallback(r) \/ WriteHeader(r)

Fails(r) == \/ BackUpFails(r) \/ WriteTempFails(r) \/ OpenFails(r)
            \/ TimesOut(r) \/ ArchiveFails(r) \/ InstallFails(r)
            \/ RollbackFails(r) \/ FallbackFails(r) \/ WriteHeaderFails(r)

RotateFile(r) == Refuse(r) \/ Start(r) \/ Proceeds(r) \/ Fails(r)

Next == AppendLine \/ (\E r \in Rotator : RotateFile(r)) \/ \E p \in Proc : Crash(p)

Spec == Init /\ [][Next]_vars

\* An append that holds the lock writes and releases it; a coroutine whose
\* loop is free is run; a thread call ends; a wait ends at its deadline.
FairSpec == /\ Spec
            /\ WF_vars(\E o \in Op : WriteLine(o))
            /\ \A r \in Rotator : WF_vars(Proceeds(r) \/ Fails(r))

-----------------------------------------------------------------------------

TypeOK ==
    /\ log \in Files /\ archived \subseteq Op
    /\ parked \in [Name -> Files]
    /\ backup \in [Rotator -> Files]
    /\ temp \in Rotator \cup {Nobody}
    /\ lock \in Rotator \cup Op \cup {Nobody}
    /\ open \in Name \cup {"none", "log", "gone"}
    /\ acked \subseteq Op /\ begun \subseteq Op /\ unlocked \in BOOLEAN
    /\ pc \in [Rotator -> {"idle", "backup", "temp", "lock", "spin", "archive",
                           "install", "unwind", "rollback", "fallback", "header"}]
    /\ rotations \in 0..MaxRotations /\ faults \in 0..MaxFaults
    /\ crashes \in 0..MaxCrashes

Parked == UNION {Lines(parked[n]) : n \in Name}
Kept == Lines(log) \cup archived \cup Parked

\* "Bulletproof append", "Bulletproof rotate": an acknowledged line is in the
\* log or in an archive, whatever a rotation does and wherever a process dies.
AckedKept == acked \subseteq Kept

\* So it is until a rollback or a fallback has changed the log outside its
\* lock: several rotations, appends that wait between their steps, failing
\* steps and crashes lose no acknowledged line.
LockedKept == unlocked \/ AckedKept

\* Until then the rotated log implements its promise: lines only ever move
\* from the log to the archives, each line once.
Promise == INSTANCE RotatedLog WITH Line <- Op, current <- Lines(log),
                                    archives <- archived
KeepsRotatedLog == /\ Promise!Init
                   /\ [][unlocked' \/ Promise!Next]_(Promise!logVars)

\* A rotation ends, and a loop that waits for a lock gets on, even when the
\* holder of the lock is a coroutine of that loop.
RotationEnds == \A r \in Rotator : pc[r] # "idle" ~> pc[r] = "idle"
=============================================================================

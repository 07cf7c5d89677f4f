-------------------------- MODULE LogRotation_proofs --------------------------
(***************************************************************************)
(* What holds of LogRotation for every number of lines, rotators,          *)
(* rotations, faults and crashes: its types, and, until a step has changed *)
(* the log outside its lock, that no acknowledged line is lost and that    *)
(* the rotated log implements its promise.  Where one coroutine rotates    *)
(* for appends only and nothing fails there is no such step.               *)
(***************************************************************************)
EXTENDS LogRotation, TLAPS

USE ConstantsAssumption, BoundsAssumption

\* A missing file has no lines and is no file that exists.
LEMMA NoFileIsNoSet == NoFile \notin SUBSET (Op \cup {Header}) /\ Lines(NoFile) = {}
  BY DEF NoFile, Lines

\* The shape of the files after a line is added or a header written.
LEMMA FilesClosed ==
  /\ {Header} \in Files /\ {} \in Files /\ NoFile \in Files
  /\ \A f \in Files : Created(f) \in SUBSET (Op \cup {Header})
  /\ \A f \in Files, o \in Op : Created(f) \cup {o} \in Files
  /\ \A f \in Files : Lines(f) \in SUBSET Op
<1>1. {Header} \in Files /\ {} \in Files /\ NoFile \in Files
  <2>1. {Header} \subseteq Op \cup {Header} /\ {} \subseteq Op \cup {Header}
    OBVIOUS
  <2>2. {Header} \in SUBSET (Op \cup {Header}) /\ {} \in SUBSET (Op \cup {Header})
    BY <2>1
  <2>3. QED  BY <2>2 DEF Files
<1>2. ASSUME NEW f \in Files
      PROVE  Created(f) \in SUBSET (Op \cup {Header})
  <2>1. CASE f = NoFile
    <3>1. Created(f) = {}
      BY <2>1 DEF Created
    <3>2. QED  BY <3>1
  <2>2. CASE f # NoFile
    <3>1. Created(f) = f
      BY <2>2 DEF Created
    <3>2. f \in SUBSET (Op \cup {Header})
      BY <2>2 DEF Files
    <3>3. QED  BY <3>1, <3>2
  <2>3. QED  BY <2>1, <2>2
<1>3. ASSUME NEW f \in Files, NEW o \in Op
      PROVE  Created(f) \cup {o} \in Files
  BY <1>2 DEF Files
<1>4. \A f \in Files : Lines(f) \in SUBSET Op
  BY DEF Lines
<1>5. QED  BY <1>1, <1>2, <1>3, <1>4

\* The bounded counters stay within their bounds.
LEMMA CountersBounded ==
  ASSUME TypeOK, Calm \/ Fault
  PROVE  faults' \in 0..MaxFaults /\ crashes' \in 0..MaxCrashes
  BY DEF TypeOK, Calm, Fault

\* A failing step either must fail or uses up a fault.
LEMMA FailsBounded ==
  ASSUME NEW c \in BOOLEAN, FailsWhen(c)
  PROVE  Calm \/ Fault
  BY DEF FailsWhen

\* The initial state has the types.
LEMMA TypeInit == Init => TypeOK
<1> SUFFICES ASSUME Init PROVE TypeOK
  OBVIOUS
<1>1. NoFile \in Files
  BY FilesClosed
<1>2. log \in Files /\ parked \in [Name -> Files] /\ backup \in [Rotator -> Files]
  BY <1>1 DEF Init
<1>3. /\ rotations \in 0..MaxRotations /\ faults \in 0..MaxFaults
      /\ crashes \in 0..MaxCrashes
  BY DEF Init
<1>4. pc \in [Rotator -> {"idle", "backup", "temp", "lock", "spin", "archive",
                          "install", "unwind", "rollback", "fallback", "header"}]
  BY DEF Init
<1>5. QED  BY <1>2, <1>3, <1>4 DEF Init, TypeOK

Label == {"idle", "backup", "temp", "lock", "spin", "archive", "install",
          "unwind", "rollback", "fallback", "header"}

\* Going on changes a program counter only.
LEMMA GotoType ==
  ASSUME TypeOK, NEW r \in Rotator, NEW l \in Label, Goto(r, l)
  PROVE  pc' \in [Rotator -> Label]
  BY DEF TypeOK, Goto, Label

\* An exception that leaves rotate_file changes a program counter only.
LEMMA RaisesType ==
  ASSUME TypeOK, NEW r \in Rotator, Raises(r)
  PROVE  pc' \in [Rotator -> Label]
  BY DEF TypeOK, Raises, Goto, Label

\* Appends keep the types.
LEMMA TypeAppend ==
  ASSUME TypeOK, AppendLine
  PROVE  TypeOK'
<1>1. PICK o \in Op : OpenLog(o) \/ WriteLine(o)
  BY DEF AppendLine
<1>2. faults' \in 0..MaxFaults /\ crashes' \in 0..MaxCrashes
  BY <1>1, CountersBounded DEF OpenLog, WriteLine
<1>3. CASE OpenLog(o)
  <2>1. log' \in Files
    BY <1>3, FilesClosed DEF OpenLog, TypeOK, Files
  <2>2. QED  BY <1>2, <1>3, <2>1 DEF OpenLog, TypeOK
<1>4. CASE WriteLine(o)
  <2>1. log' \in Files
    BY <1>4, FilesClosed DEF WriteLine, TypeOK
  <2>2. parked' \in [Name -> Files]
    <3>1. CASE open \in Name
      <4>1. Created(parked[open]) \cup {o} \in Files
        BY <3>1, FilesClosed DEF TypeOK
      <4>2. QED  BY <1>4, <3>1, <4>1 DEF WriteLine, TypeOK
    <3>2. CASE open \notin Name
      BY <1>4, <3>2 DEF WriteLine, TypeOK
    <3>3. QED  BY <3>1, <3>2
  <2>3. QED  BY <1>2, <1>4, <2>1, <2>2 DEF WriteLine, TypeOK
<1>5. QED  BY <1>1, <1>3, <1>4

\* Starting and the steps that succeed keep the types.
LEMMA TypeProceeds ==
  ASSUME TypeOK, NEW r \in Rotator, Refuse(r) \/ Start(r) \/ Proceeds(r)
  PROVE  TypeOK'
<1> USE DEF Label
<1>1. CASE Refuse(r) \/ Start(r)
  <2>1. pc' \in [Rotator -> Label]
    BY <1>1, GotoType, RaisesType DEF Refuse, Start
  <2>2. faults' \in 0..MaxFaults /\ crashes' \in 0..MaxCrashes
    BY <1>1, CountersBounded DEF Refuse, Start
  <2>3. rotations' \in 0..MaxRotations
    BY <1>1 DEF Refuse, Start, TypeOK
  <2>4. QED  BY <1>1, <2>1, <2>2, <2>3 DEF Refuse, Start, TypeOK, fileVars, lineVars
<1>2. CASE Proceeds(r)
  <2>1. pc' \in [Rotator -> Label]
    BY <1>2, GotoType, RaisesType
    DEF Proceeds, BackUp, WriteTemp, TakeLock, Spin, Archive, Unwind, Install,
        Rollback, Fallback, WriteHeader
  <2>2. faults' \in 0..MaxFaults /\ crashes' \in 0..MaxCrashes
    BY <1>2, CountersBounded
    DEF Proceeds, BackUp, WriteTemp, TakeLock, Spin, Archive, Unwind, Install,
        Rollback, Fallback, WriteHeader
  <2>3. UNCHANGED <<rotations, acked, begun>> /\ unlocked' \in BOOLEAN
    BY <1>2
    DEF Proceeds, BackUp, WriteTemp, TakeLock, Spin, Archive, Unwind, Install,
        Rollback, Fallback, WriteHeader, lineVars, OutsideLock, TypeOK
  <2>4. CASE BackUp(r) \/ WriteTemp(r)
    BY <2>1, <2>2, <2>3, <2>4 DEF BackUp, WriteTemp, TypeOK
  <2>5. CASE TakeLock(r) \/ Spin(r)
    BY <2>1, <2>2, <2>3, <2>5 DEF TakeLock, Spin, TypeOK, fileVars
  <2>6. CASE Archive(r)
    BY <2>1, <2>2, <2>3, <2>6, FilesClosed DEF Archive, TypeOK
  <2>7. CASE Unwind(r)
    BY <2>1, <2>2, <2>3, <2>7 DEF Unwind, TypeOK
  <2>8. CASE Install(r) \/ WriteHeader(r)
    BY <2>1, <2>2, <2>3, <2>8, FilesClosed DEF Install, WriteHeader, TypeOK
  <2>9. CASE Rollback(r)
    BY <2>1, <2>2, <2>3, <2>9, FilesClosed DEF Rollback, TypeOK
  <2>10. CASE Fallback(r)
    BY <2>1, <2>2, <2>3, <2>10, FilesClosed DEF Fallback, TypeOK
  <2>11. QED
    BY <1>2, <2>4, <2>5, <2>6, <2>7, <2>8, <2>9, <2>10 DEF Proceeds
<1>3. QED  BY <1>1, <1>2

\* The steps that fail keep the types.
LEMMA TypeFails ==
  ASSUME TypeOK, NEW r \in Rotator, Fails(r)
  PROVE  TypeOK'
<1> USE DEF Label
<1>1. pc' \in [Rotator -> Label]
  BY GotoType, RaisesType
  DEF Fails, BackUpFails, WriteTempFails, OpenFails, TimesOut, ArchiveFails,
      InstallFails, RollbackFails, FallbackFails, WriteHeaderFails
<1>2. faults' \in 0..MaxFaults /\ crashes' \in 0..MaxCrashes
  <2>1. SelfBlocked(r) \in BOOLEAN
    BY DEF SelfBlocked
  <2>2. Calm \/ Fault
    BY <2>1, FailsBounded
    DEF Fails, BackUpFails, WriteTempFails, OpenFails, TimesOut, ArchiveFails,
        InstallFails, RollbackFails, FallbackFails, WriteHeaderFails
  <2>3. QED  BY <2>2, CountersBounded
<1>3. /\ UNCHANGED <<archived, parked, backup, open, acked, begun, rotations>>
      /\ temp' \in {temp, r, Nobody} /\ lock' \in {lock, Nobody}
      /\ log' \in {log, {}, {Header}} /\ unlocked' \in BOOLEAN
  BY DEF TypeOK, OutsideLock, Fails, BackUpFails, WriteTempFails, OpenFails, TimesOut, ArchiveFails,
         InstallFails, RollbackFails, FallbackFails, WriteHeaderFails, fileVars,
         lineVars
<1>4. log' \in Files
  BY <1>3, FilesClosed DEF TypeOK
<1>5. QED  BY <1>1, <1>2, <1>3, <1>4 DEF TypeOK

\* A crash keeps the types.
LEMMA TypeCrash ==
  ASSUME TypeOK, NEW p \in Proc, Crash(p)
  PROVE  TypeOK'
  BY DEF TypeOK, Crash, fileVars, lineVars

\* Every step keeps the types.
LEMMA TypeStep == TypeOK /\ [Next]_vars => TypeOK'
<1>1. ASSUME TypeOK, UNCHANGED vars
      PROVE  TypeOK'
  BY <1>1 DEF TypeOK, vars, fileVars, lineVars
<1>2. QED
  BY <1>1, TypeAppend, TypeProceeds, TypeFails, TypeCrash DEF Next, RotateFile

\* Files hold lines and headers, locks have owners, and every rotation is at
\* a step of rotate_file or of its fallback.
THEOREM TypeCorrect == Spec => []TypeOK
  BY TypeInit, TypeStep, PTL DEF Spec

-----------------------------------------------------------------------------
(* Rotations under the lock.                                                *)

\* The rotation between the rename and the replace has the lock, and nobody
\* makes a new log then.
HoldsLock(r) ==
    /\ pc[r] \in {"archive", "install", "unwind"} <=> lock = r
    /\ pc[r] = "install" => log = NoFile

\* What an append holds, and what has become of the lines.
Appending ==
    /\ lock \in Op => open = "log" /\ log # NoFile /\ lock \in begun \ acked
    /\ acked \subseteq begun
    /\ acked \subseteq Lines(log) \cup archived

\* All of it as long as every step has kept to the lock.
LockInv == TypeOK /\ (\A r \in Rotator : HoldsLock(r)) /\ Appending

\* What a step does to the lines.
PromiseStep == Promise!Next \/ UNCHANGED Promise!logVars

\* The initial state.
LEMMA LockInit == Init => LockInv /\ Promise!Init
<1> SUFFICES ASSUME Init PROVE LockInv /\ Promise!Init
  OBVIOUS
<1>1. \A r \in Rotator : HoldsLock(r)
  BY DEF Init, HoldsLock
<1>2. Appending
  BY DEF Init, Appending
<1>3. Promise!Init
  BY NoFileIsNoSet DEF Init, Promise!Init
<1>4. QED  BY <1>1, <1>2, <1>3, TypeInit DEF LockInv

\* Opening a log for appending makes it exist and leaves its lines.
LEMMA CreatedLines ==
  Created(log) # NoFile /\ Lines(Created(log)) = Lines(log)
<1>1. CASE log = NoFile
  <2>1. Created(log) = {}
    BY <1>1 DEF Created
  <2>2. QED  BY <1>1, <2>1, NoFileIsNoSet DEF Lines
<1>2. CASE log # NoFile
  BY <1>2 DEF Created
<1>3. QED  BY <1>1, <1>2

\* An append opens the log while nobody holds the lock, and adds its line to
\* the file it opened.
LEMMA LockAppend ==
  ASSUME LockInv, TypeOK', AppendLine
  PROVE  LockInv' /\ PromiseStep
<1>1. PICK o \in Op : OpenLog(o) \/ WriteLine(o)
  BY DEF AppendLine
<1>2. CASE OpenLog(o)
  <2>1. log' # NoFile /\ Lines(log') = Lines(log)
    BY <1>2, CreatedLines DEF OpenLog
  <2>2. ASSUME NEW r \in Rotator
        PROVE  HoldsLock(r)'
    BY <1>2, <2>2 DEF OpenLog, LockInv, HoldsLock
  <2>3. Appending'
    BY <1>2, <2>1 DEF OpenLog, LockInv, Appending
  <2>4. UNCHANGED Promise!logVars
    BY <1>2, <2>1 DEF OpenLog, Promise!logVars
  <2>5. QED  BY <2>2, <2>3, <2>4 DEF LockInv, PromiseStep
<1>3. CASE WriteLine(o)
  <2>1. /\ open = "log" /\ log # NoFile /\ o \notin acked /\ o \in begun
        /\ log' = log \cup {o}
    BY <1>3 DEF WriteLine, LockInv, Appending, Created
  <2>2. Lines(log') = Lines(log) \cup {o}
    BY <2>1 DEF Lines
  <2>3. ASSUME NEW r \in Rotator
        PROVE  HoldsLock(r)'
    BY <1>3, <2>1, <2>3 DEF WriteLine, LockInv, HoldsLock
  <2>4. Appending'
    BY <1>3, <2>1, <2>2 DEF WriteLine, LockInv, Appending
  <2>5. Promise!Append(o)
    BY <1>3, <2>1, <2>2 DEF WriteLine, Promise!Append
  <2>6. QED  BY <2>3, <2>4, <2>5 DEF LockInv, PromiseStep, Promise!Next
<1>4. QED  BY <1>1, <1>2, <1>3

\* A step that leaves the files' lines and takes or frees no lock but its own
\* keeps what an append holds.
LEMMA AppendingKept ==
  ASSUME LockInv, UNCHANGED <<log, archived, acked, begun, open>>,
         lock' = lock \/ lock' \notin Op
  PROVE  Appending' /\ PromiseStep
  BY DEF LockInv, Appending, PromiseStep, Promise!logVars

\* The rotation moves the lines while it holds the lock, and puts the new log
\* in the place it left free.
LEMMA LockRotate ==
  ASSUME LockInv, TypeOK', NEW r \in Rotator, RotateFile(r), ~unlocked'
  PROVE  LockInv' /\ PromiseStep
<1> USE DEF Label
<1>1. /\ \A q \in Rotator : HoldsLock(q) /\ q # Nobody /\ q \notin Op
      /\ pc \in [Rotator -> Label] /\ Nobody \notin Op
      /\ ~(Rollback(r) \/ Fallback(r) \/ WriteHeader(r) \/ WriteHeaderFails(r))
  BY DEF LockInv, TypeOK, OutsideLock, Rollback, Fallback, WriteHeader,
         WriteHeaderFails
<1>2. SUFFICES (\A q \in Rotator : HoldsLock(q)') /\ Appending' /\ PromiseStep
  BY DEF LockInv
<1>3. CASE \/ Refuse(r) \/ Start(r) \/ BackUp(r) \/ WriteTemp(r) \/ Spin(r) \/ BackUpFails(r)
           \/ WriteTempFails(r) \/ OpenFails(r) \/ TimesOut(r) \/ ArchiveFails(r)
           \/ RollbackFails(r) \/ FallbackFails(r)
  <2>1. UNCHANGED <<log, archived, acked, begun, open, lock>>
    BY <1>3 DEF Refuse, Start, BackUp, WriteTemp, Spin, BackUpFails, WriteTempFails, OpenFails,
                TimesOut, ArchiveFails, RollbackFails, FallbackFails, fileVars, lineVars
  <2>2. PICK l \in Label : /\ pc' = [pc EXCEPT ![r] = l] /\ l # "install"
                           /\ \/ pc[r] \in {"archive", "unwind"} /\ l = "unwind"
                              \/ /\ pc[r] \notin {"archive", "install", "unwind"}
                                 /\ l \notin {"archive", "unwind"}
    BY <1>3 DEF Refuse, Start, BackUp, WriteTemp, Spin, BackUpFails, WriteTempFails, OpenFails,
                TimesOut, ArchiveFails, RollbackFails, FallbackFails, Goto, Raises, Waits
  <2>3. ASSUME NEW q \in Rotator
        PROVE  HoldsLock(q)'
    BY <1>1, <2>1, <2>2, <2>3 DEF HoldsLock
  <2>4. QED  BY <2>1, <2>3, AppendingKept
<1>4. CASE TakeLock(r)
  <2>1. /\ UNCHANGED <<log, archived, acked, begun, open>>
        /\ lock = Nobody /\ lock' = r /\ pc' = [pc EXCEPT ![r] = "archive"]
    BY <1>4 DEF TakeLock, fileVars, lineVars, Goto
  <2>2. ASSUME NEW q \in Rotator
        PROVE  HoldsLock(q)'
    BY <1>1, <2>1, <2>2 DEF HoldsLock
  <2>3. QED  BY <1>1, <2>1, <2>2, AppendingKept
<1>5. CASE Unwind(r)
  <2>1. /\ UNCHANGED <<log, archived, acked, begun, open>>
        /\ lock = r /\ lock' = Nobody /\ pc' = [pc EXCEPT ![r] = "rollback"]
    BY <1>1, <1>5 DEF Unwind, lineVars, Goto, HoldsLock
  <2>2. ASSUME NEW q \in Rotator
        PROVE  HoldsLock(q)'
    BY <1>1, <2>1, <2>2 DEF HoldsLock
  <2>3. QED  BY <1>1, <2>1, <2>2, AppendingKept
<1>6. CASE Archive(r)
  <2>1. Lines(log') = {} /\ archived' = archived \cup Lines(log)
    BY <1>6, NoFileIsNoSet DEF Archive
  <2>2. lock = r
    BY <1>1, <1>6 DEF Archive, HoldsLock
  <2>3. ASSUME NEW q \in Rotator
        PROVE  HoldsLock(q)'
    BY <1>1, <1>6, <2>2, <2>3 DEF Archive, HoldsLock, Goto
  <2>4. Appending'
    BY <1>1, <1>6, <2>1, <2>2 DEF Archive, LockInv, Appending, lineVars
  <2>5. Promise!Rotate
    BY <1>6, <2>1 DEF Archive, Promise!Rotate, lineVars
  <2>6. QED  BY <2>3, <2>4, <2>5 DEF PromiseStep, Promise!Next
<1>7. CASE Install(r) \/ InstallFails(r)
  <2>1. /\ log = NoFile /\ log' \in {log, {Header}} /\ lock = r /\ lock' = Nobody
        /\ \E l \in {"idle", "rollback"} : pc' = [pc EXCEPT ![r] = l]
        /\ UNCHANGED <<archived, acked, begun, open>>
    BY <1>1, <1>7 DEF Install, InstallFails, HoldsLock, Goto, lineVars
  <2>2. Lines(log) = {} /\ Lines(log') = {}
    BY <2>1, NoFileIsNoSet DEF Lines
  <2>3. ASSUME NEW q \in Rotator
        PROVE  HoldsLock(q)'
    BY <1>1, <2>1, <2>3 DEF HoldsLock
  <2>4. Appending'
    BY <1>1, <2>1, <2>2 DEF LockInv, Appending
  <2>5. UNCHANGED Promise!logVars
    BY <2>1, <2>2 DEF Promise!logVars
  <2>6. QED  BY <2>3, <2>4, <2>5 DEF PromiseStep
<1>8. QED
  BY <1>1, <1>3, <1>4, <1>5, <1>6, <1>7 DEF RotateFile, Proceeds, Fails

\* A rotation that dies has its lines in the archive, or still in the log.
LEMMA LockCrash ==
  ASSUME LockInv, TypeOK', NEW p \in Proc, Crash(p)
  PROVE  LockInv' /\ PromiseStep
<1>1. UNCHANGED <<log, archived, acked, begun, open>>
  BY DEF Crash, fileVars, lineVars
<1>2. ASSUME NEW r \in Rotator
      PROVE  HoldsLock(r)'
  <2>1. HoldsLock(r) /\ r # Nobody
    BY DEF LockInv
  <2>2. CASE ProcOf[r] = p
    BY <1>1, <2>1, <2>2 DEF Crash, HoldsLock
  <2>3. CASE ProcOf[r] # p
    BY <1>1, <2>1, <2>3 DEF Crash, HoldsLock
  <2>4. QED  BY <2>2, <2>3
<1>3. lock' = lock \/ lock' \notin Op
  BY DEF Crash
<1>4. QED  BY <1>1, <1>2, <1>3, AppendingKept DEF LockInv

\* No step takes back that the log has been changed outside its lock.
LEMMA UnlockedStays == unlocked /\ [Next]_vars => unlocked'
  BY DEF Next, vars, lineVars, AppendLine, OpenLog, WriteLine, RotateFile, Refuse,
         Start, Proceeds, BackUp, WriteTemp, TakeLock, Spin, Archive, Unwind,
         Install, Rollback, Fallback, WriteHeader, Fails, BackUpFails,
         WriteTempFails, OpenFails, TimesOut, ArchiveFails, InstallFails,
         RollbackFails, FallbackFails, WriteHeaderFails, Crash, OutsideLock

\* Every step that keeps to the lock keeps the invariant and the promise.
LEMMA LockStep == LockInv /\ [Next]_vars /\ ~unlocked' => LockInv' /\ PromiseStep
<1> SUFFICES ASSUME LockInv, [Next]_vars, ~unlocked'
             PROVE  LockInv' /\ PromiseStep
  OBVIOUS
<1>1. TypeOK'
  BY TypeStep DEF LockInv
<1>2. CASE UNCHANGED vars
  BY <1>1, <1>2 DEF LockInv, HoldsLock, Appending, PromiseStep, Promise!logVars,
                    vars, fileVars, lineVars
<1>3. QED
  BY <1>1, <1>2, LockAppend, LockRotate, LockCrash DEF Next

\* What holds of all the states.
LEMMA LockAlways == Spec => [](unlocked \/ LockInv)
<1>1. Init => unlocked \/ LockInv
  BY LockInit
<1>2. (unlocked \/ LockInv) /\ [Next]_vars => (unlocked \/ LockInv)'
  BY LockStep, UnlockedStays
<1>3. QED  BY <1>1, <1>2, PTL DEF Spec

\* However many coroutines of however many processes rotate the log, fail and
\* die, an acknowledged line is in the log or in an archive until a rollback
\* or a fallback has changed the log: what is done under the lock loses
\* nothing.
THEOREM LockedRotationsLoseNoLine == Spec => []LockedKept
<1>1. unlocked \/ LockInv => LockedKept
  BY DEF LockInv, Appending, AckedKept, Kept, LockedKept
<1>2. QED  BY <1>1, LockAlways, PTL

\* Until then rotation implements its promise: lines move from the log to the
\* archives and nowhere else.
THEOREM ImplementsRotatedLog == Spec => KeepsRotatedLog
<1>1. (unlocked \/ LockInv) /\ [Next]_vars
      => [unlocked' \/ Promise!Next]_(Promise!logVars)
  BY LockStep, UnlockedStays DEF PromiseStep
<1>2. Init => Promise!Init
  BY LockInit
<1>3. QED
  BY <1>1, <1>2, LockAlways, PTL DEF Spec, KeepsRotatedLog

-----------------------------------------------------------------------------
(* One coroutine rotates the log, for appends (rotate_log has the fallback), *)
(* and no step of it fails.                                                 *)

Quiet == MaxFaults = 0 /\ UsesTool = {} /\ \A q, r \in Rotator : q = r

\* Where the rotation is says what it holds, and what it has done to the files.
Holds(r) ==
    /\ pc[r] \in {"idle", "backup", "temp", "lock", "spin", "archive", "install"}
    /\ pc[r] \in {"backup", "temp", "lock", "spin", "archive"} => log # NoFile
    /\ pc[r] \in {"lock", "spin", "archive", "install"} => temp = r
    /\ pc[r] \in {"archive", "install"} <=> lock = r

QuietInv == TypeOK /\ \A r \in Rotator : Holds(r)

\* Without faults only what must fail can fail.
LEMMA NoFaults == Quiet /\ TypeOK => ~Fault
  BY DEF Quiet, TypeOK, Fault

\* An append leaves a log where it writes.
LEMMA QuietAppend ==
  ASSUME QuietInv, AppendLine, NEW r \in Rotator
  PROVE  Holds(r)'
<1>1. PICK o \in Op : OpenLog(o) \/ WriteLine(o)
  BY DEF AppendLine
<1>2. log' = log \/ log' # NoFile
  BY <1>1, CreatedLines DEF OpenLog, WriteLine, NoFile
<1>3. QED
  BY <1>1, <1>2 DEF OpenLog, WriteLine, QuietInv, Holds

\* The rotation goes from step to step, and none of its steps must fail.
LEMMA QuietRotate ==
  ASSUME Quiet, QuietInv, NEW r \in Rotator, RotateFile(r)
  PROVE  Holds(r)'
<1> USE DEF Label
<1>1. /\ Holds(r) /\ ~Fault /\ r # Nobody /\ r \notin Op
      /\ pc \in [Rotator -> Label]
  BY NoFaults DEF QuietInv, TypeOK
<1>2. CASE Refuse(r) \/ Start(r) \/ BackUp(r)
  BY <1>1, <1>2 DEF Refuse, Start, BackUp, Raises, Quiet, fileVars, Holds, Goto
<1>3. CASE WriteTemp(r)
  BY <1>1, <1>3 DEF WriteTemp, Holds, Goto
<1>4. CASE TakeLock(r) \/ Spin(r)
  BY <1>1, <1>4 DEF TakeLock, Spin, Waits, fileVars, Holds, Goto
<1>5. CASE Archive(r)
  BY <1>1, <1>5 DEF Archive, Holds, Goto
<1>6. CASE Install(r)
  BY <1>1, <1>6 DEF Install, Holds, Goto
<1>7. ~(Unwind(r) \/ Rollback(r) \/ Fallback(r) \/ WriteHeader(r))
  BY <1>1 DEF Unwind, Rollback, Fallback, WriteHeader, Holds
<1>8. ~Fails(r)
  <2>1. ~(BackUpFails(r) \/ OpenFails(r) \/ ArchiveFails(r))
    BY <1>1 DEF BackUpFails, OpenFails, ArchiveFails, FailsWhen, Waits, Holds
  <2>2. ~TimesOut(r)
    BY <1>1 DEF TimesOut, FailsWhen, SelfBlocked, Holds, QuietInv, Quiet
  <2>3. ~InstallFails(r)
    BY <1>1 DEF InstallFails, FailsWhen, Holds
  <2>4. ~(WriteTempFails(r) \/ RollbackFails(r) \/ WriteHeaderFails(r))
    BY <1>1 DEF WriteTempFails, RollbackFails, WriteHeaderFails
  <2>5. ~FallbackFails(r)
    BY <1>1 DEF FallbackFails, Holds
  <2>6. QED  BY <2>1, <2>2, <2>3, <2>4, <2>5 DEF Fails
<1>9. QED  BY <1>2, <1>3, <1>4, <1>5, <1>6, <1>7, <1>8 DEF RotateFile, Proceeds

\* A rotation that dies leaves its lock.
LEMMA QuietCrash ==
  ASSUME QuietInv, NEW p \in Proc, Crash(p), NEW r \in Rotator
  PROVE  Holds(r)'
<1>1. Holds(r) /\ r # Nobody /\ UNCHANGED <<log, temp>>
  BY DEF QuietInv, Crash, fileVars
<1>2. CASE ProcOf[r] = p
  BY <1>1, <1>2 DEF Crash, Holds
<1>3. CASE ProcOf[r] # p
  BY <1>1, <1>3 DEF Crash, Holds
<1>4. QED  BY <1>2, <1>3

\* Every step keeps the invariant.
LEMMA QuietStep == Quiet /\ QuietInv /\ [Next]_vars => QuietInv'
<1> SUFFICES ASSUME Quiet, QuietInv, [Next]_vars, NEW r \in Rotator
             PROVE  Holds(r)'
  BY TypeStep DEF QuietInv
<1>1. CASE UNCHANGED vars
  BY <1>1 DEF QuietInv, Holds, vars, fileVars, lineVars
<1>2. ASSUME NEW q \in Rotator, RotateFile(q)
      PROVE  q = r
  BY DEF Quiet
<1>3. QED
  BY <1>1, <1>2, QuietAppend, QuietRotate, QuietCrash DEF Next

\* A step of such a rotation changes the log under the lock.
LEMMA QuietUnderLock ==
  Quiet /\ QuietInv /\ ~unlocked /\ [Next]_vars => ~unlocked'
<1> SUFFICES ASSUME QuietInv, ~unlocked, [Next]_vars PROVE ~unlocked'
  OBVIOUS
<1>1. ASSUME NEW r \in Rotator, RotateFile(r)
      PROVE  ~unlocked'
  <2>1. ~(Rollback(r) \/ Fallback(r) \/ WriteHeader(r) \/ WriteHeaderFails(r))
    BY DEF QuietInv, Holds, Rollback, Fallback, WriteHeader, WriteHeaderFails
  <2>2. QED
    BY <1>1, <2>1
       DEF lineVars, RotateFile, Refuse, Start, Proceeds, BackUp, WriteTemp, TakeLock,
           Spin, Archive, Unwind, Install, Fails, BackUpFails, WriteTempFails,
           OpenFails, TimesOut, ArchiveFails, InstallFails, RollbackFails, FallbackFails
<1>2. QED
  BY <1>1 DEF Next, vars, lineVars, AppendLine, OpenLog, WriteLine, Crash

\* As long as one coroutine rotates, for appends, and no step fails, an
\* acknowledged line is in the log or in an archive, through every step and
\* every crash: empty logs are refused and nothing else changes the log.
THEOREM NoLineLost == Quiet => (Spec => []AckedKept)
<1> SUFFICES ASSUME Quiet PROVE Spec => []AckedKept
  OBVIOUS
<1>1. Init => QuietInv /\ ~unlocked
  BY TypeInit DEF Init, QuietInv, Holds
<1>2. (QuietInv /\ ~unlocked) /\ [Next]_vars => (QuietInv /\ ~unlocked)'
  BY QuietStep, QuietUnderLock
<1>3. (QuietInv /\ ~unlocked) /\ LockedKept => AckedKept
  BY DEF LockedKept
<1>4. QED  BY <1>1, <1>2, <1>3, LockedRotationsLoseNoLine, PTL DEF Spec

=============================================================================

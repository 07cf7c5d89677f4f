----------------------- MODULE DocumentMutations_proofs -----------------------
(***************************************************************************)
(* Theorems of DocumentMutations, for every set of processes, calls and    *)
(* documents, every number of worker threads and every value of the        *)
(* bounds.                                                                 *)
(***************************************************************************)
EXTENDS DocumentMutations, FiniteSetTheorems, TLAPS

(* The locks.                                                               *)

\* What a call holds, and the one lock it may be waiting for.
HandlesKnown(c) ==
  /\ handles[c] \subseteq Targets[c]
  /\ phase[c] = "idle" => handles[c] = {}
  /\ phase[c] \in Critical \cup {"lock", "unlock"} => job[c] # "none"
  /\ job[c] = "filled" => phase[c] \in Writing

LocksKnown(c) ==
  /\ phase[c] \in Critical => \A t \in Targets[c] : holder[t] = c
  /\ phase[c] = "lock" => \E w \in handles[c] :
       holder[w] # c /\ \A d \in handles[c] \ {w} : holder[d] = c

LockInv ==
  /\ TypeOK
  /\ \A c \in Call : HandlesKnown(c)
  /\ \A c \in Call : LocksKnown(c)
  /\ \A d \in Doc : holder[d] # Nobody => d \in handles[holder[d]]
  /\ \A s \in stray : phase[s.call] \in {"unlock", "done"}

LEMMA NextLockIn ==
  ASSUME TypeOK, NEW c \in Call, Targets[c] \ handles[c] # {}
  PROVE  NextLock(c) \in Targets[c] \ handles[c]
<1>1. Targets[c] \ handles[c] \in SUBSET Doc
  BY CallAssumption
<1>2. \E d \in Targets[c] \ handles[c] : \A e \in Targets[c] \ handles[c] : d <= e
  BY <1>1, OrderAssumption
<1>3. QED  BY <1>2 DEF NextLock, Least

LEMMA WantedIn ==
  ASSUME LockInv, NEW c \in Call, phase[c] = "lock"
  PROVE  /\ Wanted(c) \in handles[c] /\ Wanted(c) \in Doc /\ holder[Wanted(c)] # c
         /\ \A d \in handles[c] \ {Wanted(c)} : holder[d] = c
<1>1. PICK w \in handles[c] : holder[w] # c /\ \A d \in handles[c] \ {w} : holder[d] = c
  BY DEF LockInv, LocksKnown
<1>2. Wanted(c) \in handles[c] /\ holder[Wanted(c)] # c
  BY <1>1 DEF Wanted
<1>3. Wanted(c) = w
  BY <1>1, <1>2
<1>4. handles[c] \subseteq Doc
  BY CallAssumption DEF LockInv, HandlesKnown
<1>5. QED  BY <1>1, <1>2, <1>4

LEMMA LockInit == Init => LockInv
<1>1. SUFFICES ASSUME Init PROVE LockInv
  OBVIOUS
<1>2. TypeOK
  BY <1>1 DEF Init, TypeOK, Text, Phase, Job
<1>3. \A c \in Call : HandlesKnown(c) /\ LocksKnown(c)
  BY <1>1 DEF Init, HandlesKnown, LocksKnown, Critical
<1>4. QED  BY <1>1, <1>2, <1>3 DEF Init, LockInv


LEMMA LockBegin == ASSUME LockInv, NEW c \in Call, Begin(c) PROVE LockInv'
<1>0. NextLock(c) \in Targets[c] \ handles[c] /\ Targets[c] \subseteq Doc
  BY CallAssumption, NextLockIn DEF LockInv, HandlesKnown, Begin
<1> HIDE DEF NextLock
<1>1. TypeOK'
  BY <1>0, CallAssumption DEF LockInv, TypeOK, Begin, Step, files, Phase, Job
<1>2. \A x \in Call : HandlesKnown(x)'
  BY <1>0 DEF LockInv, TypeOK, HandlesKnown, Begin, Step
<1>3. \A x \in Call : LocksKnown(x)'
  <2>1. ASSUME NEW x \in Call, x # c PROVE LocksKnown(x)'
    <3>1. /\ phase'[x] = phase[x] /\ handles'[x] = handles[x] /\ holder' = holder
          /\ LocksKnown(x)
      BY <2>1 DEF LockInv, Begin, Step, files
    <3>2. QED  BY <3>1 DEF LocksKnown
  <2>2. LocksKnown(c)'
    <3>1. /\ phase'[c] = "lock" /\ handles'[c] = {NextLock(c)} /\ holder' = holder
          /\ handles[c] = {}
      BY DEF LockInv, TypeOK, HandlesKnown, Begin, Step, files
    <3>2. NextLock(c) \in Doc /\ holder[NextLock(c)] # c
      BY <1>0, NamesAssumption DEF LockInv
    <3>3. QED  BY <3>1, <3>2 DEF LocksKnown, Critical
  <2>3. QED  BY <2>1, <2>2
<1>4. \A d \in Doc : holder'[d] # Nobody => d \in handles'[holder'[d]]
  BY DEF LockInv, HandlesKnown, Begin, files
<1>5. \A r \in stray' : phase'[r.call] \in {"unlock", "done"}
  BY DEF LockInv, Begin, Step
<1>6. QED  BY <1>1, <1>2, <1>3, <1>4, <1>5 DEF LockInv

LEMMA LockStart == ASSUME LockInv, NEW c \in Call, Start(c) PROVE LockInv'
<1>1. TypeOK'
  BY DEF LockInv, TypeOK, Start, files, history, Job
<1>2. \A x \in Call : HandlesKnown(x)'
  BY DEF LockInv, HandlesKnown, Start
<1>3. \A x \in Call : LocksKnown(x)'
  BY DEF LockInv, LocksKnown, Start, files
<1>4. \A d \in Doc : holder'[d] # Nobody => d \in handles'[holder'[d]]
  BY DEF LockInv, Start, files
<1>5. \A r \in stray' : phase'[r.call] \in {"unlock", "done"}
  BY DEF LockInv, Start
<1>6. QED  BY <1>1, <1>2, <1>3, <1>4, <1>5 DEF LockInv

LEMMA LockGrant == ASSUME LockInv, NEW c \in Call, Grant(c) PROVE LockInv'
<1>0. /\ Wanted(c) \in handles[c] /\ Wanted(c) \in Doc
      /\ \A d \in handles[c] \ {Wanted(c)} : holder[d] = c
      /\ handles[c] \subseteq Targets[c] /\ Targets[c] \subseteq Doc
  BY CallAssumption, WantedIn DEF Grant, LockInv, HandlesKnown
<1>01. handles[c] # Targets[c] => NextLock(c) \in Targets[c] \ handles[c]
  BY <1>0, NextLockIn DEF LockInv
<1> DEFINE n == NextLock(c) w == Wanted(c)
<1>02. handles[c] # Targets[c] => n \in Doc /\ holder[n] # c
  BY <1>0, <1>01, NamesAssumption DEF LockInv
<1> HIDE DEF n, w
<1>1. TypeOK'
  <2>1. phase' \in [Call -> Phase] /\ job' \in [Call -> Job]
    BY DEF LockInv, TypeOK, Grant, Enter, Step, Phase, Job, Critical
  <2>2. outcome' \in [Call -> {"none", "ok", "failed", "denied", "refused", "cancelled", "crashed"}]
    BY DEF LockInv, TypeOK, Grant, Enter, End
  <2>3. doc' \in [Doc -> Text] /\ tmp' \in [Doc -> SUBSET Text] /\ read' \in [Call -> Text]
    BY DEF LockInv, TypeOK, Grant
  <2>4. /\ holder' \in [Doc -> Call \cup {Nobody}] /\ handles' \in [Call -> SUBSET Doc]
        /\ barrier' \in BOOLEAN
    BY <1>0, <1>01 DEF LockInv, TypeOK, Grant
  <2>5. /\ stray' \subseteq Stray /\ torn' \subseteq Call /\ grace' \subseteq Call
        /\ seen' \in [Call -> Text] /\ used' \in [{"cancels", "faults", "crashes", "barriers"} -> Nat]
    BY DEF LockInv, TypeOK, Grant, history
  <2>6. QED  BY <2>1, <2>2, <2>3, <2>4, <2>5 DEF TypeOK
<1>2. \A x \in Call : HandlesKnown(x)'
  BY <1>01 DEF LockInv, TypeOK, HandlesKnown, Grant, Enter, Step
<1>3. \A x \in Call : LocksKnown(x)'
  <2>0. holder' = [holder EXCEPT ![w] = c] /\ w \in Doc /\ holder[w] = Nobody
    BY <1>0 DEF Grant, Free, w
  <2>1. ASSUME NEW x \in Call, x # c PROVE LocksKnown(x)'
    <3>1. /\ phase'[x] = phase[x] /\ handles'[x] = handles[x] /\ LocksKnown(x)
      BY <2>1 DEF LockInv, TypeOK, Grant, Enter, Step
    <3>2. \A d \in Doc : (holder[d] = x) = (holder'[d] = x)
      BY <2>0, <2>1, NamesAssumption
    <3>3. Targets[x] \subseteq Doc /\ handles[x] \subseteq Doc
      BY CallAssumption DEF LockInv, TypeOK
    <3>4. QED  BY <3>1, <3>2, <3>3 DEF LocksKnown
  <2>2. \A d \in handles[c] : holder'[d] = c
    BY <1>0, <2>0 DEF LockInv, TypeOK, w
  <2>3. CASE handles[c] = Targets[c]
    <3>1. phase'[c] # "lock"
      BY <2>3 DEF LockInv, TypeOK, Grant, Enter, Step
    <3>2. LocksKnown(c)'
      BY <2>2, <2>3, <3>1 DEF LocksKnown
    <3>3. QED  BY <2>1, <3>2
  <2>4. CASE handles[c] # Targets[c]
    <3>1. phase'[c] = "lock" /\ handles'[c] = handles[c] \cup {n}
      BY <2>4 DEF LockInv, TypeOK, Grant, Step, n
    <3>2. n \notin handles[c] /\ n \in Doc /\ holder[n] # c /\ w \in handles[c]
      BY <1>0, <1>01, <1>02, <2>4 DEF n, w
    <3>3. holder'[n] # c
      BY <2>0, <3>2
    <3>4. LocksKnown(c)'
      BY <2>2, <3>1, <3>3 DEF LocksKnown, Critical
    <3>5. QED  BY <2>1, <3>4
  <2>5. QED  BY <2>3, <2>4
<1>4. \A d \in Doc : holder'[d] # Nobody => d \in handles'[holder'[d]]
  BY <1>0 DEF LockInv, TypeOK, Grant
<1>5. \A r \in stray' : phase'[r.call] \in {"unlock", "done"}
  BY DEF LockInv, TypeOK, Grant, Enter, Step, Stray
<1>6. QED  BY <1>1, <1>2, <1>3, <1>4, <1>5 DEF LockInv

LEMMA LockUnlock == ASSUME LockInv, NEW c \in Call, Unlock(c) PROVE LockInv'
<1>1. TypeOK'
  <2>1. phase' \in [Call -> Phase] /\ job' \in [Call -> Job]
    BY DEF LockInv, TypeOK, Unlock, Step, Phase, Job
  <2>2. holder' \in [Doc -> Call \cup {Nobody}]
    BY DEF LockInv, TypeOK, Unlock
  <2>3. handles' \in [Call -> SUBSET Doc]
    BY DEF LockInv, TypeOK, Unlock
  <2>4. QED  BY <2>1 DEF LockInv, TypeOK, Unlock, history
<1>2. \A x \in Call : HandlesKnown(x)'
  BY DEF LockInv, TypeOK, HandlesKnown, Unlock, Step, Critical
<1>3. \A x \in Call : LocksKnown(x)'
  <2>1. ASSUME NEW x \in Call, x # c PROVE LocksKnown(x)'
    <3>1. /\ phase'[x] = phase[x] /\ handles'[x] = handles[x] /\ LocksKnown(x)
      BY <2>1 DEF LockInv, TypeOK, Unlock, Step
    <3>2. \A d \in Doc : (holder[d] = x) = (holder'[d] = x)
      BY <2>1, NamesAssumption DEF Unlock
    <3>3. Targets[x] \subseteq Doc /\ handles[x] \subseteq Doc
      BY CallAssumption DEF LockInv, TypeOK
    <3>4. QED  BY <3>1, <3>2, <3>3 DEF LocksKnown
  <2>2. phase'[c] \in {"unlock", "done"}
    BY DEF LockInv, TypeOK, Unlock, Step
  <2>3. QED  BY <2>1, <2>2 DEF LocksKnown, Critical
<1>4. \A d \in Doc : holder'[d] # Nobody => d \in handles'[holder'[d]]
  BY DEF LockInv, TypeOK, Unlock
<1>5. \A r \in stray' : phase'[r.call] \in {"unlock", "done"}
  BY DEF LockInv, TypeOK, Unlock, Step, Stray
<1>6. QED  BY <1>1, <1>2, <1>3, <1>4, <1>5 DEF LockInv

LEMMA LockRead == ASSUME LockInv, NEW c \in Call, Read(c) PROVE LockInv'
<1>1. TypeOK'
  <2>1. phase' \in [Call -> Phase] /\ job' \in [Call -> Job]
    BY DEF LockInv, TypeOK, Read, Step, Phase, Job, Critical
  <2>2. outcome' \in [Call -> {"none", "ok", "failed", "denied", "refused", "cancelled", "crashed"}]
    BY DEF LockInv, TypeOK, Read, End
  <2>3. doc' \in [Doc -> Text] /\ tmp' \in [Doc -> SUBSET Text] /\ read' \in [Call -> Text]
    <3>1. Document[c] \in Doc /\ doc[Document[c]] \in Text /\ read[c] \in Text
      BY CallAssumption DEF LockInv, TypeOK
    <3>2. read[c] \cup {c} \in Text
      BY <3>1 DEF Text
    <3>3. QED  BY <3>1 DEF LockInv, TypeOK, Read, files
  <2>4. /\ holder' \in [Doc -> Call \cup {Nobody}] /\ handles' \in [Call -> SUBSET Doc]
        /\ barrier' \in BOOLEAN
    BY DEF LockInv, TypeOK, Read, files
  <2>5. /\ stray' \subseteq Stray /\ torn' \subseteq Call /\ grace' \subseteq Call
        /\ seen' \in [Call -> Text] /\ used' \in [{"cancels", "faults", "crashes", "barriers"} -> Nat]
    BY DEF LockInv, TypeOK, Read, history
  <2>6. QED  BY <2>1, <2>2, <2>3, <2>4, <2>5 DEF TypeOK
<1>2. \A x \in Call : HandlesKnown(x)'
  BY DEF LockInv, TypeOK, HandlesKnown, Read, Step
<1>3. \A x \in Call : LocksKnown(x)'
  BY DEF LockInv, TypeOK, LocksKnown, Read, Step, files, Critical
<1>4. \A d \in Doc : holder'[d] # Nobody => d \in handles'[holder'[d]]
  BY DEF LockInv, Read, files
<1>5. \A r \in stray' : phase'[r.call] \in {"unlock", "done"}
  BY DEF LockInv, TypeOK, Read, Step, Stray
<1>6. QED  BY <1>1, <1>2, <1>3, <1>4, <1>5 DEF LockInv

LEMMA LockReadFails == ASSUME LockInv, NEW c \in Call, ReadFails(c) PROVE LockInv'
<1>1. TypeOK'
  BY DEF LockInv, TypeOK, ReadFails, Spend, Step, End, files, history, Phase, Job
<1>2. \A x \in Call : HandlesKnown(x)'
  BY DEF LockInv, HandlesKnown, ReadFails, Step
<1>3. \A x \in Call : LocksKnown(x)'
  BY DEF LockInv, LocksKnown, ReadFails, Step, files, Critical
<1>4. \A d \in Doc : holder'[d] # Nobody => d \in handles'[holder'[d]]
  BY DEF LockInv, ReadFails, files
<1>5. \A r \in stray' : phase'[r.call] \in {"unlock", "done"}
  BY DEF LockInv, ReadFails, Step
<1>6. QED  BY <1>1, <1>2, <1>3, <1>4, <1>5 DEF LockInv

LEMMA LockBackup == ASSUME LockInv, NEW c \in Call, Backup(c) PROVE LockInv'
<1>1. TypeOK'
  BY DEF LockInv, TypeOK, Backup, Step, files, history, Phase, Job, Critical
<1>2. \A x \in Call : HandlesKnown(x)'
  BY DEF LockInv, HandlesKnown, Backup, Step
<1>3. \A x \in Call : LocksKnown(x)'
  BY DEF LockInv, LocksKnown, Backup, Step, files, Critical
<1>4. \A d \in Doc : holder'[d] # Nobody => d \in handles'[holder'[d]]
  BY DEF LockInv, Backup, files
<1>5. \A r \in stray' : phase'[r.call] \in {"unlock", "done"}
  BY DEF LockInv, Backup, Step
<1>6. QED  BY <1>1, <1>2, <1>3, <1>4, <1>5 DEF LockInv

LEMMA LockBackupFails == ASSUME LockInv, NEW c \in Call, BackupFails(c) PROVE LockInv'
<1>1. TypeOK'
  <2>1. phase' \in [Call -> Phase] /\ job' \in [Call -> Job]
    BY DEF LockInv, TypeOK, BackupFails, Recover, Step, Phase, Job, Critical
  <2>2. outcome' \in [Call -> {"none", "ok", "failed", "denied", "refused", "cancelled", "crashed"}]
    BY DEF LockInv, TypeOK, BackupFails, Recover, End
  <2>3. doc' \in [Doc -> Text] /\ tmp' \in [Doc -> SUBSET Text] /\ read' \in [Call -> Text]
    BY DEF LockInv, TypeOK, BackupFails, files
  <2>4. /\ holder' \in [Doc -> Call \cup {Nobody}] /\ handles' \in [Call -> SUBSET Doc]
        /\ barrier' \in BOOLEAN
    BY DEF LockInv, TypeOK, BackupFails, files
  <2>5. /\ stray' \subseteq Stray /\ torn' \subseteq Call /\ grace' \subseteq Call
        /\ seen' \in [Call -> Text] /\ used' \in [{"cancels", "faults", "crashes", "barriers"} -> Nat]
    BY DEF LockInv, TypeOK, BackupFails, Spend, history
  <2>6. QED  BY <2>1, <2>2, <2>3, <2>4, <2>5 DEF TypeOK
<1>2. \A x \in Call : HandlesKnown(x)'
  BY DEF LockInv, TypeOK, HandlesKnown, BackupFails, Recover, Step
<1>3. \A x \in Call : LocksKnown(x)'
  BY DEF LockInv, TypeOK, LocksKnown, BackupFails, Recover, Step, files, Critical
<1>4. \A d \in Doc : holder'[d] # Nobody => d \in handles'[holder'[d]]
  BY DEF LockInv, BackupFails, files
<1>5. \A r \in stray' : phase'[r.call] \in {"unlock", "done"}
  BY DEF LockInv, TypeOK, BackupFails, Recover, Step, Stray
<1>6. QED  BY <1>1, <1>2, <1>3, <1>4, <1>5 DEF LockInv

LEMMA LockFill == ASSUME LockInv, NEW c \in Call, Fill(c) PROVE LockInv'
<1>1. TypeOK'
  <2>1. phase' \in [Call -> Phase] /\ job' \in [Call -> Job]
    BY DEF LockInv, TypeOK, Fill, Job
  <2>2. outcome' \in [Call -> {"none", "ok", "failed", "denied", "refused", "cancelled", "crashed"}]
    BY DEF LockInv, TypeOK, Fill
  <2>3. doc' \in [Doc -> Text] /\ tmp' \in [Doc -> SUBSET Text] /\ read' \in [Call -> Text]
    <3>1. Document[c] \in Doc /\ doc[Document[c]] \in Text /\ read[c] \in Text
      BY CallAssumption DEF LockInv, TypeOK
    <3>2. read[c] \cup {c} \in Text
      BY <3>1 DEF Text
    <3>3. QED  BY <3>1, <3>2 DEF LockInv, TypeOK, Fill, Written
  <2>4. /\ holder' \in [Doc -> Call \cup {Nobody}] /\ handles' \in [Call -> SUBSET Doc]
        /\ barrier' \in BOOLEAN
    BY DEF LockInv, TypeOK, Fill
  <2>5. /\ stray' \subseteq Stray /\ torn' \subseteq Call /\ grace' \subseteq Call
        /\ seen' \in [Call -> Text] /\ used' \in [{"cancels", "faults", "crashes", "barriers"} -> Nat]
    BY DEF LockInv, TypeOK, Fill, history
  <2>6. QED  BY <2>1, <2>2, <2>3, <2>4, <2>5 DEF TypeOK
<1>2. \A x \in Call : HandlesKnown(x)'
  BY DEF LockInv, HandlesKnown, Fill
<1>3. \A x \in Call : LocksKnown(x)'
  BY DEF LockInv, LocksKnown, Fill
<1>4. \A d \in Doc : holder'[d] # Nobody => d \in handles'[holder'[d]]
  BY DEF LockInv, Fill
<1>5. \A r \in stray' : phase'[r.call] \in {"unlock", "done"}
  BY DEF LockInv, Fill
<1>6. QED  BY <1>1, <1>2, <1>3, <1>4, <1>5 DEF LockInv

LEMMA LockInstall == ASSUME LockInv, NEW c \in Call, Install(c) PROVE LockInv'
<1>1. TypeOK'
  <2>1. phase' \in [Call -> Phase] /\ job' \in [Call -> Job]
    BY DEF LockInv, TypeOK, Install, AfterWrite, Step, Phase, Job, Critical
  <2>2. outcome' \in [Call -> {"none", "ok", "failed", "denied", "refused", "cancelled", "crashed"}]
    BY DEF LockInv, TypeOK, Install, AfterWrite, End
  <2>3. doc' \in [Doc -> Text] /\ tmp' \in [Doc -> SUBSET Text] /\ read' \in [Call -> Text]
    BY CallAssumption DEF LockInv, TypeOK, Install, Replace
  <2>4. /\ holder' \in [Doc -> Call \cup {Nobody}] /\ handles' \in [Call -> SUBSET Doc]
        /\ barrier' \in BOOLEAN
    BY DEF LockInv, TypeOK, Install
  <2>5. /\ stray' \subseteq Stray /\ torn' \subseteq Call /\ grace' \subseteq Call
        /\ seen' \in [Call -> Text] /\ used' \in [{"cancels", "faults", "crashes", "barriers"} -> Nat]
    BY DEF LockInv, TypeOK, Install, history
  <2>6. QED  BY <2>1, <2>2, <2>3, <2>4, <2>5 DEF TypeOK
<1>2. \A x \in Call : HandlesKnown(x)'
  BY DEF LockInv, TypeOK, HandlesKnown, Install, AfterWrite, Step
<1>3. \A x \in Call : LocksKnown(x)'
  BY DEF LockInv, TypeOK, LocksKnown, Install, AfterWrite, Step, Critical, Writing
<1>4. \A d \in Doc : holder'[d] # Nobody => d \in handles'[holder'[d]]
  BY DEF LockInv, Install
<1>5. \A r \in stray' : phase'[r.call] \in {"unlock", "done"}
  BY DEF LockInv, TypeOK, Install, AfterWrite, Step, Stray, Writing
<1>6. QED  BY <1>1, <1>2, <1>3, <1>4, <1>5 DEF LockInv

LEMMA LockWriteFails == ASSUME LockInv, NEW c \in Call, WriteFails(c) PROVE LockInv'
<1>1. TypeOK'
  <2>1. phase' \in [Call -> Phase] /\ job' \in [Call -> Job]
    BY DEF LockInv, TypeOK, WriteFails, AfterWrite, Step, Phase, Job, Critical
  <2>2. outcome' \in [Call -> {"none", "ok", "failed", "denied", "refused", "cancelled", "crashed"}]
    BY DEF LockInv, TypeOK, WriteFails, AfterWrite, End
  <2>3. doc' \in [Doc -> Text] /\ tmp' \in [Doc -> SUBSET Text] /\ read' \in [Call -> Text]
    BY DEF LockInv, TypeOK, WriteFails, Replace, Text
  <2>4. /\ holder' \in [Doc -> Call \cup {Nobody}] /\ handles' \in [Call -> SUBSET Doc]
        /\ barrier' \in BOOLEAN
    BY DEF LockInv, TypeOK, WriteFails
  <2>5. /\ stray' \subseteq Stray /\ torn' \subseteq Call /\ grace' \subseteq Call
        /\ seen' \in [Call -> Text] /\ used' \in [{"cancels", "faults", "crashes", "barriers"} -> Nat]
    BY DEF LockInv, TypeOK, WriteFails, Spend, history
  <2>6. QED  BY <2>1, <2>2, <2>3, <2>4, <2>5 DEF TypeOK
<1>2. \A x \in Call : HandlesKnown(x)'
  BY DEF LockInv, TypeOK, HandlesKnown, WriteFails, AfterWrite, Step
<1>3. \A x \in Call : LocksKnown(x)'
  BY DEF LockInv, TypeOK, LocksKnown, WriteFails, AfterWrite, Step, Critical, Writing
<1>4. \A d \in Doc : holder'[d] # Nobody => d \in handles'[holder'[d]]
  BY DEF LockInv, WriteFails
<1>5. \A r \in stray' : phase'[r.call] \in {"unlock", "done"}
  BY DEF LockInv, TypeOK, WriteFails, AfterWrite, Step, Stray, Writing
<1>6. QED  BY <1>1, <1>2, <1>3, <1>4, <1>5 DEF LockInv

LEMMA LockFileMissing == ASSUME LockInv, NEW c \in Call, FileMissing(c) PROVE LockInv'
<1>1. TypeOK'
  <2>1. phase' \in [Call -> Phase] /\ job' \in [Call -> Job]
    BY DEF LockInv, TypeOK, FileMissing, AfterWrite, Step, Phase, Job, Critical
  <2>2. outcome' \in [Call -> {"none", "ok", "failed", "denied", "refused", "cancelled", "crashed"}]
    BY DEF LockInv, TypeOK, FileMissing, AfterWrite, End
  <2>3. doc' \in [Doc -> Text] /\ tmp' \in [Doc -> SUBSET Text] /\ read' \in [Call -> Text]
    BY DEF LockInv, TypeOK, FileMissing, files
  <2>4. /\ holder' \in [Doc -> Call \cup {Nobody}] /\ handles' \in [Call -> SUBSET Doc]
        /\ barrier' \in BOOLEAN
    BY DEF LockInv, TypeOK, FileMissing, files
  <2>5. /\ stray' \subseteq Stray /\ torn' \subseteq Call /\ grace' \subseteq Call
        /\ seen' \in [Call -> Text] /\ used' \in [{"cancels", "faults", "crashes", "barriers"} -> Nat]
    BY DEF LockInv, TypeOK, FileMissing, history
  <2>6. QED  BY <2>1, <2>2, <2>3, <2>4, <2>5 DEF TypeOK
<1>2. \A x \in Call : HandlesKnown(x)'
  BY DEF LockInv, TypeOK, HandlesKnown, FileMissing, AfterWrite, Step
<1>3. \A x \in Call : LocksKnown(x)'
  BY DEF LockInv, TypeOK, LocksKnown, FileMissing, AfterWrite, Step, files, Critical, Writing
<1>4. \A d \in Doc : holder'[d] # Nobody => d \in handles'[holder'[d]]
  BY DEF LockInv, FileMissing, files
<1>5. \A r \in stray' : phase'[r.call] \in {"unlock", "done"}
  BY DEF LockInv, TypeOK, FileMissing, AfterWrite, Step, Stray, Writing
<1>6. QED  BY <1>1, <1>2, <1>3, <1>4, <1>5 DEF LockInv

LEMMA LockObserve == ASSUME LockInv, NEW c \in Call, Observe(c) PROVE LockInv'
<1>1. TypeOK'
  <2>1. phase' \in [Call -> Phase] /\ job' \in [Call -> Job]
    BY DEF LockInv, TypeOK, Observe, Recover, Step, Phase, Job, Critical
  <2>2. outcome' \in [Call -> {"none", "ok", "failed", "denied", "refused", "cancelled", "crashed"}]
    BY DEF LockInv, TypeOK, Observe, Recover, End
  <2>3. doc' \in [Doc -> Text] /\ tmp' \in [Doc -> SUBSET Text] /\ read' \in [Call -> Text]
    BY DEF LockInv, TypeOK, Observe, files
  <2>4. /\ holder' \in [Doc -> Call \cup {Nobody}] /\ handles' \in [Call -> SUBSET Doc]
        /\ barrier' \in BOOLEAN
    BY DEF LockInv, TypeOK, Observe, files
  <2>5. /\ stray' \subseteq Stray /\ torn' \subseteq Call /\ grace' \subseteq Call
        /\ seen' \in [Call -> Text] /\ used' \in [{"cancels", "faults", "crashes", "barriers"} -> Nat]
    BY DEF LockInv, TypeOK, Observe, history
  <2>6. QED  BY <2>1, <2>2, <2>3, <2>4, <2>5 DEF TypeOK
<1>2. \A x \in Call : HandlesKnown(x)'
  BY DEF LockInv, TypeOK, HandlesKnown, Observe, Recover, Step
<1>3. \A x \in Call : LocksKnown(x)'
  BY DEF LockInv, TypeOK, LocksKnown, Observe, Recover, Step, files, Critical
<1>4. \A d \in Doc : holder'[d] # Nobody => d \in handles'[holder'[d]]
  BY DEF LockInv, Observe, files
<1>5. \A r \in stray' : phase'[r.call] \in {"unlock", "done"}
  BY DEF LockInv, TypeOK, Observe, Recover, Step, Stray
<1>6. QED  BY <1>1, <1>2, <1>3, <1>4, <1>5 DEF LockInv

LEMMA LockVerify == ASSUME LockInv, NEW c \in Call, Verify(c) PROVE LockInv'
<1>1. TypeOK'
  <2>1. phase' \in [Call -> Phase] /\ job' \in [Call -> Job]
    BY DEF LockInv, TypeOK, Verify, Recover, Step, Phase, Job, Critical
  <2>2. outcome' \in [Call -> {"none", "ok", "failed", "denied", "refused", "cancelled", "crashed"}]
    BY DEF LockInv, TypeOK, Verify, Recover, End
  <2>3. doc' \in [Doc -> Text] /\ tmp' \in [Doc -> SUBSET Text] /\ read' \in [Call -> Text]
    BY DEF LockInv, TypeOK, Verify, files
  <2>4. /\ holder' \in [Doc -> Call \cup {Nobody}] /\ handles' \in [Call -> SUBSET Doc]
        /\ barrier' \in BOOLEAN
    BY DEF LockInv, TypeOK, Verify, files
  <2>5. /\ stray' \subseteq Stray /\ torn' \subseteq Call /\ grace' \subseteq Call
        /\ seen' \in [Call -> Text] /\ used' \in [{"cancels", "faults", "crashes", "barriers"} -> Nat]
    BY DEF LockInv, TypeOK, Verify, history
  <2>6. QED  BY <2>1, <2>2, <2>3, <2>4, <2>5 DEF TypeOK
<1>2. \A x \in Call : HandlesKnown(x)'
  BY DEF LockInv, TypeOK, HandlesKnown, Verify, Recover, Step
<1>3. \A x \in Call : LocksKnown(x)'
  BY DEF LockInv, TypeOK, LocksKnown, Verify, Recover, Step, files, Critical
<1>4. \A d \in Doc : holder'[d] # Nobody => d \in handles'[holder'[d]]
  BY DEF LockInv, Verify, files
<1>5. \A r \in stray' : phase'[r.call] \in {"unlock", "done"}
  BY DEF LockInv, TypeOK, Verify, Recover, Step, Stray
<1>6. QED  BY <1>1, <1>2, <1>3, <1>4, <1>5 DEF LockInv

LEMMA LockCheckFails == ASSUME LockInv, NEW c \in Call, CheckFails(c) PROVE LockInv'
<1>1. TypeOK'
  <2>1. phase' \in [Call -> Phase] /\ job' \in [Call -> Job]
    BY DEF LockInv, TypeOK, CheckFails, Recover, Step, Phase, Job, Critical
  <2>2. outcome' \in [Call -> {"none", "ok", "failed", "denied", "refused", "cancelled", "crashed"}]
    BY DEF LockInv, TypeOK, CheckFails, Recover, End
  <2>3. doc' \in [Doc -> Text] /\ tmp' \in [Doc -> SUBSET Text] /\ read' \in [Call -> Text]
    BY DEF LockInv, TypeOK, CheckFails, files
  <2>4. /\ holder' \in [Doc -> Call \cup {Nobody}] /\ handles' \in [Call -> SUBSET Doc]
        /\ barrier' \in BOOLEAN
    BY DEF LockInv, TypeOK, CheckFails, files
  <2>5. /\ stray' \subseteq Stray /\ torn' \subseteq Call /\ grace' \subseteq Call
        /\ seen' \in [Call -> Text] /\ used' \in [{"cancels", "faults", "crashes", "barriers"} -> Nat]
    BY DEF LockInv, TypeOK, CheckFails, Spend, history
  <2>6. QED  BY <2>1, <2>2, <2>3, <2>4, <2>5 DEF TypeOK
<1>2. \A x \in Call : HandlesKnown(x)'
  BY DEF LockInv, TypeOK, HandlesKnown, CheckFails, Recover, Step
<1>3. \A x \in Call : LocksKnown(x)'
  BY DEF LockInv, TypeOK, LocksKnown, CheckFails, Recover, Step, files, Critical
<1>4. \A d \in Doc : holder'[d] # Nobody => d \in handles'[holder'[d]]
  BY DEF LockInv, CheckFails, files
<1>5. \A r \in stray' : phase'[r.call] \in {"unlock", "done"}
  BY DEF LockInv, TypeOK, CheckFails, Recover, Step, Stray
<1>6. QED  BY <1>1, <1>2, <1>3, <1>4, <1>5 DEF LockInv

LEMMA LockCancel == ASSUME LockInv, NEW c \in Call, Cancel(c) PROVE LockInv'
<1>0. phase[c] = "lock" => Wanted(c) \in Doc
  BY WantedIn
<1>01. LeftBy(c) \subseteq Stray
  BY <1>0, CallAssumption DEF LockInv, TypeOK, HandlesKnown, LeftBy, JobOf, Cancel, Stray, Job
<1>1. TypeOK'
  <2>1. phase' \in [Call -> Phase] /\ job' \in [Call -> Job]
    BY DEF LockInv, TypeOK, Cancel, Step, Phase, Job
  <2>2. outcome' \in [Call -> {"none", "ok", "failed", "denied", "refused", "cancelled", "crashed"}]
    BY DEF LockInv, TypeOK, Cancel, End
  <2>3. doc' \in [Doc -> Text] /\ tmp' \in [Doc -> SUBSET Text] /\ read' \in [Call -> Text]
    BY DEF LockInv, TypeOK, Cancel, files
  <2>4. /\ holder' \in [Doc -> Call \cup {Nobody}] /\ handles' \in [Call -> SUBSET Doc]
        /\ barrier' \in BOOLEAN
    BY DEF LockInv, TypeOK, Cancel, files
  <2>5. /\ stray' \subseteq Stray /\ torn' \subseteq Call /\ grace' \subseteq Call
        /\ seen' \in [Call -> Text] /\ used' \in [{"cancels", "faults", "crashes", "barriers"} -> Nat]
    BY <1>01 DEF LockInv, TypeOK, Cancel, Spend
  <2>6. QED  BY <2>1, <2>2, <2>3, <2>4, <2>5 DEF TypeOK
<1>2. \A x \in Call : HandlesKnown(x)'
  BY DEF LockInv, TypeOK, HandlesKnown, Cancel, Step
<1>3. \A x \in Call : LocksKnown(x)'
  BY DEF LockInv, LocksKnown, Cancel, Step, files, Critical
<1>4. \A d \in Doc : holder'[d] # Nobody => d \in handles'[holder'[d]]
  BY DEF LockInv, Cancel, files
<1>5. \A r \in stray' : phase'[r.call] \in {"unlock", "done"}
  BY DEF LockInv, TypeOK, Cancel, LeftBy, JobOf, Step
<1>6. QED  BY <1>1, <1>2, <1>3, <1>4, <1>5 DEF LockInv

LEMMA LockStrayGrant == ASSUME LockInv, NEW s \in stray, StrayGrant(s) PROVE LockInv'
<1>1. TypeOK'
  BY DEF LockInv, TypeOK, StrayGrant, coroutine, history, Stray
<1>2. \A x \in Call : HandlesKnown(x)'
  BY DEF LockInv, HandlesKnown, StrayGrant, coroutine
<1>3. \A x \in Call : LocksKnown(x)'
  <2>1. phase' = phase /\ handles' = handles /\ phase[s.call] \in {"unlock", "done"}
    BY DEF LockInv, StrayGrant, coroutine
  <2>2. ASSUME NEW x \in Call, x # s.call PROVE LocksKnown(x)'
    <3>1. \A d \in Doc : (holder[d] = x) = (holder'[d] = x)
      BY <2>2, NamesAssumption DEF StrayGrant, Free
    <3>2. Targets[x] \subseteq Doc /\ handles[x] \subseteq Doc /\ LocksKnown(x)
      BY CallAssumption DEF LockInv, TypeOK
    <3>3. QED  BY <2>1, <3>1, <3>2 DEF LocksKnown
  <2>3. QED  BY <2>1, <2>2 DEF LocksKnown, Critical
<1>4. \A d \in Doc : holder'[d] # Nobody => d \in handles'[holder'[d]]
  BY DEF LockInv, StrayGrant, coroutine
<1>5. \A r \in stray' : phase'[r.call] \in {"unlock", "done"}
  BY DEF LockInv, StrayGrant, coroutine
<1>6. QED  BY <1>1, <1>2, <1>3, <1>4, <1>5 DEF LockInv

LEMMA LockStrayFill == ASSUME LockInv, NEW s \in stray, StrayFill(s) PROVE LockInv'
<1>1. TypeOK'
  BY DEF LockInv, TypeOK, StrayFill, Written, coroutine, history, Text, Phase, Stray, Critical,
     Writing
<1>2. \A x \in Call : HandlesKnown(x)'
  BY DEF LockInv, HandlesKnown, StrayFill, coroutine
<1>3. \A x \in Call : LocksKnown(x)'
  BY DEF LockInv, LocksKnown, StrayFill, coroutine
<1>4. \A d \in Doc : holder'[d] # Nobody => d \in handles'[holder'[d]]
  BY DEF LockInv, StrayFill, coroutine
<1>5. \A r \in stray' : phase'[r.call] \in {"unlock", "done"}
  BY DEF LockInv, TypeOK, StrayFill, coroutine, Stray
<1>6. QED  BY <1>1, <1>2, <1>3, <1>4, <1>5 DEF LockInv

LEMMA LockStrayInstall == ASSUME LockInv, NEW s \in stray, StrayInstall(s) PROVE LockInv'
<1>1. TypeOK'
  BY DEF LockInv, TypeOK, StrayInstall, Replace, coroutine, history, Phase, Critical, Writing
<1>2. \A x \in Call : HandlesKnown(x)'
  BY DEF LockInv, HandlesKnown, StrayInstall, coroutine
<1>3. \A x \in Call : LocksKnown(x)'
  BY DEF LockInv, LocksKnown, StrayInstall, coroutine
<1>4. \A d \in Doc : holder'[d] # Nobody => d \in handles'[holder'[d]]
  BY DEF LockInv, StrayInstall, coroutine
<1>5. \A r \in stray' : phase'[r.call] \in {"unlock", "done"}
  BY DEF LockInv, StrayInstall, coroutine
<1>6. QED  BY <1>1, <1>2, <1>3, <1>4, <1>5 DEF LockInv

LEMMA LockStrayEnds == ASSUME LockInv, NEW s \in stray, StrayEnds(s) PROVE LockInv'
<1>1. TypeOK'
  BY DEF LockInv, TypeOK, StrayEnds, files, coroutine, history
<1>2. \A x \in Call : HandlesKnown(x)'
  BY DEF LockInv, HandlesKnown, StrayEnds, coroutine
<1>3. \A x \in Call : LocksKnown(x)'
  BY DEF LockInv, LocksKnown, StrayEnds, files, coroutine
<1>4. \A d \in Doc : holder'[d] # Nobody => d \in handles'[holder'[d]]
  BY DEF LockInv, StrayEnds, files, coroutine
<1>5. \A r \in stray' : phase'[r.call] \in {"unlock", "done"}
  BY DEF LockInv, StrayEnds, coroutine
<1>6. QED  BY <1>1, <1>2, <1>3, <1>4, <1>5 DEF LockInv

LEMMA LockCrash == ASSUME LockInv, NEW p \in Process, Crash(p) PROVE LockInv'
<1>1. TypeOK'
  BY DEF LockInv, TypeOK, Crash, Spend, history, Phase, Job
<1>2. \A x \in Call : HandlesKnown(x)'
  BY DEF LockInv, HandlesKnown, Crash, Critical
<1>3. \A x \in Call : LocksKnown(x)'
  <2>1. ASSUME NEW x \in Call PROVE LocksKnown(x)'
    <3>1. CASE phase'[x] = "done"
      BY <3>1 DEF LocksKnown, Critical
    <3>2. CASE phase'[x] # "done"
      <4>1. ~ (Home[x] = p /\ phase[x] \notin {"idle", "done"})
        BY <3>2 DEF Crash
      <4>2. phase'[x] = phase[x] /\ handles'[x] = handles[x] /\ LocksKnown(x)
        BY <4>1 DEF Crash, LockInv
      <4>3. \A d \in Doc : (holder[d] = x) = (holder'[d] = x)
        BY <4>1, NamesAssumption DEF Crash
      <4>4. Targets[x] \subseteq Doc /\ handles[x] \subseteq Doc
        BY CallAssumption DEF LockInv, TypeOK
      <4>5. QED  BY <4>2, <4>3, <4>4 DEF LocksKnown
    <3>3. QED  BY <3>1, <3>2
  <2>2. QED  BY <2>1
<1>4. \A d \in Doc : holder'[d] # Nobody => d \in handles'[holder'[d]]
  BY DEF LockInv, TypeOK, Crash
<1>5. \A r \in stray' : phase'[r.call] \in {"unlock", "done"}
  BY DEF LockInv, TypeOK, Crash, Stray
<1>6. QED  BY <1>1, <1>2, <1>3, <1>4, <1>5 DEF LockInv

LEMMA LockRaiseBarrier == ASSUME LockInv, RaiseBarrier PROVE LockInv'
<1>1. TypeOK'
  BY DEF LockInv, TypeOK, RaiseBarrier, Spend, coroutine, Stray
<1>2. \A x \in Call : HandlesKnown(x)'
  BY DEF LockInv, HandlesKnown, RaiseBarrier, coroutine
<1>3. \A x \in Call : LocksKnown(x)'
  BY DEF LockInv, LocksKnown, RaiseBarrier, coroutine
<1>4. \A d \in Doc : holder'[d] # Nobody => d \in handles'[holder'[d]]
  BY DEF LockInv, RaiseBarrier, coroutine
<1>5. \A r \in stray' : phase'[r.call] \in {"unlock", "done"}
  BY DEF LockInv, RaiseBarrier, coroutine
<1>6. QED  BY <1>1, <1>2, <1>3, <1>4, <1>5 DEF LockInv

LEMMA LockLowerBarrier == ASSUME LockInv, LowerBarrier PROVE LockInv'
<1>1. TypeOK'
  BY DEF LockInv, TypeOK, LowerBarrier, coroutine
<1>2. \A x \in Call : HandlesKnown(x)'
  BY DEF LockInv, HandlesKnown, LowerBarrier, coroutine
<1>3. \A x \in Call : LocksKnown(x)'
  BY DEF LockInv, LocksKnown, LowerBarrier, coroutine
<1>4. \A d \in Doc : holder'[d] # Nobody => d \in handles'[holder'[d]]
  BY DEF LockInv, LowerBarrier, coroutine
<1>5. \A r \in stray' : phase'[r.call] \in {"unlock", "done"}
  BY DEF LockInv, LowerBarrier, coroutine
<1>6. QED  BY <1>1, <1>2, <1>3, <1>4, <1>5 DEF LockInv


-----------------------------------------------------------------------------
LEMMA LockStep == LockInv /\ [Next]_vars => LockInv'
<1>1. SUFFICES ASSUME LockInv, [Next]_vars PROVE LockInv'
  OBVIOUS
<1>2. CASE UNCHANGED vars
  BY <1>1, <1>2 DEF LockInv, TypeOK, HandlesKnown, LocksKnown, vars, files, coroutine, history
<1>3. CASE \E c \in Call : Begin(c) \/ Start(c) \/ Works(c) \/ Fails(c) \/ Cancel(c)
  BY <1>1, <1>3, LockBegin, LockStart, LockGrant, LockUnlock, LockRead, LockReadFails, LockBackup,
     LockBackupFails, LockFill, LockInstall, LockWriteFails, LockFileMissing, LockObserve,
     LockVerify, LockCheckFails, LockCancel DEF Works, Fails
<1>4. CASE \E s \in stray : GoesOn(s)
  BY <1>1, <1>4, LockStrayGrant, LockStrayFill, LockStrayInstall, LockStrayEnds DEF GoesOn
<1>5. CASE (\E p \in Process : Crash(p)) \/ RaiseBarrier \/ LowerBarrier
  BY <1>1, <1>5, LockCrash, LockRaiseBarrier, LockLowerBarrier
<1>6. QED  BY <1>1, <1>2, <1>3, <1>4, <1>5 DEF Next

\* Every variable keeps to its type, for every instance of the model.
THEOREM TypeCorrect == Spec => []TypeOK
<1>1. LockInv => TypeOK
  BY DEF LockInv
<1>2. QED  BY LockInit, LockStep, <1>1, PTL DEF Spec

\* Two calls that are past the lock of one document are the same call.
LEMMA OneMutator ==
  ASSUME LockInv, NEW c \in Call, NEW x \in Call, phase[c] \in Critical, phase[x] \in Critical,
         Document[x] = Document[c]
  PROVE  x = c
  BY CallAssumption DEF LockInv, LocksKnown

-----------------------------------------------------------------------------
(* The text of a document while a call is between its read and its end.     *)

Past == Critical \ {"read"}

Acked(d) == {x \in Call : outcome[x] = "ok" /\ Document[x] = d}

\* A call has read all that was acknowledged, and only its own change has come since.
Knows(c) ==
  phase[c] \in Past =>
    /\ Acked(Document[c]) \subseteq read[c] /\ c \notin read[c]
    /\ doc[Document[c]] \in {read[c], read[c] \cup {c}}
    /\ phase[c] = "verify" => doc[Document[c]] = read[c] \cup {c}
    /\ job[c] = "filled" => tmp[Document[c]] = {Written(c, phase[c])}
    /\ phase[c] \in {"observe", "undo"} => used["faults"] >= 1
    /\ c \in Conditional => read[c] = seen[c]

\* Nobody has the change of call c.
Absent(c) ==
  /\ c \notin doc[Document[c]]
  /\ \A x \in Call : Document[x] = Document[c] /\ phase[x] \in Past => c \notin read[x]

Unwritten(c) ==
  \/ phase[c] \in {"idle", "lock", "read", "backup"}
  \/ outcome[c] \in {"denied", "refused"}
  \/ outcome[c] = "failed" /\ read[c] # {} /\ used["faults"] <= 1

TextInv ==
  /\ LockInv
  /\ \A s \in stray : s.phase \in Writing => s.call \in torn
  /\ \A c \in Call : phase[c] \in Critical \cup {"idle", "lock"} => outcome[c] = "none"
  /\ \A c \in Call : torn = {} => Knows(c)
  /\ \A c \in Call : torn = {} /\ Unwritten(c) => Absent(c)
  /\ KeepsAcked

LEMMA TextInit == Init => TextInv
<1>1. SUFFICES ASSUME Init PROVE TextInv
  OBVIOUS
<1>2. \A c \in Call : Knows(c) /\ Absent(c)
  BY <1>1, CallAssumption DEF Init, Knows, Absent, Past, Critical
<1>3. QED  BY <1>1, <1>2, LockInit DEF Init, TextInv, KeepsAcked


LEMMA TextBegin == ASSUME TextInv, NEW c \in Call, Begin(c) PROVE TextInv'
<1>1. LockInv /\ LockInv' /\ (torn' = {} => torn = {})
  BY LockBegin DEF TextInv, Begin
<1>2. \A r \in stray' : r.phase \in Writing => r.call \in torn'
  BY DEF TextInv, Begin
<1>3. \A x \in Call : phase'[x] \in Critical \cup {"idle", "lock"} => outcome'[x] = "none"
  BY DEF TextInv, Begin, Step
<1>4. ASSUME torn' = {}, NEW x \in Call PROVE Knows(x)'
  BY <1>4, CallAssumption DEF TextInv, Knows, Acked, Begin, Step, files, Critical, Past, Written
<1>5. ASSUME torn' = {}, NEW x \in Call, Unwritten(x)' PROVE Absent(x)'
  BY <1>5 DEF TextInv, Unwritten, Absent, Begin, Step, files, Critical, Past
<1>6. KeepsAcked'
  BY DEF TextInv, KeepsAcked, Begin, files
<1>7. QED  BY <1>1, <1>2, <1>3, <1>4, <1>5, <1>6 DEF TextInv

LEMMA TextStart == ASSUME TextInv, NEW c \in Call, Start(c) PROVE TextInv'
<1>1. LockInv /\ LockInv' /\ (torn' = {} => torn = {})
  BY LockStart DEF TextInv, Start, history
<1>2. \A r \in stray' : r.phase \in Writing => r.call \in torn'
  BY DEF TextInv, Start, history
<1>3. \A x \in Call : phase'[x] \in Critical \cup {"idle", "lock"} => outcome'[x] = "none"
  BY DEF TextInv, Start
<1>4. ASSUME torn' = {}, NEW x \in Call PROVE Knows(x)'
  BY <1>4, CallAssumption DEF TextInv, Knows, Acked, Start, files, history, Written
<1>5. ASSUME torn' = {}, NEW x \in Call, Unwritten(x)' PROVE Absent(x)'
  BY <1>1, <1>5 DEF TextInv, Unwritten, Absent, Start, files
<1>6. KeepsAcked'
  BY <1>1 DEF TextInv, KeepsAcked, Start, files
<1>7. QED  BY <1>1, <1>2, <1>3, <1>4, <1>5, <1>6 DEF TextInv

LEMMA TextGrant == ASSUME TextInv, NEW c \in Call, Grant(c) PROVE TextInv'
<1>1. LockInv /\ LockInv' /\ (torn' = {} => torn = {})
  BY LockGrant DEF TextInv, Grant, history
<1>2. \A r \in stray' : r.phase \in Writing => r.call \in torn'
  BY DEF TextInv, Grant, history
<1>3. \A x \in Call : phase'[x] \in Critical \cup {"idle", "lock"} => outcome'[x] = "none"
  BY DEF TextInv, Grant, Enter, Step, End, LockInv, TypeOK, Critical
<1>4. ASSUME torn' = {}, NEW x \in Call PROVE Knows(x)'
  BY <1>4, CallAssumption DEF TextInv, Knows, Acked, Grant, Enter, Step, End, history, LockInv,
     TypeOK, Critical, Past, Written
<1>5. ASSUME torn' = {}, NEW x \in Call, Unwritten(x)' PROVE Absent(x)'
  BY <1>5 DEF TextInv, Unwritten, Absent, Grant, Enter, Step, End, history, LockInv, TypeOK,
     HandlesKnown, Critical, Past, Written
<1>6. KeepsAcked'
  BY <1>1 DEF TextInv, KeepsAcked, Grant, Enter, End, LockInv, TypeOK
<1>7. QED  BY <1>1, <1>2, <1>3, <1>4, <1>5, <1>6 DEF TextInv

LEMMA TextUnlock == ASSUME TextInv, NEW c \in Call, Unlock(c) PROVE TextInv'
<1>1. LockInv /\ LockInv' /\ (torn' = {} => torn = {})
  BY LockUnlock DEF TextInv, Unlock, history
<1>2. \A r \in stray' : r.phase \in Writing => r.call \in torn'
  BY DEF TextInv, Unlock, history
<1>3. \A x \in Call : phase'[x] \in Critical \cup {"idle", "lock"} => outcome'[x] = "none"
  BY <1>1 DEF TextInv, Unlock, Step, LockInv, TypeOK, HandlesKnown
<1>4. ASSUME torn' = {}, NEW x \in Call PROVE Knows(x)'
  BY <1>1, <1>4, CallAssumption DEF TextInv, Knows, Acked, Unlock, Step, history, LockInv, TypeOK,
     HandlesKnown, Past, Written
<1>5. ASSUME torn' = {}, NEW x \in Call, Unwritten(x)' PROVE Absent(x)'
  BY <1>1, <1>5, OneMutator, CallAssumption DEF TextInv, Unwritten, Absent, Unlock, Step, LockInv,
     TypeOK, Critical, Past
<1>6. KeepsAcked'
  BY <1>1 DEF TextInv, KeepsAcked, Unlock
<1>7. QED  BY <1>1, <1>2, <1>3, <1>4, <1>5, <1>6 DEF TextInv

LEMMA TextRead == ASSUME TextInv, NEW c \in Call, Read(c) PROVE TextInv'
<1>1. LockInv /\ LockInv' /\ (torn' = {} => torn = {})
  BY LockRead DEF TextInv, Read, history
<1>2. \A r \in stray' : r.phase \in Writing => r.call \in torn'
  BY DEF TextInv, Read, history
<1>3. \A x \in Call : phase'[x] \in Critical \cup {"idle", "lock"} => outcome'[x] = "none"
  BY DEF TextInv, Read, Step, End, LockInv, TypeOK, Critical
<1>4. ASSUME torn' = {}, NEW x \in Call PROVE Knows(x)'
  <2>1. /\ doc' = doc /\ tmp' = tmp /\ seen' = seen /\ used' = used /\ phase[c] = "read"
        /\ read' = [read EXCEPT ![c] = doc[Document[c]]] /\ torn = {}
        /\ \A y \in Call : outcome'[y] = "ok" => outcome[y] = "ok"
    BY <1>1, <1>4 DEF Read, End, files, history, LockInv, TypeOK
  <2>2. CASE x # c
    <3>1. phase'[x] = phase[x] /\ job'[x] = job[x] /\ read'[x] = read[x]
      BY <1>1, <2>2 DEF Read, Step, LockInv, TypeOK
    <3>2. QED
      BY <2>1, <3>1 DEF TextInv, Knows, Acked, Written
  <2>3. CASE x = c
    <3>1. CASE ~ Matches(c)
      BY <1>1, <2>3, <3>1 DEF Read, Step, LockInv, TypeOK, Knows, Past, Critical
    <3>2. CASE Matches(c)
      <4>1. phase'[c] \in {"backup", "write"} /\ job'[c] = "queued" /\ read'[c] = doc[Document[c]]
        BY <1>1, <3>2 DEF Read, Step, LockInv, TypeOK
      <4>2. c \notin doc[Document[c]]
        BY <2>1 DEF TextInv, Unwritten, Absent
      <4>3. \A y \in Call : outcome'[y] = "ok" => y \in doc[Document[y]]
        BY <2>1 DEF TextInv, KeepsAcked
      <4>4. c \in Conditional => read'[c] = seen'[c]
        BY <2>1, <3>2, <4>1 DEF Matches
      <4>5. QED  BY <2>1, <2>3, <4>1, <4>2, <4>3, <4>4 DEF Knows, Acked
    <3>3. QED  BY <3>1, <3>2
  <2>4. QED  BY <2>2, <2>3
<1>5. ASSUME torn' = {}, NEW x \in Call, Unwritten(x)' PROVE Absent(x)'
  BY <1>1, <1>5 DEF TextInv, Unwritten, Absent, Read, Step, End, files, LockInv, TypeOK
<1>6. KeepsAcked'
  BY <1>1 DEF TextInv, KeepsAcked, Read, End, files, LockInv, TypeOK
<1>7. QED  BY <1>1, <1>2, <1>3, <1>4, <1>5, <1>6 DEF TextInv

LEMMA TextReadFails == ASSUME TextInv, NEW c \in Call, ReadFails(c) PROVE TextInv'
<1>1. LockInv /\ LockInv' /\ (torn' = {} => torn = {})
  BY LockReadFails DEF TextInv, ReadFails, history
<1>2. \A r \in stray' : r.phase \in Writing => r.call \in torn'
  BY DEF TextInv, ReadFails, history
<1>3. \A x \in Call : phase'[x] \in Critical \cup {"idle", "lock"} => outcome'[x] = "none"
  BY DEF TextInv, ReadFails, Step, End, LockInv, TypeOK, Critical
<1>4. ASSUME torn' = {}, NEW x \in Call PROVE Knows(x)'
  BY <1>1, <1>4, CallAssumption DEF TextInv, Knows, Acked, ReadFails, Spend, Step, End, files,
     history, LockInv, TypeOK, Critical, Past, Written
<1>5. ASSUME torn' = {}, NEW x \in Call, Unwritten(x)' PROVE Absent(x)'
  BY <1>5 DEF TextInv, Unwritten, Absent, ReadFails, Spend, Step, End, files, history, LockInv,
     TypeOK, Critical, Past
<1>6. KeepsAcked'
  BY <1>1 DEF TextInv, KeepsAcked, ReadFails, End, files
<1>7. QED  BY <1>1, <1>2, <1>3, <1>4, <1>5, <1>6 DEF TextInv

LEMMA TextBackup == ASSUME TextInv, NEW c \in Call, Backup(c) PROVE TextInv'
<1>1. LockInv /\ LockInv' /\ (torn' = {} => torn = {})
  BY LockBackup DEF TextInv, Backup, history
<1>2. \A r \in stray' : r.phase \in Writing => r.call \in torn'
  BY DEF TextInv, Backup, history
<1>3. \A x \in Call : phase'[x] \in Critical \cup {"idle", "lock"} => outcome'[x] = "none"
  BY DEF TextInv, Backup, Step, Critical
<1>4. ASSUME torn' = {}, NEW x \in Call PROVE Knows(x)'
  BY <1>4 DEF TextInv, Knows, Acked, Backup, Step, files, history, Critical, Past, Written
<1>5. ASSUME torn' = {}, NEW x \in Call, Unwritten(x)' PROVE Absent(x)'
  BY <1>1, <1>5 DEF TextInv, Unwritten, Absent, Backup, Step, files, Critical, Past
<1>6. KeepsAcked'
  BY <1>1 DEF TextInv, KeepsAcked, Backup, files
<1>7. QED  BY <1>1, <1>2, <1>3, <1>4, <1>5, <1>6 DEF TextInv

LEMMA TextBackupFails == ASSUME TextInv, NEW c \in Call, BackupFails(c) PROVE TextInv'
<1>1. LockInv /\ LockInv' /\ (torn' = {} => torn = {})
  BY LockBackupFails DEF TextInv, BackupFails, history
<1>2. \A r \in stray' : r.phase \in Writing => r.call \in torn'
  BY DEF TextInv, BackupFails, history
<1>3. \A x \in Call : phase'[x] \in Critical \cup {"idle", "lock"} => outcome'[x] = "none"
  BY DEF TextInv, BackupFails, Recover, Step, End, LockInv, TypeOK, Critical
<1>4. ASSUME torn' = {}, NEW x \in Call PROVE Knows(x)'
  BY <1>4, CallAssumption DEF TextInv, Knows, Acked, BackupFails, Recover, Spend, Step, End, files,
     history, LockInv, TypeOK, Critical, Past, Written
<1>5. ASSUME torn' = {}, NEW x \in Call, Unwritten(x)' PROVE Absent(x)'
  BY <1>5 DEF TextInv, Unwritten, Absent, BackupFails, Recover, Spend, Step, End, files, history,
     LockInv, TypeOK, HandlesKnown, Critical, Past, Written
<1>6. KeepsAcked'
  BY <1>1 DEF TextInv, KeepsAcked, BackupFails, Recover, End, files, LockInv, TypeOK
<1>7. QED  BY <1>1, <1>2, <1>3, <1>4, <1>5, <1>6 DEF TextInv

LEMMA TextFill == ASSUME TextInv, NEW c \in Call, Fill(c) PROVE TextInv'
<1>1. LockInv /\ LockInv' /\ (torn' = {} => torn = {})
  BY LockFill DEF TextInv, Fill, history
<1>2. \A r \in stray' : r.phase \in Writing => r.call \in torn'
  BY DEF TextInv, Fill, history
<1>3. \A x \in Call : phase'[x] \in Critical \cup {"idle", "lock"} => outcome'[x] = "none"
  BY DEF TextInv, Fill
<1>4. ASSUME torn' = {}, NEW x \in Call PROVE Knows(x)'
  BY <1>1, <1>4, OneMutator, CallAssumption DEF TextInv, Knows, Acked, Fill, history, LockInv,
     TypeOK, HandlesKnown, Critical, Writing, Written
<1>5. ASSUME torn' = {}, NEW x \in Call, Unwritten(x)' PROVE Absent(x)'
  BY <1>1, <1>5 DEF TextInv, Unwritten, Absent, Fill
<1>6. KeepsAcked'
  BY <1>1 DEF TextInv, KeepsAcked, Fill
<1>7. QED  BY <1>1, <1>2, <1>3, <1>4, <1>5, <1>6 DEF TextInv

LEMMA TextInstall == ASSUME TextInv, NEW c \in Call, Install(c) PROVE TextInv'
<1>1. LockInv /\ LockInv' /\ (torn' = {} => torn = {})
  BY LockInstall DEF TextInv, Install, history
<1>2. \A r \in stray' : r.phase \in Writing => r.call \in torn'
  BY DEF TextInv, Install, history
<1>3. \A x \in Call : phase'[x] \in Critical \cup {"idle", "lock"} => outcome'[x] = "none"
  BY DEF TextInv, Install, AfterWrite, Step, End, LockInv, TypeOK, Critical, Writing
<1>4. ASSUME torn' = {}, NEW x \in Call PROVE Knows(x)'
  BY <1>4, OneMutator, CallAssumption DEF TextInv, Knows, Acked, Install, Replace, AfterWrite, Step,
     End, history, LockInv, TypeOK, Critical, Writing, Past, Written
<1>5. ASSUME torn' = {}, NEW x \in Call, Unwritten(x)' PROVE Absent(x)'
  BY <1>1, <1>5, OneMutator DEF TextInv, Unwritten, Absent, Knows, Install, Replace, AfterWrite,
     Step, End, files, coroutine, history, LockInv, TypeOK, HandlesKnown, Critical, Writing, Past,
     Written
<1>6. KeepsAcked'
  BY <1>1 DEF TextInv, KeepsAcked, Knows, Acked, Install, Replace, AfterWrite, Step, End, LockInv,
     TypeOK, Critical, Writing, Past, Written
<1>7. QED  BY <1>1, <1>2, <1>3, <1>4, <1>5, <1>6 DEF TextInv

LEMMA TextWriteFails == ASSUME TextInv, NEW c \in Call, WriteFails(c) PROVE TextInv'
<1>1. LockInv /\ LockInv' /\ (torn' = {} => torn = {})
  BY LockWriteFails DEF TextInv, WriteFails, history
<1>2. \A r \in stray' : r.phase \in Writing => r.call \in torn'
  BY DEF TextInv, WriteFails, history
<1>3. \A x \in Call : phase'[x] \in Critical \cup {"idle", "lock"} => outcome'[x] = "none"
  BY DEF TextInv, WriteFails, AfterWrite, Step, End, LockInv, TypeOK, Critical, Writing
<1>4. ASSUME torn' = {}, NEW x \in Call PROVE Knows(x)'
  BY <1>4, OneMutator, CallAssumption DEF TextInv, Knows, Acked, WriteFails, Replace, AfterWrite,
     Spend, Step, End, history, LockInv, TypeOK, Critical, Writing, Past, Written
<1>5. ASSUME torn' = {}, NEW x \in Call, Unwritten(x)' PROVE Absent(x)'
  BY <1>1, <1>5, OneMutator, CallAssumption, SMTT(30) DEF TextInv, Unwritten, Absent, Knows, WriteFails,
     Replace, AfterWrite, Spend, Step, End, files, coroutine, history, LockInv, TypeOK,
     HandlesKnown, Critical, Writing, Past, Written
<1>6. KeepsAcked'
  BY CallAssumption DEF TextInv, KeepsAcked, Knows, WriteFails, Replace, AfterWrite, End, history,
     LockInv, TypeOK, Critical, Writing, Past, Written
<1>7. QED  BY <1>1, <1>2, <1>3, <1>4, <1>5, <1>6 DEF TextInv

LEMMA TextFileMissing == ASSUME TextInv, NEW c \in Call, FileMissing(c) PROVE TextInv'
<1>1. LockInv /\ LockInv' /\ (torn' = {} => torn = {})
  BY LockFileMissing DEF TextInv, FileMissing, history
<1>2. \A r \in stray' : r.phase \in Writing => r.call \in torn'
  BY DEF TextInv, FileMissing, history
<1>3. \A x \in Call : phase'[x] \in Critical \cup {"idle", "lock"} => outcome'[x] = "none"
  BY DEF TextInv, FileMissing, AfterWrite, Step, End, LockInv, TypeOK, Critical, Writing
<1>4. torn' # {}
  <2>1. torn' = torn /\ phase[c] \in Past /\ job[c] = "filled" /\ tmp[Document[c]] = {}
    BY DEF FileMissing, history, Writing, Past, Critical
  <2>2. torn = {} => tmp[Document[c]] = {Written(c, phase[c])}
    BY <2>1 DEF TextInv, Knows
  <2>3. QED  BY <2>1, <2>2
<1>6. KeepsAcked'
  BY <1>4 DEF KeepsAcked
<1>7. QED  BY <1>1, <1>2, <1>3, <1>4, <1>6 DEF TextInv

LEMMA TextObserve == ASSUME TextInv, NEW c \in Call, Observe(c) PROVE TextInv'
<1>1. LockInv /\ LockInv' /\ (torn' = {} => torn = {})
  BY LockObserve DEF TextInv, Observe, history
<1>2. \A r \in stray' : r.phase \in Writing => r.call \in torn'
  BY DEF TextInv, Observe, history
<1>3. \A x \in Call : phase'[x] \in Critical \cup {"idle", "lock"} => outcome'[x] = "none"
  BY DEF TextInv, Observe, Recover, Step, End, LockInv, TypeOK, Critical
<1>4. ASSUME torn' = {}, NEW x \in Call PROVE Knows(x)'
  BY <1>4, CallAssumption DEF TextInv, Knows, Acked, Observe, Recover, InPlace, Step, End, files,
     history, LockInv, TypeOK, Critical, Past, Written
<1>5. ASSUME torn' = {}, NEW x \in Call, Unwritten(x)' PROVE Absent(x)'
  BY <1>1, <1>5 DEF TextInv, Unwritten, Absent, Observe, Recover, InPlace, Step, End, files,
     LockInv, TypeOK, Critical, Past
<1>6. KeepsAcked'
  BY <1>1 DEF TextInv, KeepsAcked, Observe, Recover, End, files, LockInv, TypeOK
<1>7. QED  BY <1>1, <1>2, <1>3, <1>4, <1>5, <1>6 DEF TextInv

LEMMA TextVerify == ASSUME TextInv, NEW c \in Call, Verify(c) PROVE TextInv'
<1>1. LockInv /\ LockInv' /\ (torn' = {} => torn = {})
  BY LockVerify DEF TextInv, Verify, history
<1>2. \A r \in stray' : r.phase \in Writing => r.call \in torn'
  BY DEF TextInv, Verify, history
<1>3. \A x \in Call : phase'[x] \in Critical \cup {"idle", "lock"} => outcome'[x] = "none"
  BY DEF TextInv, Verify, Recover, Step, End, LockInv, TypeOK, Critical
<1>4. ASSUME torn' = {}, NEW x \in Call PROVE Knows(x)'
  BY <1>4, CallAssumption DEF TextInv, Knows, Acked, Verify, InPlace, Step, End, files, history,
     LockInv, TypeOK, Critical, Past, Written
<1>5. ASSUME torn' = {}, NEW x \in Call, Unwritten(x)' PROVE Absent(x)'
  BY <1>5 DEF TextInv, Unwritten, Absent, Verify, Recover, Step, End, files, history, LockInv,
     TypeOK, Critical, Past, Written
<1>6. KeepsAcked'
  BY <1>1 DEF TextInv, KeepsAcked, Knows, Verify, Recover, End, files, LockInv, TypeOK, Critical,
     Past
<1>7. QED  BY <1>1, <1>2, <1>3, <1>4, <1>5, <1>6 DEF TextInv

LEMMA TextCheckFails == ASSUME TextInv, NEW c \in Call, CheckFails(c) PROVE TextInv'
<1>1. LockInv /\ LockInv' /\ (torn' = {} => torn = {})
  BY LockCheckFails DEF TextInv, CheckFails, history
<1>2. \A r \in stray' : r.phase \in Writing => r.call \in torn'
  BY DEF TextInv, CheckFails, history
<1>3. \A x \in Call : phase'[x] \in Critical \cup {"idle", "lock"} => outcome'[x] = "none"
  BY DEF TextInv, CheckFails, Recover, Step, End, LockInv, TypeOK, Critical
<1>4. ASSUME torn' = {}, NEW x \in Call PROVE Knows(x)'
  BY <1>4, CallAssumption DEF TextInv, Knows, Acked, CheckFails, Recover, Spend, Step, End, files,
     history, LockInv, TypeOK, Critical, Past, Written
<1>5. ASSUME torn' = {}, NEW x \in Call, Unwritten(x)' PROVE Absent(x)'
  BY <1>1, <1>5, CallAssumption DEF TextInv, Unwritten, Absent, Knows, CheckFails, Recover, Spend,
     Step, End, files, LockInv, TypeOK, HandlesKnown, Critical, Writing, Past
<1>6. KeepsAcked'
  BY <1>1 DEF TextInv, KeepsAcked, CheckFails, Recover, End, files, LockInv, TypeOK
<1>7. QED  BY <1>1, <1>2, <1>3, <1>4, <1>5, <1>6 DEF TextInv

LEMMA TextCancel == ASSUME TextInv, NEW c \in Call, Cancel(c) PROVE TextInv'
<1>1. LockInv /\ LockInv' /\ (torn' = {} => torn = {})
  BY LockCancel DEF TextInv, Cancel
<1>2. \A r \in stray' : r.phase \in Writing => r.call \in torn'
  BY DEF TextInv, Cancel, LeftBy, JobOf
<1>3. \A x \in Call : phase'[x] \in Critical \cup {"idle", "lock"} => outcome'[x] = "none"
  BY DEF TextInv, Cancel, Step, End, LockInv, TypeOK, Critical
<1>4. ASSUME torn' = {}, NEW x \in Call PROVE Knows(x)'
  BY <1>4, CallAssumption DEF TextInv, Knows, Acked, Cancel, Spend, Step, End, files, Critical,
     Past, Written
<1>5. ASSUME torn' = {}, NEW x \in Call, Unwritten(x)' PROVE Absent(x)'
  BY <1>5 DEF TextInv, Unwritten, Absent, Cancel, Spend, Step, End, files, Critical, Past
<1>6. KeepsAcked'
  BY DEF TextInv, KeepsAcked, Cancel, End, files
<1>7. QED  BY <1>1, <1>2, <1>3, <1>4, <1>5, <1>6 DEF TextInv

LEMMA TextStrayGrant == ASSUME TextInv, NEW s \in stray, StrayGrant(s) PROVE TextInv'
<1>1. LockInv /\ LockInv' /\ (torn' = {} => torn = {})
  BY LockStrayGrant DEF TextInv, StrayGrant, history
<1>2. \A r \in stray' : r.phase \in Writing => r.call \in torn'
  BY DEF TextInv, StrayGrant, history
<1>3. \A x \in Call : phase'[x] \in Critical \cup {"idle", "lock"} => outcome'[x] = "none"
  BY DEF TextInv, StrayGrant, coroutine
<1>4. ASSUME torn' = {}, NEW x \in Call PROVE Knows(x)'
  BY <1>4 DEF TextInv, Knows, Acked, StrayGrant, coroutine, history, Written
<1>5. ASSUME torn' = {}, NEW x \in Call, Unwritten(x)' PROVE Absent(x)'
  BY <1>1, <1>5 DEF TextInv, Unwritten, Absent, StrayGrant, coroutine
<1>6. KeepsAcked'
  BY <1>1 DEF TextInv, KeepsAcked, StrayGrant, coroutine
<1>7. QED  BY <1>1, <1>2, <1>3, <1>4, <1>5, <1>6 DEF TextInv

LEMMA TextStrayFill == ASSUME TextInv, NEW s \in stray, StrayFill(s) PROVE TextInv'
<1>1. LockInv /\ LockInv' /\ (torn' = {} => torn = {})
  BY LockStrayFill DEF TextInv, StrayFill, history
<1>2. \A r \in stray' : r.phase \in Writing => r.call \in torn'
  BY DEF TextInv, StrayFill, history, LockInv, TypeOK, Stray
<1>3. \A x \in Call : phase'[x] \in Critical \cup {"idle", "lock"} => outcome'[x] = "none"
  BY DEF TextInv, StrayFill, coroutine
<1>4. ASSUME torn' = {}, NEW x \in Call PROVE Knows(x)'
  BY <1>1, <1>4 DEF TextInv, StrayFill
<1>5. ASSUME torn' = {}, NEW x \in Call, Unwritten(x)' PROVE Absent(x)'
  BY <1>1, <1>5 DEF TextInv, StrayFill
<1>6. KeepsAcked'
  BY <1>1 DEF TextInv, KeepsAcked, StrayFill
<1>7. QED  BY <1>1, <1>2, <1>3, <1>4, <1>5, <1>6 DEF TextInv

LEMMA TextStrayInstall == ASSUME TextInv, NEW s \in stray, StrayInstall(s) PROVE TextInv'
<1>1. LockInv /\ LockInv' /\ (torn' = {} => torn = {})
  BY LockStrayInstall DEF TextInv, StrayInstall, history
<1>2. \A r \in stray' : r.phase \in Writing => r.call \in torn'
  BY DEF TextInv, StrayInstall, history
<1>3. \A x \in Call : phase'[x] \in Critical \cup {"idle", "lock"} => outcome'[x] = "none"
  BY DEF TextInv, StrayInstall, coroutine
<1>4. ASSUME torn' = {}, NEW x \in Call PROVE Knows(x)'
  BY <1>1, <1>4 DEF TextInv, StrayInstall
<1>5. ASSUME torn' = {}, NEW x \in Call, Unwritten(x)' PROVE Absent(x)'
  BY <1>1, <1>5 DEF TextInv, StrayInstall
<1>6. KeepsAcked'
  BY <1>1 DEF TextInv, KeepsAcked, StrayInstall
<1>7. QED  BY <1>1, <1>2, <1>3, <1>4, <1>5, <1>6 DEF TextInv

LEMMA TextStrayEnds == ASSUME TextInv, NEW s \in stray, StrayEnds(s) PROVE TextInv'
<1>1. LockInv /\ LockInv' /\ (torn' = {} => torn = {})
  BY LockStrayEnds DEF TextInv, StrayEnds, history
<1>2. \A r \in stray' : r.phase \in Writing => r.call \in torn'
  BY DEF TextInv, StrayEnds, history
<1>3. \A x \in Call : phase'[x] \in Critical \cup {"idle", "lock"} => outcome'[x] = "none"
  BY DEF TextInv, StrayEnds, coroutine
<1>4. ASSUME torn' = {}, NEW x \in Call PROVE Knows(x)'
  BY <1>4 DEF TextInv, Knows, Acked, StrayEnds, files, coroutine, history, Written
<1>5. ASSUME torn' = {}, NEW x \in Call, Unwritten(x)' PROVE Absent(x)'
  BY <1>1, <1>5 DEF TextInv, Unwritten, Absent, StrayEnds, files, coroutine
<1>6. KeepsAcked'
  BY <1>1 DEF TextInv, KeepsAcked, StrayEnds, files, coroutine
<1>7. QED  BY <1>1, <1>2, <1>3, <1>4, <1>5, <1>6 DEF TextInv

LEMMA TextCrash == ASSUME TextInv, NEW p \in Process, Crash(p) PROVE TextInv'
<1>1. LockInv /\ LockInv' /\ (torn' = {} => torn = {})
  BY LockCrash DEF TextInv, Crash, history
<1>2. \A r \in stray' : r.phase \in Writing => r.call \in torn'
  BY DEF TextInv, Crash, history
<1>3. \A x \in Call : phase'[x] \in Critical \cup {"idle", "lock"} => outcome'[x] = "none"
  BY <1>1 DEF TextInv, Crash, LockInv, HandlesKnown
<1>4. ASSUME torn' = {}, NEW x \in Call PROVE Knows(x)'
  BY <1>1, <1>4, CallAssumption DEF TextInv, Knows, Acked, Crash, Spend, history, LockInv,
     HandlesKnown, Past, Written
<1>5. ASSUME torn' = {}, NEW x \in Call, Unwritten(x)' PROVE Absent(x)'
  BY <1>1, <1>5 DEF TextInv, Unwritten, Absent, Crash, Spend, LockInv, HandlesKnown, Past
<1>6. KeepsAcked'
  BY <1>1 DEF TextInv, KeepsAcked, Crash
<1>7. QED  BY <1>1, <1>2, <1>3, <1>4, <1>5, <1>6 DEF TextInv

LEMMA TextRaiseBarrier == ASSUME TextInv, RaiseBarrier PROVE TextInv'
<1>1. LockInv /\ LockInv' /\ (torn' = {} => torn = {})
  BY LockRaiseBarrier DEF TextInv, RaiseBarrier
<1>2. \A r \in stray' : r.phase \in Writing => r.call \in torn'
  BY DEF TextInv, RaiseBarrier
<1>3. \A x \in Call : phase'[x] \in Critical \cup {"idle", "lock"} => outcome'[x] = "none"
  BY DEF TextInv, RaiseBarrier, coroutine
<1>4. ASSUME torn' = {}, NEW x \in Call PROVE Knows(x)'
  BY <1>4 DEF TextInv, Knows, Acked, RaiseBarrier, Spend, coroutine, Written
<1>5. ASSUME torn' = {}, NEW x \in Call, Unwritten(x)' PROVE Absent(x)'
  BY <1>5 DEF TextInv, Unwritten, Absent, RaiseBarrier, Spend, coroutine
<1>6. KeepsAcked'
  BY DEF TextInv, KeepsAcked, RaiseBarrier, coroutine
<1>7. QED  BY <1>1, <1>2, <1>3, <1>4, <1>5, <1>6 DEF TextInv

LEMMA TextLowerBarrier == ASSUME TextInv, LowerBarrier PROVE TextInv'
<1>1. LockInv /\ LockInv' /\ (torn' = {} => torn = {})
  BY LockLowerBarrier DEF TextInv, LowerBarrier
<1>2. \A r \in stray' : r.phase \in Writing => r.call \in torn'
  BY DEF TextInv, LowerBarrier
<1>3. \A x \in Call : phase'[x] \in Critical \cup {"idle", "lock"} => outcome'[x] = "none"
  BY DEF TextInv, LowerBarrier, coroutine
<1>4. ASSUME torn' = {}, NEW x \in Call PROVE Knows(x)'
  BY <1>4 DEF TextInv, Knows, Acked, LowerBarrier, coroutine, Written
<1>5. ASSUME torn' = {}, NEW x \in Call, Unwritten(x)' PROVE Absent(x)'
  BY <1>5 DEF TextInv, Unwritten, Absent, LowerBarrier, coroutine
<1>6. KeepsAcked'
  BY DEF TextInv, KeepsAcked, LowerBarrier, coroutine
<1>7. QED  BY <1>1, <1>2, <1>3, <1>4, <1>5, <1>6 DEF TextInv


-----------------------------------------------------------------------------
LEMMA TextStep == TextInv /\ [Next]_vars => TextInv'
<1>1. SUFFICES ASSUME TextInv, [Next]_vars PROVE TextInv'
  OBVIOUS
<1>2. CASE UNCHANGED vars
  <2>1. LockInv'
    BY <1>1, LockStep DEF TextInv
  <2>2. QED
    BY <1>2, <1>1, <2>1 DEF TextInv, KeepsAcked, Knows, Unwritten, Absent, Acked, Written, vars,
       files, coroutine, history
<1>3. CASE \E c \in Call : Begin(c) \/ Start(c) \/ Works(c) \/ Fails(c) \/ Cancel(c)
  BY <1>1, <1>3, TextBegin, TextStart, TextGrant, TextUnlock, TextRead, TextReadFails, TextBackup,
     TextBackupFails, TextFill, TextInstall, TextWriteFails, TextFileMissing, TextObserve,
     TextVerify, TextCheckFails, TextCancel DEF Works, Fails
<1>4. CASE \E s \in stray : GoesOn(s)
  BY <1>1, <1>4, TextStrayGrant, TextStrayFill, TextStrayInstall, TextStrayEnds DEF GoesOn
<1>5. CASE (\E p \in Process : Crash(p)) \/ RaiseBarrier \/ LowerBarrier
  BY <1>1, <1>5, TextCrash, TextRaiseBarrier, TextLowerBarrier
<1>6. QED  BY <1>1, <1>2, <1>3, <1>4, <1>5 DEF Next

\* While no call was cancelled in its write, an acknowledged change stays in its document.
THEOREM AckedChangesStay == Spec => []KeepsAcked
<1>1. TextInv => KeepsAcked
  BY DEF TextInv
<1>2. QED  BY TextInit, TextStep, <1>1, PTL DEF Spec

\* A call that reports a failure, after at most one fault, has left no change behind.
THEOREM FailuresAreUndone == Spec => []FailedUndone
<1>1. TextInv => FailedUndone
  BY DEF TextInv, FailedUndone, Unwritten, Absent
<1>2. QED  BY TextInit, TextStep, <1>1, PTL DEF Spec

\* Only a call between its check of the barrier and its end, or what it left, changes a document.
LEMMA WhoChanges ==
  ASSUME LockInv, [Next]_vars, doc' # doc
  PROVE  \/ \E c \in Call :
              /\ phase[c] \in Writing /\ job[c] = "filled"
              /\ \E t \in tmp[Document[c]] : doc' = [doc EXCEPT ![Document[c]] = t]
         \/ \E s \in stray : s.phase \in Writing
<1>1. CASE UNCHANGED vars
  BY <1>1 DEF vars, files
<1>2. CASE \E c \in Call : Begin(c) \/ Start(c) \/ Works(c) \/ Fails(c) \/ Cancel(c)
  BY <1>2 DEF Works, Fails, Begin, Start, Grant, Unlock, Read, Backup, Fill, Install, FileMissing,
     Observe, Verify, ReadFails, BackupFails, WriteFails, CheckFails, Cancel, Replace, files
<1>3. CASE \E s \in stray : GoesOn(s)
  BY <1>3 DEF GoesOn, StrayGrant, StrayFill, StrayInstall, StrayEnds, files
<1>4. CASE (\E p \in Process : Crash(p)) \/ RaiseBarrier \/ LowerBarrier
  BY <1>4 DEF Crash, RaiseBarrier, LowerBarrier
<1>5. QED  BY <1>1, <1>2, <1>3, <1>4 DEF Next

\* A conditional change replaces exactly the text its caller saw.
THEOREM ConditionalChangesFit == Spec => ConditionalFits
<1>1. TextInv /\ [Next]_vars =>
        [\A c \in Conditional :
           LET d == Document[c] IN
           torn = {} /\ c \notin doc[d] /\ c \in doc'[d] => doc[d] = seen[c]]_vars
  <2>1. SUFFICES ASSUME TextInv, [Next]_vars, NEW c \in Conditional, torn = {},
                        c \notin doc[Document[c]], c \in doc'[Document[c]]
                 PROVE  doc[Document[c]] = seen[c]
    OBVIOUS
  <2>2. c \in Call /\ Document[c] \in Doc /\ LockInv
    BY <2>1, CallAssumption DEF TextInv
  <2>3. ~ \E s \in stray : s.phase \in Writing
    BY <2>1 DEF TextInv
  <2>4. PICK x \in Call :
          /\ phase[x] \in Writing /\ job[x] = "filled"
          /\ \E t \in tmp[Document[x]] : doc' = [doc EXCEPT ![Document[x]] = t]
    BY <2>1, <2>2, <2>3, WhoChanges
  <2>5. phase[x] \in Past /\ Knows(x)
    BY <2>1, <2>4 DEF TextInv, Past, Critical, Writing
  <2>6. doc' = [doc EXCEPT ![Document[x]] = Written(x, phase[x])]
    BY <2>4, <2>5 DEF Knows
  <2>7. Document[x] = Document[c] /\ c \in Written(x, phase[x])
    BY <2>1, <2>6
  <2>8. doc[Document[c]] \in {read[x], read[x] \cup {x}}
    BY <2>5, <2>7 DEF Knows
  <2>9. x = c
    BY <2>1, <2>7, <2>8 DEF Written
  <2>10. doc[Document[c]] = read[c] /\ read[c] = seen[c]
    BY <2>1, <2>5, <2>9 DEF Knows
  <2>11. QED  BY <2>10
<1>2. QED  BY TextInit, TextStep, <1>1, PTL DEF Spec, ConditionalFits


-----------------------------------------------------------------------------
(* The barrier.                                                             *)

BarrierInv ==
  /\ LockInv
  /\ barrier => \A c \in Call : phase[c] \in Critical => c \in grace

LEMMA BarrierStep == BarrierInv /\ [Next]_vars => BarrierInv'
<1>1. SUFFICES ASSUME BarrierInv, [Next]_vars, barrier',
                      NEW c \in Call, phase'[c] \in Critical
               PROVE  c \in grace'
  BY LockStep DEF BarrierInv
<1>2. LockInv
  BY <1>1 DEF BarrierInv
<1>3. CASE UNCHANGED vars
  BY <1>1, <1>3 DEF BarrierInv, vars, files, coroutine, history
<1>4. CASE \E x \in Call : Begin(x) \/ Start(x) \/ Works(x) \/ Fails(x) \/ Cancel(x)
  <2>1. PICK x \in Call : Begin(x) \/ Start(x) \/ Works(x) \/ Fails(x) \/ Cancel(x)
    BY <1>4
  <2>2. barrier' = barrier /\ grace' = grace
    BY <2>1 DEF Works, Fails, Begin, Start, Grant, Unlock, Read, Backup, Fill, Install, FileMissing,
       Observe, Verify, ReadFails, BackupFails, WriteFails, CheckFails, Cancel, files, history
  <2>3. phase[c] \in Critical
    <3>1. CASE Grant(x)
      BY <1>1, <1>2, <3>1 DEF Grant, Enter, Step, LockInv, TypeOK, Critical
    <3>2. CASE Begin(x) \/ Start(x) \/ Unlock(x) \/ Cancel(x)
      BY <1>1, <1>2, <3>2 DEF Begin, Start, Unlock, Cancel, Step, LockInv, TypeOK, Critical
    <3>3. CASE Read(x) \/ Backup(x) \/ Observe(x) \/ Verify(x) \/ ReadFails(x) \/ BackupFails(x) \/ CheckFails(x)
      BY <1>1, <1>2, <3>3 DEF Read, Backup, Observe, Verify, ReadFails, BackupFails, CheckFails,
         Recover, Step, LockInv, TypeOK, Critical
    <3>4. CASE Fill(x) \/ Install(x) \/ FileMissing(x) \/ WriteFails(x)
      BY <1>1, <1>2, <3>4 DEF Fill, Install, FileMissing, WriteFails, AfterWrite, Step, LockInv,
         TypeOK, Critical, Writing
    <3>5. QED  BY <2>1, <3>1, <3>2, <3>3, <3>4 DEF Works, Fails
  <2>4. QED  BY <1>1, <2>2, <2>3 DEF BarrierInv
<1>5. CASE \E s \in stray : GoesOn(s)
  BY <1>1, <1>5 DEF BarrierInv, GoesOn, StrayGrant, StrayFill, StrayInstall, StrayEnds, coroutine,
     files, history
<1>6. CASE \E p \in Process : Crash(p)
  BY <1>1, <1>6 DEF BarrierInv, Crash, history, Critical
<1>7. CASE RaiseBarrier
  BY <1>1, <1>7 DEF RaiseBarrier, coroutine
<1>8. CASE LowerBarrier
  BY <1>1, <1>8 DEF LowerBarrier
<1>9. QED  BY <1>1, <1>3, <1>4, <1>5, <1>6, <1>7, <1>8 DEF Next

\* Once the calls that had passed the check have ended, the barrier keeps every document as it is.
THEOREM BarrierKeepsQuiet == Spec => BarrierQuiets
<1>1. Init => BarrierInv
  BY LockInit DEF Init, BarrierInv
<1>2. BarrierInv /\ [Next]_vars =>
        [barrier /\ stray = {} /\ (\A c \in grace : phase[c] = "done") => UNCHANGED doc]_vars
  <2>1. SUFFICES ASSUME BarrierInv, [Next]_vars, barrier, stray = {},
                        \A c \in grace : phase[c] = "done", doc' # doc
                 PROVE  FALSE
    OBVIOUS
  <2>2. PICK c \in Call : phase[c] \in Writing
    BY <2>1, WhoChanges DEF BarrierInv
  <2>3. phase[c] \in Critical /\ phase[c] # "done"
    BY <2>2 DEF Critical, Writing
  <2>4. QED  BY <2>1, <2>3 DEF BarrierInv
<1>3. QED  BY <1>1, BarrierStep, <1>2, PTL DEF Spec, BarrierQuiets

-----------------------------------------------------------------------------
(* Waiting: for locks in the order of their paths, and for threads.         *)

\* A call that waits for a lock has opened the lock files up to it, and waits for the last.
Ordered(c) ==
  phase[c] = "lock" =>
    /\ \A d \in handles[c], e \in Targets[c] \ handles[c] : d < e
    /\ \A d \in handles[c] : holder[d] # c => \A e \in handles[c] : e <= d

\* So does the job that a call left when it was cancelled while it waited.
StrayOrdered(s) ==
  s.phase = "lock" => /\ holder[s.on] # s.call
                      /\ \A d \in handles[s.call] : d <= s.on

OrderInv ==
  /\ LockInv
  /\ \A c \in Call : Ordered(c)
  /\ \A c \in Call : phase[c] = "done" => handles[c] = {}
  /\ \A s \in stray : StrayOrdered(s)
  /\ \A s, t \in stray : s.call = t.call => s = t

\* The next lock file comes after those that are open.
LEMMA NextLockLeast ==
  ASSUME TypeOK, NEW c \in Call, Targets[c] \ handles[c] # {}
  PROVE  \A e \in Targets[c] \ handles[c] : NextLock(c) <= e
<1>1. Targets[c] \ handles[c] \in SUBSET Doc
  BY CallAssumption
<1>2. \E d \in Targets[c] \ handles[c] : \A e \in Targets[c] \ handles[c] : d <= e
  BY <1>1, OrderAssumption
<1>3. QED  BY <1>2 DEF NextLock, Least

LEMMA OrderInit == Init => OrderInv
  BY LockInit DEF Init, OrderInv, Ordered, StrayOrdered

\* A step that opens no lock file, takes no lock and leaves no job keeps the order.
LEMMA OrderFrame ==
  ASSUME OrderInv, LockInv', UNCHANGED <<handles, holder>>, stray' \subseteq stray,
         \A x \in Call : phase'[x] \in {"lock", "done"} => phase[x] = phase'[x]
  PROVE  OrderInv'
  BY DEF OrderInv, Ordered, StrayOrdered

LEMMA OrderBegin == ASSUME OrderInv, NEW c \in Call, Begin(c) PROVE OrderInv'
<1>1. LockInv /\ LockInv'
  BY LockBegin DEF OrderInv
<1> DEFINE n == NextLock(c)
<1>2. /\ handles[c] = {} /\ Targets[c] \subseteq Doc /\ n \in Targets[c]
      /\ \A e \in Targets[c] : n <= e
  BY <1>1, CallAssumption, NextLockIn, NextLockLeast DEF LockInv, HandlesKnown, Begin
<1>3. /\ phase' = [phase EXCEPT ![c] = "lock"] /\ handles' = [handles EXCEPT ![c] = {n}]
      /\ holder' = holder /\ stray' = stray /\ phase[c] = "idle"
  BY DEF Begin, Step, files
<1> HIDE DEF n
<1>4. phase \in [Call -> Phase] /\ handles \in [Call -> SUBSET Doc] /\ Doc \subseteq Nat
  BY <1>1, OrderAssumption DEF LockInv, TypeOK
<1>5. ASSUME NEW x \in Call PROVE Ordered(x)'
  <2>1. CASE x = c
    <3>1. handles'[c] = {n} /\ n \in Nat /\ Targets[c] \subseteq Nat
      BY <1>2, <1>3, <1>4
    <3>2. \A e \in Targets[c] \ {n} : n < e
      BY <1>2, <3>1
    <3>3. QED  BY <2>1, <3>1, <3>2 DEF Ordered
  <2>2. CASE x # c
    BY <1>3, <1>4, <2>2 DEF OrderInv, Ordered
  <2>3. QED  BY <2>1, <2>2
<1>6. ASSUME NEW s \in stray' PROVE StrayOrdered(s)'
  <2>1. s \in stray /\ s.call # c
    BY <1>1, <1>3 DEF LockInv
  <2>2. handles'[s.call] = handles[s.call]
    BY <1>1, <1>3, <1>4, <2>1 DEF LockInv, TypeOK, Stray
  <2>3. QED  BY <1>3, <2>1, <2>2 DEF OrderInv, StrayOrdered
<1>7. \A x \in Call : phase'[x] = "done" => handles'[x] = {}
  BY <1>3, <1>4 DEF OrderInv
<1>8. QED  BY <1>1, <1>3, <1>5, <1>6, <1>7 DEF OrderInv

LEMMA OrderGrant == ASSUME OrderInv, NEW c \in Call, Grant(c) PROVE OrderInv'
<1>1. LockInv /\ LockInv'
  BY LockGrant DEF OrderInv
<1> DEFINE n == NextLock(c) w == Wanted(c)
<1>2. /\ w \in handles[c] /\ w \in Doc /\ \A d \in handles[c] \ {w} : holder[d] = c
      /\ holder[w] = Nobody /\ holder' = [holder EXCEPT ![w] = c] /\ stray' = stray
      /\ phase[c] = "lock"
  BY <1>1, WantedIn DEF Grant, Free
<1>3. \/ /\ handles' = handles /\ phase' \in {[phase EXCEPT ![c] = "unlock"],
                                              [phase EXCEPT ![c] = "read"]}
      \/ /\ handles[c] # Targets[c] /\ handles' = [handles EXCEPT ![c] = @ \cup {n}]
         /\ phase' = [phase EXCEPT ![c] = "lock"]
  BY DEF Grant, Enter, Step
<1>4. handles[c] # Targets[c] => /\ n \in Targets[c] \ handles[c]
                                 /\ \A e \in Targets[c] \ handles[c] : n <= e
  <2>1. handles[c] # Targets[c] => Targets[c] \ handles[c] # {}
    BY <1>1 DEF LockInv, HandlesKnown
  <2>2. QED  BY <1>1, <2>1, NextLockIn, NextLockLeast DEF LockInv
<1> HIDE DEF n, w
<1>5. /\ phase \in [Call -> Phase] /\ handles \in [Call -> SUBSET Doc] /\ Doc \subseteq Nat
      /\ Targets[c] \subseteq Doc /\ holder \in [Doc -> Call \cup {Nobody}]
  BY <1>1, CallAssumption, OrderAssumption DEF LockInv, TypeOK
<1>6. ASSUME NEW x \in Call PROVE Ordered(x)'
  <2>1. CASE x = c /\ phase'[c] = "lock"
    <3>1. handles[c] # Targets[c] /\ handles'[c] = handles[c] \cup {n}
      BY <1>3, <1>5, <2>1
    <3>2. \A d \in handles[c] : d < n /\ holder'[d] = c
      BY <1>2, <1>4, <1>5, <2>1, <3>1 DEF OrderInv, Ordered
    <3>3. n \in Nat /\ \A e \in Targets[c] \ handles'[c] : n < e
      <4>1. Targets[c] \subseteq Nat /\ handles[c] \subseteq Nat
        BY <1>5
      <4>2. \A e \in Targets[c] \ handles'[c] : e \in Nat /\ e # n /\ n <= e
        BY <1>4, <3>1, <4>1
      <4>3. n \in Nat
        BY <1>4, <3>1, <4>1
      <4>4. QED  BY <4>2, <4>3
    <3>4. \A d \in handles'[c], e \in Targets[c] \ handles'[c] : d < e
      BY <1>2, <1>5, <3>1, <3>3 DEF OrderInv, Ordered
    <3>5. \A d \in handles'[c] : holder'[d] # c => \A e \in handles'[c] : e <= d
      <4>1. \A d \in handles'[c] : holder'[d] # c => d = n
        BY <3>1, <3>2
      <4>2. \A e \in handles[c] : e \in Nat /\ e < n
        BY <1>5, <3>2
      <4>3. \A e \in handles'[c] : e <= n
        BY <3>1, <3>3, <4>2
      <4>4. QED  BY <4>1, <4>3
    <3>6. QED  BY <2>1, <3>4, <3>5 DEF Ordered
  <2>2. CASE x # c
    <3>1. phase'[x] = phase[x] /\ handles'[x] = handles[x]
      BY <1>3, <1>5, <2>2
    <3>2. \A d \in Doc : holder'[d] # x => holder[d] # x
      BY <1>2, <1>5, NamesAssumption
    <3>3. handles[x] \subseteq Doc
      BY <1>5
    <3>4. QED  BY <3>1, <3>2, <3>3 DEF OrderInv, Ordered
  <2>3. CASE x = c /\ phase'[c] # "lock"
    BY <2>3 DEF Ordered
  <2>4. QED  BY <2>1, <2>2, <2>3
<1>7. ASSUME NEW s \in stray' PROVE StrayOrdered(s)'
  <2>1. s \in stray /\ s.call \in Call /\ s.on \in Doc /\ s.call # c
    BY <1>1, <1>2 DEF LockInv, TypeOK, Stray
  <2>2. handles'[s.call] = handles[s.call] /\ holder'[s.on] \in {holder[s.on], c}
    BY <1>2, <1>3, <1>5, <2>1
  <2>3. QED  BY <2>1, <2>2 DEF OrderInv, StrayOrdered
<1>8. \A x \in Call : phase'[x] = "done" => handles'[x] = {}
  BY <1>3, <1>5 DEF OrderInv
<1>9. QED  BY <1>1, <1>2, <1>6, <1>7, <1>8 DEF OrderInv

LEMMA OrderUnlock == ASSUME OrderInv, NEW c \in Call, Unlock(c) PROVE OrderInv'
<1>1. LockInv /\ LockInv'
  BY LockUnlock DEF OrderInv
<1> DEFINE l == Greatest(handles[c]) rest == handles[c] \ {l}
<1>2. /\ holder' = [holder EXCEPT ![l] = IF @ = c THEN Nobody ELSE @]
      /\ handles' = [handles EXCEPT ![c] = rest] /\ stray' = stray
      /\ phase' = [phase EXCEPT ![c] = IF rest = {} THEN "done" ELSE "unlock"]
  BY DEF Unlock, Step
<1>3. rest \subseteq handles[c]
  OBVIOUS
<1> HIDE DEF l, rest
<1>4. /\ phase \in [Call -> Phase] /\ handles \in [Call -> SUBSET Doc]
      /\ holder \in [Doc -> Call \cup {Nobody}]
  BY <1>1 DEF LockInv, TypeOK
<1>5. \A x \in Call, d \in Doc : x # c \/ holder[d] # c =>
        (holder'[d] # x => holder[d] # x) /\ (holder[d] # x => holder'[d] # x)
  BY <1>2, <1>4, NamesAssumption
<1>6. ASSUME NEW x \in Call PROVE Ordered(x)'
  <2>1. CASE x = c
    BY <1>2, <1>4, <2>1 DEF Ordered
  <2>2. CASE x # c
    BY <1>2, <1>4, <1>5, <2>2 DEF OrderInv, Ordered
  <2>3. QED  BY <2>1, <2>2
<1>7. ASSUME NEW s \in stray' PROVE StrayOrdered(s)'
  <2>1. s \in stray /\ s.call \in Call /\ s.on \in Doc
    BY <1>1, <1>2 DEF LockInv, TypeOK, Stray
  <2>2. handles'[s.call] \subseteq handles[s.call]
    BY <1>2, <1>3, <1>4, <2>1
  <2>3. QED  BY <1>5, <2>1, <2>2 DEF OrderInv, StrayOrdered
<1>8. \A x \in Call : phase'[x] = "done" => handles'[x] = {}
  BY <1>2, <1>4 DEF OrderInv
<1>9. QED  BY <1>1, <1>2, <1>6, <1>7, <1>8 DEF OrderInv

LEMMA OrderCancel == ASSUME OrderInv, NEW c \in Call, Cancel(c) PROVE OrderInv'
<1>1. LockInv /\ LockInv'
  BY LockCancel DEF OrderInv
<1>2. /\ phase' = [phase EXCEPT ![c] = "unlock"] /\ stray' = stray \cup LeftBy(c)
      /\ UNCHANGED <<handles, holder>> /\ phase[c] \in Critical \cup {"lock"}
      /\ phase \in [Call -> Phase] /\ handles[c] \subseteq Doc
  BY <1>1 DEF Cancel, Step, files, LockInv, TypeOK
<1>3. \A s \in stray : s.call # c
  BY <1>1, <1>2 DEF LockInv, Critical
<1>4. \A s \in LeftBy(c) : s = JobOf(c)
  BY DEF LeftBy
<1>5. ASSUME NEW s \in stray' PROVE StrayOrdered(s)'
  <2>1. CASE s \in stray
    BY <1>2, <2>1 DEF OrderInv, StrayOrdered
  <2>2. CASE s = JobOf(c) /\ s.phase = "lock"
    <3>1. s.call = c /\ phase[c] = "lock" /\ s.on = Wanted(c)
      BY <2>2 DEF JobOf
    <3>2. Wanted(c) \in handles[c] /\ holder[Wanted(c)] # c
      BY <1>1, <3>1, WantedIn
    <3>3. \A d \in handles[c] : d <= s.on
      BY <3>1, <3>2 DEF OrderInv, Ordered
    <3>4. QED  BY <1>2, <3>1, <3>2, <3>3 DEF StrayOrdered
  <2>3. CASE s.phase # "lock"
    BY <2>3 DEF StrayOrdered
  <2>4. QED  BY <1>2, <1>4, <2>1, <2>2, <2>3
<1>6. \A s, t \in stray' : s.call = t.call => s = t
  BY <1>2, <1>3, <1>4 DEF OrderInv, JobOf
<1>7. \A x \in Call : Ordered(x)' /\ (phase'[x] = "done" => handles'[x] = {})
  BY <1>2 DEF OrderInv, Ordered
<1>8. QED  BY <1>1, <1>5, <1>6, <1>7 DEF OrderInv

LEMMA OrderStray ==
  ASSUME OrderInv, NEW s \in stray, GoesOn(s)
  PROVE  OrderInv'
<1>1. LockInv /\ LockInv'
  BY LockStrayGrant, LockStrayFill, LockStrayInstall, LockStrayEnds DEF OrderInv, GoesOn
<1>2. /\ s.call \in Call /\ s.on \in Doc /\ phase[s.call] \in {"unlock", "done"}
      /\ holder \in [Doc -> Call \cup {Nobody}] /\ handles \in [Call -> SUBSET Doc]
  BY <1>1 DEF LockInv, TypeOK, Stray
<1>3. UNCHANGED <<phase, handles>>
  BY DEF GoesOn, StrayGrant, StrayFill, StrayInstall, StrayEnds, coroutine
<1>4. CASE StrayGrant(s)
  <2>1. /\ holder[s.on] = Nobody /\ stray' = stray \ {s}
        /\ holder' \in {holder, [holder EXCEPT ![s.on] = s.call]}
    BY <1>4 DEF StrayGrant, Free
  <2>2. \A x \in Call, d \in Doc : x # s.call /\ holder[d] # x => holder'[d] # x
    BY <1>2, <2>1
  <2>3. \A x \in Call, d \in Doc : holder[d] = x => holder'[d] = x
    BY <1>2, <2>1, NamesAssumption
  <2>4. ASSUME NEW x \in Call PROVE Ordered(x)'
    BY <1>2, <1>3, <2>2, <2>3 DEF OrderInv, Ordered
  <2>5. ASSUME NEW t \in stray' PROVE StrayOrdered(t)'
    <3>1. t \in stray /\ t.call \in Call /\ t.on \in Doc /\ t.call # s.call
      BY <1>1, <2>1 DEF LockInv, TypeOK, Stray, OrderInv
    <3>2. QED  BY <1>3, <2>2, <3>1 DEF OrderInv, StrayOrdered
  <2>6. QED  BY <1>1, <1>3, <2>1, <2>4, <2>5 DEF OrderInv
<1>5. CASE StrayFill(s)
  <2>1. PICK f \in stray' : /\ stray' = (stray \ {s}) \cup {f} /\ f.call = s.call
                            /\ f.phase # "lock"
    <3>1. stray' = (stray \ {s}) \cup {[s EXCEPT !.job = "filled"]} /\ s.phase \in Writing
      BY <1>5 DEF StrayFill
    <3>2. [s EXCEPT !.job = "filled"].call = s.call /\ [s EXCEPT !.job = "filled"].phase = s.phase
      BY <1>1 DEF LockInv, TypeOK, Stray
    <3>3. QED  BY <3>1, <3>2 DEF Writing
  <2>2. holder' = holder
    BY <1>5 DEF StrayFill
  <2>3. \A t, u \in stray' : t.call = u.call => t = u
    BY <2>1 DEF OrderInv
  <2>4. \A t \in stray' : StrayOrdered(t)'
    BY <1>3, <2>1, <2>2 DEF OrderInv, StrayOrdered
  <2>5. QED  BY <1>1, <1>3, <2>2, <2>3, <2>4 DEF OrderInv, Ordered
<1>6. CASE StrayInstall(s) \/ StrayEnds(s)
  <2>1. holder' = holder /\ stray' \subseteq stray
    BY <1>6 DEF StrayInstall, StrayEnds, files
  <2>2. QED  BY <1>1, <1>3, <2>1, OrderFrame
<1>7. QED  BY <1>4, <1>5, <1>6 DEF GoesOn

LEMMA OrderCrash == ASSUME OrderInv, NEW p \in Process, Crash(p) PROVE OrderInv'
<1>1. LockInv /\ LockInv'
  BY LockCrash DEF OrderInv
<1> DEFINE dead == {c \in Call : Home[c] = p /\ phase[c] \notin {"idle", "done"}}
<1>2. /\ phase' = [c \in Call |-> IF c \in dead THEN "done" ELSE phase[c]]
      /\ handles' = [c \in Call |-> IF c \in dead THEN {} ELSE handles[c]]
      /\ holder' = [d \in Doc |-> IF holder[d] \in dead THEN Nobody ELSE holder[d]]
      /\ stray' = {s \in stray : Home[s.call] # p}
  BY DEF Crash
<1>3. /\ holder \in [Doc -> Call \cup {Nobody}] /\ handles \in [Call -> SUBSET Doc]
      /\ \A c \in dead : Home[c] = p
  BY <1>1 DEF LockInv, TypeOK
<1> HIDE DEF dead
<1>4. \A x \in Call, d \in Doc : holder'[d] = x => holder[d] = x
  BY <1>2, <1>3, NamesAssumption
<1>5. \A x \in Call, d \in Doc : x \notin dead /\ holder[d] = x => holder'[d] = x
  BY <1>2, <1>3
<1>6. ASSUME NEW x \in Call PROVE Ordered(x)'
  BY <1>2, <1>3, <1>5 DEF OrderInv, Ordered
<1>7. ASSUME NEW s \in stray' PROVE StrayOrdered(s)'
  <2>1. s \in stray /\ s.call \in Call \ dead /\ s.on \in Doc
    BY <1>1, <1>2, <1>3 DEF LockInv, TypeOK, Stray
  <2>2. QED  BY <1>2, <1>4, <2>1 DEF OrderInv, StrayOrdered
<1>8. \A x \in Call : phase'[x] = "done" => handles'[x] = {}
  BY <1>2 DEF OrderInv
<1>9. QED  BY <1>1, <1>2, <1>6, <1>7, <1>8 DEF OrderInv

LEMMA OrderStep == OrderInv /\ [Next]_vars => OrderInv'
<1>1. SUFFICES ASSUME OrderInv, [Next]_vars PROVE OrderInv'
  OBVIOUS
<1>2. LockInv /\ LockInv'
  BY <1>1, LockStep DEF OrderInv
<1>3. CASE UNCHANGED vars
  BY <1>1, <1>2, <1>3, OrderFrame DEF vars, files, coroutine
<1>4. CASE \E c \in Call : Begin(c) \/ Start(c) \/ Works(c) \/ Fails(c) \/ Cancel(c)
  <2>1. PICK c \in Call : Begin(c) \/ Start(c) \/ Works(c) \/ Fails(c) \/ Cancel(c)
    BY <1>4
  <2>2. CASE Begin(c) \/ Grant(c) \/ Unlock(c) \/ Cancel(c)
    BY <1>1, <2>2, OrderBegin, OrderGrant, OrderUnlock, OrderCancel
  <2>3. CASE Start(c)
    BY <1>1, <1>2, <2>3, OrderFrame DEF Start, files
  <2>4. CASE \/ Read(c) \/ Backup(c) \/ Fill(c) \/ Install(c) \/ FileMissing(c) \/ Observe(c)
             \/ Verify(c) \/ Fails(c)
    <3>1. UNCHANGED <<handles, holder, stray>>
      BY <2>4 DEF Read, Backup, Fill, Install, FileMissing, Observe, Verify, Fails, ReadFails,
         BackupFails, WriteFails, CheckFails, files
    <3>2. \E ph \in Critical \cup {"unlock"} : phase' = [phase EXCEPT ![c] = ph]
      <4>1. CASE Read(c) \/ Backup(c) \/ ReadFails(c)
        BY <4>1 DEF Read, Backup, ReadFails, Step, Critical
      <4>2. CASE Observe(c) \/ Verify(c) \/ BackupFails(c) \/ CheckFails(c)
        BY <4>2 DEF Observe, Verify, BackupFails, CheckFails, Recover, Step, Critical
      <4>3. CASE Install(c) \/ FileMissing(c) \/ WriteFails(c)
        BY <4>3 DEF Install, FileMissing, WriteFails, AfterWrite, Step, Critical
      <4>4. CASE Fill(c)
        BY <1>2, <4>4 DEF Fill, Critical, Writing, LockInv, TypeOK
      <4>5. QED  BY <2>4, <4>1, <4>2, <4>3, <4>4 DEF Fails
    <3>3. \A x \in Call : phase'[x] \in {"lock", "done"} => phase[x] = phase'[x]
      BY <1>2, <3>2 DEF Critical, LockInv, TypeOK
    <3>4. QED  BY <1>1, <1>2, <3>1, <3>3, OrderFrame
  <2>5. QED  BY <2>1, <2>2, <2>3, <2>4 DEF Works
<1>5. CASE \E s \in stray : GoesOn(s)
  BY <1>1, <1>5, OrderStray
<1>6. CASE \E p \in Process : Crash(p)
  BY <1>1, <1>6, OrderCrash
<1>7. CASE RaiseBarrier \/ LowerBarrier
  BY <1>1, <1>2, <1>7, OrderFrame DEF RaiseBarrier, LowerBarrier, coroutine
<1>8. QED  BY <1>1, <1>3, <1>4, <1>5, <1>6, <1>7 DEF Next

\* The calls that have begun and not ended, or have left a job: there are finitely many.
ActiveCalls == {c \in Call : Active(c)}

FewInv == OrderInv /\ IsFiniteSet(ActiveCalls)

\* A step makes at most one call active.
LEMMA OneMoreActive ==
  ASSUME LockInv, [Next]_vars
  PROVE  \E S : ActiveCalls' \subseteq ActiveCalls \cup S /\ (S = {} \/ \E c : S = {c})
<1>1. CASE UNCHANGED vars
  BY <1>1 DEF vars, coroutine, ActiveCalls, Active
<1>2. CASE \E c \in Call : Begin(c) \/ Start(c) \/ Works(c) \/ Fails(c) \/ Cancel(c)
  <2>1. PICK c \in Call : Begin(c) \/ Start(c) \/ Works(c) \/ Fails(c) \/ Cancel(c)
    BY <1>2
  <2>2. \/ phase' = phase
        \/ \E ph \in Phase : phase' = [phase EXCEPT ![c] = ph]
    <3>1. CASE Begin(c) \/ Start(c) \/ Grant(c) \/ Unlock(c) \/ Cancel(c)
      BY <3>1 DEF Begin, Start, Grant, Enter, Unlock, Cancel, Step, Phase, Critical
    <3>2. CASE Read(c) \/ Backup(c) \/ ReadFails(c) \/ Observe(c) \/ Verify(c) \/ BackupFails(c)
               \/ CheckFails(c)
      BY <3>2 DEF Read, Backup, ReadFails, Observe, Verify, BackupFails, CheckFails, Recover,
         Step, Phase, Critical
    <3>3. CASE Install(c) \/ FileMissing(c) \/ WriteFails(c) \/ Fill(c)
      BY <3>3 DEF Install, FileMissing, WriteFails, Fill, AfterWrite, Step, Phase, Critical
    <3>4. QED  BY <2>1, <3>1, <3>2, <3>3 DEF Works, Fails
  <2>3. \A s \in stray' : s \in stray \/ s.call = c
    <3>1. CASE Cancel(c)
      <4>1. \A s \in LeftBy(c) : s.call = c
        BY DEF LeftBy, JobOf
      <4>2. QED  BY <3>1, <4>1 DEF Cancel
    <3>2. CASE Begin(c) \/ Start(c) \/ Works(c) \/ Fails(c)
      BY <3>2 DEF Works, Fails, Begin, Start, Grant, Unlock, Read, Backup, Fill, Install,
         FileMissing, Observe, Verify, ReadFails, BackupFails, WriteFails, CheckFails
    <3>3. QED  BY <2>1, <3>1, <3>2
  <2>4. phase \in [Call -> Phase]
    BY DEF LockInv, TypeOK
  <2>5. ActiveCalls' \subseteq ActiveCalls \cup {c}
    BY <2>2, <2>3, <2>4 DEF ActiveCalls, Active
  <2>6. QED  BY <2>5
<1>3. CASE \E s \in stray : GoesOn(s)
  <2>1. PICK s \in stray : GoesOn(s)
    BY <1>3
  <2>2. s.call \in Call /\ stray \subseteq Stray
    BY DEF LockInv, TypeOK, Stray
  <2>3. phase' = phase /\ \A t \in stray' : \E u \in stray : t.call = u.call
    BY <2>1, <2>2 DEF GoesOn, StrayGrant, StrayFill, StrayInstall, StrayEnds, coroutine, Stray
  <2>4. ActiveCalls' \subseteq ActiveCalls \cup {}
    BY <2>3 DEF ActiveCalls, Active
  <2>5. QED  BY <2>4
<1>4. CASE \E p \in Process : Crash(p)
  <2>1. ActiveCalls' \subseteq ActiveCalls \cup {}
    BY <1>4 DEF ActiveCalls, Active, Crash
  <2>2. QED  BY <2>1
<1>5. CASE RaiseBarrier \/ LowerBarrier
  <2>1. ActiveCalls' \subseteq ActiveCalls \cup {}
    BY <1>5 DEF RaiseBarrier, LowerBarrier, coroutine, ActiveCalls, Active
  <2>2. QED  BY <2>1
<1>6. QED  BY <1>1, <1>2, <1>3, <1>4, <1>5 DEF Next

LEMMA FewInit == Init => FewInv
<1>1. SUFFICES ASSUME Init PROVE FewInv
  OBVIOUS
<1>2. ActiveCalls = {}
  BY <1>1 DEF Init, ActiveCalls, Active
<1>3. QED  BY <1>1, <1>2, OrderInit, FS_EmptySet DEF FewInv

LEMMA FewStep == FewInv /\ [Next]_vars => FewInv'
<1>1. SUFFICES ASSUME FewInv, [Next]_vars PROVE FewInv'
  OBVIOUS
<1>2. OrderInv' /\ LockInv /\ IsFiniteSet(ActiveCalls)
  BY <1>1, OrderStep DEF FewInv, OrderInv
<1>3. PICK S : ActiveCalls' \subseteq ActiveCalls \cup S /\ (S = {} \/ \E c : S = {c})
  BY <1>1, <1>2, OneMoreActive
<1>4. IsFiniteSet(S)
  <2>1. CASE S = {}
    BY <2>1, FS_EmptySet
  <2>2. CASE \E c : S = {c}
    BY <2>2, FS_Singleton
  <2>3. QED  BY <1>3, <2>1, <2>2
<1>5. IsFiniteSet(ActiveCalls \cup S)
  BY <1>2, <1>4, FS_Union
<1>6. IsFiniteSet(ActiveCalls')
  BY <1>3, <1>5, FS_Subset
<1>7. QED  BY <1>2, <1>6 DEF FewInv

\* Where every thread of a process waits for a lock, the threads are those of other active calls
\* than one that has no thread at all.
LEMMA FreeThread ==
  ASSUME FewInv, NEW p \in Process,
         \A x \in Call : Home[x] = p /\ job[x] \in {"running", "filled"} => phase[x] = "lock",
         NEW c \in Call, Home[c] = p, Active(c), job[c] = "queued", \A s \in stray : s.call # c
  PROVE  /\ Busy(p) \in Nat
         /\ Busy(p) < Cardinality({x \in Call : Home[x] = p /\ Active(x)})
<1> DEFINE A == {x \in Call : Home[x] = p /\ Active(x)}
           R == {x \in Call : Home[x] = p /\ job[x] \in {"running", "filled"}}
           S == {s \in stray : Home[s.call] = p}
           T == {x \in A : \E s \in S : s.call = x}
           f == [s \in S |-> s.call]
<1>1. LockInv /\ stray \subseteq Stray
  BY DEF FewInv, OrderInv, LockInv, TypeOK
<1>2. A \subseteq ActiveCalls
  BY DEF ActiveCalls
<1>3. IsFiniteSet(A)
  BY <1>2, FS_Subset DEF FewInv
<1>4. c \in A /\ c \notin R /\ c \notin T
  OBVIOUS
<1>5. R \subseteq A
  BY DEF Active
<1>6. R \cap T = {}
  BY <1>1 DEF LockInv
<1>7. \A s \in S : s.call \in T
  BY <1>1 DEF Stray, Active
<1>8. f \in Injection(S, T)
  <2>1. f \in [S -> T]
    BY <1>7
  <2>2. \A s, t \in S : f[s] = f[t] => s = t
    BY DEF FewInv, OrderInv
  <2>3. QED  BY <2>1, <2>2 DEF Injection, IsInjective
<1> HIDE DEF A, R, S, T, f
<1>9. T \subseteq A
  BY DEF T
<1>10. IsFiniteSet(A \ {c}) /\ Cardinality(A \ {c}) = Cardinality(A) - 1
  BY <1>3, <1>4, FS_RemoveElement
<1>11. IsFiniteSet(R) /\ IsFiniteSet(T)
  BY <1>3, <1>5, <1>9, FS_Subset
<1>12. IsFiniteSet(S) /\ Cardinality(S) <= Cardinality(T)
  BY <1>8, <1>11, FS_Injection
<1>13. Cardinality(R) + Cardinality(T) <= Cardinality(A \ {c})
  <2>1. R \subseteq A \ {c} /\ T \subseteq A \ {c}
    BY <1>4, <1>5, <1>9
  <2>2. Cardinality(R) + Cardinality(T) > Cardinality(A \ {c}) => R \cap T # {}
    BY <1>10, <2>1, FS_MajoritiesIntersect
  <2>3. Cardinality(R) \in Nat /\ Cardinality(T) \in Nat /\ Cardinality(A \ {c}) \in Nat
    BY <1>10, <1>11, FS_CardinalityType
  <2>4. QED  BY <1>6, <2>2, <2>3
<1>14. Busy(p) = Cardinality(R) + Cardinality(S)
  BY DEF Busy, R, S
<1>15. /\ Cardinality(R) \in Nat /\ Cardinality(S) \in Nat /\ Cardinality(T) \in Nat
       /\ Cardinality(A) \in Nat
  BY <1>3, <1>11, <1>12, FS_CardinalityType
<1>16. Busy(p) \in Nat /\ Busy(p) < Cardinality(A)
  BY <1>10, <1>12, <1>13, <1>14, <1>15
<1>17. QED  BY <1>16 DEF A

\* A call waits for a lock itself, or through the job it left.
Awaits(c, d) ==
  \/ phase[c] = "lock" /\ d = Wanted(c)
  \/ \E s \in stray : s.call = c /\ s.phase = "lock" /\ d = s.on

\* What a call waits for it does not hold, and comes after all it has open.
LEMMA AwaitsLast ==
  ASSUME OrderInv, NEW c \in Call, NEW d, Awaits(c, d)
  PROVE  d \in Doc /\ holder[d] # c /\ \A e \in handles[c] : e <= d
<1>1. LockInv /\ stray \subseteq Stray
  BY DEF OrderInv, LockInv, TypeOK
<1>2. CASE phase[c] = "lock" /\ d = Wanted(c)
  BY <1>1, <1>2, WantedIn DEF OrderInv, Ordered
<1>3. CASE \E s \in stray : s.call = c /\ s.phase = "lock" /\ d = s.on
  BY <1>1, <1>3 DEF OrderInv, StrayOrdered, Stray
<1>4. QED  BY <1>2, <1>3 DEF Awaits

\* Some active call waits for no lock that is held: the one after the last that is waited for.
LEMMA NoCircle ==
  ASSUME OrderInv, NEW c \in Call, Active(c)
  PROVE  \E x \in Call : Active(x) /\ \A d \in Doc : Awaits(x, d) => holder[d] = Nobody
<1>1. SUFFICES ASSUME \A x \in Call : Active(x) => \E d \in Doc : Awaits(x, d) /\ holder[d] # Nobody
               PROVE  FALSE
  OBVIOUS
<1> DEFINE W == {d \in Doc : holder[d] # Nobody /\ \E x \in Call : Awaits(x, d)}
<1>2. W # {} /\ W \in SUBSET Doc
  BY <1>1
<1>3. PICK d \in W : \A e \in W : e <= d
  BY <1>2, OrderAssumption
<1>4. holder[d] \in Call /\ d \in handles[holder[d]] /\ d \in Doc /\ LockInv
  BY <1>3 DEF OrderInv, LockInv, TypeOK
<1> DEFINE y == holder[d]
<1>5. Active(y)
  <2>1. phase[y] \notin {"idle", "done"}
    BY <1>4 DEF OrderInv, LockInv, HandlesKnown
  <2>2. QED  BY <2>1 DEF Active
<1>6. PICK e \in Doc : Awaits(y, e) /\ holder[e] # Nobody
  BY <1>1, <1>4, <1>5
<1>7. d <= e /\ holder[e] # y
  BY <1>4, <1>6, AwaitsLast
<1>8. e <= d
  BY <1>3, <1>4, <1>6
<1>9. d = e
  BY <1>4, <1>6, <1>7, <1>8, OrderAssumption
<1>10. QED  BY <1>7, <1>9

\* The calls never wait for each other in a circle: while no process serves more calls than its
\* executor has threads, one of them can go on.
THEOREM DeadlockFree == Spec => []NoDeadlock
<1>1. FewInv => NoDeadlock
  <2>1. SUFFICES ASSUME FewInv,
                        \A p \in Process :
                          Cardinality({c \in Call : Home[c] = p /\ Active(c)}) <= Workers,
                        NEW b \in Call, Active(b),
                        \A c \in Call : ~Runs(c) /\ ~(job[c] = "queued" /\ Busy(Home[c]) < Workers),
                        \A s \in stray : ~StrayRuns(s)
                 PROVE  FALSE
    BY DEF NoDeadlock
  <2>2. OrderInv /\ LockInv /\ stray \subseteq Stray /\ TypeOK
    BY <2>1 DEF FewInv, OrderInv, LockInv, TypeOK
  <2>3. PICK c \in Call : Active(c) /\ \A d \in Doc : Awaits(c, d) => holder[d] = Nobody
    BY <2>1, <2>2, NoCircle
  <2>4. \A s \in stray : s.call # c
    BY <2>1, <2>2, <2>3 DEF StrayRuns, Free, Awaits, Stray
  <2>5. phase[c] \notin {"idle", "done"}
    BY <2>3, <2>4 DEF Active
  <2>6. job[c] # "none"
    BY <2>2, <2>5 DEF LockInv, HandlesKnown, TypeOK, Phase
  <2>7. job[c] \notin {"running", "filled"}
    <3>1. phase[c] = "lock" => Free(Wanted(c))
      BY <2>2, <2>3, WantedIn DEF Awaits, Free
    <3>2. QED  BY <2>1, <3>1 DEF Runs
  <2>8. job[c] = "queued"
    BY <2>2, <2>6, <2>7 DEF TypeOK, Job
  <2>9. Home[c] \in Process
    BY CallAssumption
  <2>10. \A x \in Call : job[x] \in {"running", "filled"} => phase[x] = "lock"
    BY <2>1 DEF Runs
  <2>11. /\ Busy(Home[c]) \in Nat
         /\ Busy(Home[c]) < Cardinality({x \in Call : Home[x] = Home[c] /\ Active(x)})
    BY <2>1, <2>3, <2>4, <2>8, <2>9, <2>10, FreeThread
  <2> DEFINE n == Cardinality({x \in Call : Home[x] = Home[c] /\ Active(x)})
  <2>12. n \in Nat /\ n <= Workers
    <3>1. {x \in Call : Home[x] = Home[c] /\ Active(x)} \subseteq ActiveCalls
      BY DEF ActiveCalls
    <3>2. QED  BY <2>1, <2>9, <3>1, FS_Subset, FS_CardinalityType DEF FewInv
  <2> HIDE DEF n
  <2>13. Busy(Home[c]) < n
    BY <2>11 DEF n
  <2>14. Busy(Home[c]) < Workers
    BY <2>11, <2>12, <2>13, WorkersAssumption
  <2>15. QED  BY <2>1, <2>8, <2>14
<1>2. QED  BY FewInit, FewStep, <1>1, PTL DEF Spec

-----------------------------------------------------------------------------
(* The promise: changes one at a time, answers that stand.                  *)

\* A text and a temporary file hold the changes of calls for that document.
Confined ==
  /\ \A d \in Doc : /\ \A b \in doc[d] : Document[b] = d
                    /\ \A t \in tmp[d] : \A b \in t : Document[b] = d
  /\ \A c \in Call : \A b \in read[c] : Document[b] = Document[c]

\* A call that lets go of its locks has its answer.
Answered == \A c \in Call : phase[c] \in {"unlock", "done"} => outcome[c] # "none"

EditInv == TextInv /\ Answered /\ (torn = {} => Confined)

CallStep(c) == Begin(c) \/ Start(c) \/ Works(c) \/ Fails(c) \/ Cancel(c)

\* A call moves itself only.
LEMMA OthersStay ==
  ASSUME TypeOK, NEW c \in Call, CallStep(c), NEW x \in Call, x # c
  PROVE  phase'[x] = phase[x] /\ outcome'[x] = outcome[x] /\ read'[x] = read[x]
<1>1. CASE Begin(c) \/ Start(c) \/ Grant(c) \/ Unlock(c) \/ Cancel(c)
  BY <1>1 DEF Begin, Start, Grant, Enter, Unlock, Cancel, Step, End, TypeOK
<1>2. CASE Read(c) \/ Backup(c) \/ ReadFails(c) \/ Fill(c)
  BY <1>2 DEF Read, Backup, ReadFails, Fill, Step, End, TypeOK
<1>3. CASE Observe(c) \/ Verify(c) \/ BackupFails(c) \/ CheckFails(c)
  BY <1>3 DEF Observe, Verify, BackupFails, CheckFails, Recover, Step, End, TypeOK
<1>4. CASE Install(c) \/ FileMissing(c) \/ WriteFails(c)
  BY <1>4 DEF Install, FileMissing, WriteFails, AfterWrite, Step, End, TypeOK
<1>5. QED  BY <1>1, <1>2, <1>3, <1>4 DEF CallStep, Works, Fails

LEMMA AnsweredStep == TextInv /\ Answered /\ [Next]_vars => Answered'
<1>1. SUFFICES ASSUME TextInv, Answered, [Next]_vars,
                      NEW x \in Call, phase'[x] \in {"unlock", "done"}
               PROVE  outcome'[x] # "none"
  BY DEF Answered
<1>2. TypeOK
  BY <1>1 DEF TextInv, LockInv
<1>3. CASE UNCHANGED vars
  BY <1>1, <1>3 DEF Answered, vars, coroutine
<1>4. CASE \E c \in Call : CallStep(c)
  <2>1. PICK c \in Call : CallStep(c)
    BY <1>4
  <2>2. CASE x # c
    BY <1>1, <1>2, <2>1, <2>2, OthersStay DEF Answered
  <2>3. CASE x = c
    <3>1. CASE Begin(c) \/ Start(c) \/ Grant(c) \/ Unlock(c) \/ Cancel(c)
      BY <1>1, <1>2, <2>3, <3>1
      DEF Begin, Start, Grant, Enter, Unlock, Cancel, Step, End, TypeOK, Answered
    <3>2. CASE Read(c) \/ Backup(c) \/ ReadFails(c) \/ Fill(c)
      BY <1>1, <1>2, <2>3, <3>2
      DEF Read, Backup, ReadFails, Fill, Step, End, TypeOK, Answered
    <3>3. CASE Observe(c) \/ Verify(c) \/ BackupFails(c) \/ CheckFails(c)
      BY <1>1, <1>2, <2>3, <3>3
      DEF Observe, Verify, BackupFails, CheckFails, Recover, Step, End, TypeOK
    <3>4. CASE Install(c) \/ FileMissing(c) \/ WriteFails(c)
      BY <1>1, <1>2, <2>3, <3>4
      DEF Install, FileMissing, WriteFails, AfterWrite, Step, End, TypeOK
    <3>5. QED  BY <2>1, <3>1, <3>2, <3>3, <3>4 DEF CallStep, Works, Fails
  <2>4. QED  BY <2>2, <2>3
<1>5. CASE \E s \in stray : GoesOn(s)
  BY <1>1, <1>5
  DEF GoesOn, StrayGrant, StrayFill, StrayInstall, StrayEnds, coroutine, Answered
<1>6. CASE \E p \in Process : Crash(p)
  BY <1>1, <1>2, <1>6 DEF Crash, Answered, TypeOK
<1>7. CASE RaiseBarrier \/ LowerBarrier
  BY <1>1, <1>7 DEF RaiseBarrier, LowerBarrier, coroutine, Answered
<1>8. QED  BY <1>1, <1>3, <1>4, <1>5, <1>6, <1>7 DEF Next, CallStep

\* A write puts what is in the temporary file in the document's place.
LEMMA ConfinedReplace ==
  ASSUME Confined, TypeOK, NEW d \in Doc,
         \/ Replace(d) 
         \/ tmp' = [tmp EXCEPT ![d] = {}] /\ UNCHANGED doc,
         UNCHANGED read
  PROVE  Confined'
  BY DEF Confined, TypeOK, Replace

LEMMA ConfinedStep == EditInv /\ [Next]_vars /\ torn' = {} => Confined'
<1>1. SUFFICES ASSUME EditInv, [Next]_vars, torn' = {} PROVE Confined'
  OBVIOUS
<1>2. TypeOK /\ Document \in [Call -> Doc]
  BY <1>1, CallAssumption DEF EditInv, TextInv, LockInv
<1>3. CASE UNCHANGED vars
  BY <1>1, <1>3 DEF EditInv, Confined, vars, files, coroutine, history
<1>4. CASE \E c \in Call : CallStep(c)
  <2>1. PICK c \in Call : CallStep(c)
    BY <1>4
  <2>2. torn = {} /\ Confined
    BY <1>1, <2>1 DEF EditInv, CallStep, Works, Fails, Begin, Start, Grant, Unlock, Read, Backup,
       Fill, Install, FileMissing, Observe, Verify, ReadFails, BackupFails, WriteFails, CheckFails,
       Cancel, history
  <2>3. CASE Read(c)
    <3>1. read' = [read EXCEPT ![c] = doc[Document[c]]] /\ UNCHANGED <<doc, tmp>>
      BY <2>3 DEF Read, files
    <3>2. QED  BY <1>2, <2>2, <3>1 DEF Confined, TypeOK
  <2>4. CASE Fill(c)
    <3>1. /\ tmp' = [tmp EXCEPT ![Document[c]] = {Written(c, phase[c])}]
          /\ UNCHANGED <<doc, read>>
      BY <2>4 DEF Fill
    <3>2. \A b \in Written(c, phase[c]) : Document[b] = Document[c]
      BY <2>2 DEF Confined, Written
    <3>3. QED  BY <1>2, <2>2, <3>1, <3>2 DEF Confined, TypeOK
  <2>5. CASE Install(c) \/ WriteFails(c)
    BY <1>2, <2>2, <2>5, ConfinedReplace DEF Install, WriteFails
  <2>6. CASE \/ Begin(c) \/ Start(c) \/ Grant(c) \/ Unlock(c) \/ Backup(c) \/ FileMissing(c)
             \/ Observe(c) \/ Verify(c) \/ ReadFails(c) \/ BackupFails(c) \/ CheckFails(c)
             \/ Cancel(c)
    <3>1. UNCHANGED <<doc, tmp, read>>
      BY <2>6 DEF Begin, Start, Grant, Unlock, Backup, FileMissing, Observe, Verify, ReadFails,
         BackupFails, CheckFails, Cancel, files
    <3>2. QED  BY <2>2, <3>1 DEF Confined
  <2>7. QED  BY <2>1, <2>3, <2>4, <2>5, <2>6 DEF CallStep, Works, Fails
<1>5. CASE \E s \in stray : GoesOn(s)
  <2>1. PICK s \in stray : GoesOn(s)
    BY <1>5
  <2>2. torn = {} /\ Confined
    BY <1>1, <2>1 DEF EditInv, GoesOn, StrayGrant, StrayFill, StrayInstall, StrayEnds, history
  <2>3. s.phase \notin Writing
    BY <1>1, <2>2 DEF EditInv, TextInv
  <2>4. UNCHANGED <<doc, tmp, read>>
    BY <2>1, <2>3 DEF GoesOn, StrayGrant, StrayFill, StrayInstall, StrayEnds, files, coroutine
  <2>5. QED  BY <2>2, <2>4 DEF Confined
<1>6. CASE (\E p \in Process : Crash(p)) \/ RaiseBarrier \/ LowerBarrier
  BY <1>1, <1>6 DEF EditInv, Confined, Crash, RaiseBarrier, LowerBarrier, coroutine, history
<1>7. QED  BY <1>1, <1>3, <1>4, <1>5, <1>6 DEF Next, CallStep

LEMMA EditInit == Init => EditInv /\ Edits!Init
  BY TextInit DEF Init, EditInv, Confined, Answered, Edits!Init

LEMMA EditStep == EditInv /\ [Next]_vars => EditInv'
  BY TextStep, AnsweredStep, ConfinedStep DEF EditInv

\* The only change without an answer in a document is that of the call at work on it.
LEMMA AloneAtWork ==
  ASSUME EditInv, torn = {}, NEW c \in Call, phase[c] \in Critical
  PROVE  Edits!Alone(c)
<1>1. SUFFICES ASSUME NEW x \in doc[Document[c]], outcome[x] = "none", x # c PROVE FALSE
  BY DEF Edits!Alone
<1>2. LockInv /\ TypeOK /\ Document[c] \in Doc
  BY CallAssumption DEF EditInv, TextInv, LockInv
<1>3. x \in Call /\ Document[x] = Document[c]
  BY <1>1, <1>2 DEF EditInv, Confined, TypeOK, Text
<1>4. phase[x] \notin {"unlock", "done"}
  BY <1>1, <1>3 DEF EditInv, Answered
<1>5. phase[x] \notin {"idle", "lock"}
  BY <1>1, <1>3 DEF EditInv, TextInv, Unwritten, Absent
<1>6. phase[x] \in Critical
  BY <1>2, <1>3, <1>4, <1>5 DEF TypeOK, Phase
<1>7. QED  BY <1>1, <1>2, <1>3, <1>6, OneMutator

\* One call is answered.
LEMMA OneAnswer ==
  ASSUME TypeOK, NEW c \in Call, NEW a, outcome[c] = "none", End(c, a)
  PROVE  Edits!Answers({c}, a)
  BY DEF TypeOK, End, Edits!Answers

\* A write's two results: the call's change put in, or taken back.
LEMMA EditReplace ==
  ASSUME EditInv, torn = {}, NEW c \in Call, phase[c] \in Writing, job[c] = "filled",
         Replace(Document[c])
  PROVE  /\ Document[c] \in Doc /\ c \notin read[c]
         /\ doc[Document[c]] \in {read[c], read[c] \cup {c}}
         /\ doc' = [doc EXCEPT ![Document[c]] = Written(c, phase[c])]
<1>1. Knows(c) /\ phase[c] \in Past
  BY DEF EditInv, TextInv, Past, Critical, Writing
<1>2. tmp[Document[c]] = {Written(c, phase[c])}
  BY <1>1 DEF Knows
<1>3. QED  BY <1>1, <1>2, CallAssumption DEF Knows, Replace

LEMMA EditWrites ==
  ASSUME EditInv, torn = {}, NEW c \in Call, Install(c) \/ WriteFails(c) \/ FileMissing(c)
  PROVE  Edits!Next \/ UNCHANGED Edits!editVars
<1>1. /\ TypeOK /\ Document[c] \in Doc /\ outcome[c] = "none" /\ Edits!Alone(c)
      /\ phase[c] \in Writing
  BY AloneAtWork, CallAssumption DEF EditInv, TextInv, LockInv, Critical, Writing, Install,
     WriteFails, FileMissing
<1>2. \/ UNCHANGED doc
      \/ job[c] = "filled" /\ Replace(Document[c])
  BY DEF Install, WriteFails, FileMissing, files
<1>3. CASE phase[c] = "undo"
  <2>1. Edits!Answers({c}, "failed")
    BY <1>1, <1>3, OneAnswer DEF Install, WriteFails, FileMissing, AfterWrite
  <2>2. UNCHANGED doc \/ doc' = [doc EXCEPT ![Document[c]] = @ \ {c}]
    <3>1. CASE UNCHANGED doc
      BY <3>1
    <3>2. CASE job[c] = "filled" /\ Replace(Document[c])
      <4>1. /\ doc' = [doc EXCEPT ![Document[c]] = read[c]] /\ c \notin read[c]
            /\ doc[Document[c]] \in {read[c], read[c] \cup {c}}
        BY <1>1, <1>3, <3>2, EditReplace DEF Written
      <4>2. read[c] = doc[Document[c]] \ {c}
        BY <4>1
      <4>3. QED  BY <4>1, <4>2
    <3>3. QED  BY <1>2, <3>1, <3>2
  <2>3. Edits!Fail(c)
    BY <1>1, <2>1, <2>2 DEF Edits!Fail
  <2>4. QED  BY <2>3 DEF Edits!Next
<1>4. CASE phase[c] = "write"
  <2>1. UNCHANGED outcome
    BY <1>4 DEF Install, WriteFails, FileMissing, AfterWrite
  <2>2. CASE UNCHANGED doc
    BY <2>1, <2>2 DEF Edits!editVars
  <2>3. CASE job[c] = "filled" /\ Replace(Document[c])
    <3>1. /\ doc' = [doc EXCEPT ![Document[c]] = read[c] \cup {c}] /\ c \notin read[c]
          /\ doc[Document[c]] \in {read[c], read[c] \cup {c}} /\ doc \in [Doc -> Text]
      BY <1>1, <1>4, <2>3, EditReplace DEF Written, TypeOK
    <3>2. CASE doc[Document[c]] = read[c]
      <4>1. Edits!Change(c)
        BY <1>1, <2>1, <3>1, <3>2 DEF Edits!Change, Edits!Changed
      <4>2. QED  BY <4>1 DEF Edits!Next
    <3>3. CASE doc[Document[c]] = read[c] \cup {c}
      <4>1. doc' = doc
        BY <1>1, <3>1, <3>3
      <4>2. QED  BY <2>1, <4>1 DEF Edits!editVars
    <3>4. QED  BY <3>1, <3>2, <3>3
  <2>4. QED  BY <1>2, <2>2, <2>3
<1>5. QED  BY <1>1, <1>3, <1>4 DEF Writing

\* The steps of a call that leave the documents answer it or not.
LEMMA EditAnswers ==
  ASSUME EditInv, torn' = {}, NEW c \in Call,
         \/ Begin(c) \/ Start(c) \/ Grant(c) \/ Unlock(c) \/ Read(c) \/ Backup(c) \/ Fill(c)
         \/ Observe(c) \/ Verify(c) \/ ReadFails(c) \/ BackupFails(c) \/ CheckFails(c)
         \/ Cancel(c)
  PROVE  Edits!Next \/ UNCHANGED Edits!editVars
<1>1. /\ TypeOK /\ Document[c] \in Doc
      /\ phase[c] \in Critical \cup {"lock"} => outcome[c] = "none"
  BY CallAssumption DEF EditInv, TextInv, LockInv
<1>2. UNCHANGED doc
  BY DEF Begin, Start, Grant, Unlock, Read, Backup, Fill, Observe, Verify, ReadFails, BackupFails,
     CheckFails, Cancel, files
<1>3. CASE Begin(c) \/ Start(c) \/ Unlock(c) \/ Backup(c) \/ Fill(c)
  BY <1>2, <1>3 DEF Begin, Start, Unlock, Backup, Fill, Edits!editVars
<1>4. CASE Grant(c) \/ Read(c)
  <2>1. /\ phase[c] \in {"lock", "read"} /\ torn = {}
        /\ \/ UNCHANGED outcome
           \/ End(c, "refused") \/ End(c, "denied")
    BY <1>4 DEF Grant, Enter, Read, history
  <2>2. ~Edits!Changed(c) /\ outcome[c] = "none"
    BY <1>1, <2>1 DEF EditInv, TextInv, Unwritten, Absent, Edits!Changed, Critical
  <2>3. CASE UNCHANGED outcome
    BY <1>2, <2>3 DEF Edits!editVars
  <2>4. CASE End(c, "refused") \/ End(c, "denied")
    <3>1. Edits!Decline(c)
      BY <1>1, <1>2, <2>2, <2>4, OneAnswer DEF Edits!Decline
    <3>2. QED  BY <3>1 DEF Edits!Next
  <2>5. QED  BY <2>1, <2>3, <2>4
<1>5. CASE Observe(c) \/ Verify(c) \/ ReadFails(c) \/ BackupFails(c) \/ CheckFails(c)
  <2>1. /\ phase[c] \in Critical
        /\ \/ UNCHANGED outcome
           \/ End(c, "failed")
           \/ End(c, "ok") /\ phase[c] = "verify" /\ torn = {}
    BY <1>5 DEF Observe, Verify, ReadFails, BackupFails, CheckFails, Recover, history, Critical
  <2>2. CASE UNCHANGED outcome
    BY <1>2, <2>2 DEF Edits!editVars
  <2>3. CASE End(c, "failed")
    <3>1. Edits!Fail(c)
      BY <1>1, <1>2, <2>1, <2>3, OneAnswer DEF Edits!Fail
    <3>2. QED  BY <3>1 DEF Edits!Next
  <2>4. CASE End(c, "ok") /\ phase[c] = "verify" /\ torn = {}
    <3>1. Edits!Changed(c)
      BY <2>4 DEF EditInv, TextInv, Knows, Past, Critical, Edits!Changed
    <3>2. Edits!Succeed(c)
      BY <1>1, <1>2, <2>1, <2>4, <3>1, OneAnswer DEF Edits!Succeed
    <3>3. QED  BY <3>2 DEF Edits!Next
  <2>5. QED  BY <2>1, <2>2, <2>3, <2>4
<1>6. CASE Cancel(c)
  <2>1. phase[c] \in Critical \cup {"lock"} /\ End(c, "cancelled")
    BY <1>6 DEF Cancel
  <2>2. Edits!Stop({c})
    BY <1>1, <1>2, <2>1, OneAnswer DEF Edits!Stop
  <2>3. QED  BY <2>2 DEF Edits!Next
<1>7. QED  BY <1>3, <1>4, <1>5, <1>6

LEMMA EditCrash ==
  ASSUME EditInv, NEW p \in Process, Crash(p)
  PROVE  Edits!Next \/ UNCHANGED Edits!editVars
<1> DEFINE C == {c \in Call : /\ Home[c] = p /\ phase[c] \notin {"idle", "done"}
                             /\ outcome[c] = "none"}
<1>1. outcome \in [Call -> {"none", "ok", "failed", "denied", "refused", "cancelled", "crashed"}]
  BY DEF EditInv, TextInv, LockInv, TypeOK
<1>2. UNCHANGED doc /\ outcome' = [c \in Call |-> IF c \in C THEN "crashed" ELSE outcome[c]]
  BY <1>1 DEF Crash
<1>3. Edits!Stop(C)
  BY <1>2 DEF Edits!Stop, Edits!Answers
<1>4. QED  BY <1>3 DEF Edits!Next

\* Every step without a torn write maps to a step of the promise or to none.
LEMMA EditRefines ==
  EditInv /\ [Next]_vars /\ torn' = {} => Edits!Next \/ UNCHANGED Edits!editVars
<1>1. SUFFICES ASSUME EditInv, [Next]_vars, torn' = {}
               PROVE  Edits!Next \/ UNCHANGED Edits!editVars
  OBVIOUS
<1>2. CASE UNCHANGED vars
  BY <1>2 DEF vars, files, coroutine, Edits!editVars
<1>3. CASE \E c \in Call : CallStep(c)
  <2>1. PICK c \in Call : CallStep(c)
    BY <1>3
  <2>2. CASE Install(c) \/ WriteFails(c) \/ FileMissing(c)
    <3>1. torn = {}
      BY <1>1, <2>2 DEF Install, WriteFails, FileMissing, history
    <3>2. QED  BY <1>1, <2>2, <3>1, EditWrites
  <2>3. CASE ~(Install(c) \/ WriteFails(c) \/ FileMissing(c))
    BY <1>1, <2>1, <2>3, EditAnswers DEF CallStep, Works, Fails
  <2>4. QED  BY <2>2, <2>3
<1>4. CASE \E s \in stray : GoesOn(s)
  <2>1. PICK s \in stray : GoesOn(s)
    BY <1>4
  <2>2. s.phase \notin Writing
    BY <1>1, <2>1 DEF EditInv, TextInv, GoesOn, StrayGrant, StrayFill, StrayInstall, StrayEnds,
       history
  <2>3. UNCHANGED <<doc, outcome>>
    BY <2>1, <2>2 DEF GoesOn, StrayGrant, StrayFill, StrayInstall, StrayEnds, files, coroutine
  <2>4. QED  BY <2>3 DEF Edits!editVars
<1>5. CASE \E p \in Process : Crash(p)
  BY <1>1, <1>5, EditCrash
<1>6. CASE RaiseBarrier \/ LowerBarrier
  BY <1>6 DEF RaiseBarrier, LowerBarrier, coroutine, Edits!editVars
<1>7. QED  BY <1>1, <1>2, <1>3, <1>4, <1>5, <1>6 DEF Next, CallStep

\* Documents keep their promise to the callers, step by step, as long as no write was torn.
THEOREM EditsAreSerial == Spec => KeepsEdits
<1>1. EditInv /\ [Next]_vars => [torn' = {} => Edits!Next]_(Edits!editVars)
  BY EditRefines
<1>2. QED  BY EditInit, EditStep, <1>1, PTL DEF Spec, KeepsEdits

\* A behaviour without a torn write implements SerialEdits.
THEOREM ImplementsSerialEdits == Spec /\ [](torn = {}) => Edits!Spec
<1>1. EditInv /\ [Next]_vars /\ (torn = {})' => [Edits!Next]_(Edits!editVars)
  BY EditRefines
<1>2. QED  BY EditInit, EditStep, <1>1, PTL DEF Spec, Edits!Spec

=============================================================================

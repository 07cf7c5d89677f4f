------------------------- MODULE CaseRegistry_proofs -------------------------
(***************************************************************************)
(* Theorems of CaseRegistry, for every set of processes, calls and kinds,  *)
(* every assignment of tools and targets, and every value of the bounds.   *)
(***************************************************************************)
EXTENDS CaseRegistry, TLAPS

(* What justifies a record of the registry, with the state it depends on   *)
(* as arguments, so that it can be used of rows that calls have read.      *)

LinkJustified(i, link, log, cas) ==
  link # Nobody => link \in log /\ Tool[link] = "link" /\ cas[link] = i

StatusJustified(i, status, log, edi, cas) ==
  /\ status \in {"closed", "wontfix"} =>
       \E d \in log : Tool[d] = "link" /\ cas[d] = i /\ CloseStatus(Landing[d]) = status
  /\ status = "investigating" => \E d \in log : Tool[d] = "reopen" /\ cas[d] = i
  /\ status = "complete" => \E d \in edi : cas[d] = i /\ Sets[d] = "complete"

Justified(i, record, reg, rep, log, edi, cas) ==
  /\ record.status # "absent" => i \in reg /\ rep[i] # "none"
  /\ record.status = "absent" => record.link = Nobody
  /\ LinkJustified(i, record.link, log, cas)
  /\ StatusJustified(i, record.status, log, edi, cas)

Sound(i, record) == Justified(i, record, registered, report, logged, edited, case)

(* The inductive invariant.                                                *)

Looking(c) == pc[c] = "record" \/ (pc[c] = "entry" /\ Tool[c] # "open")

Named == {"register", "create", "enlist", "claim", "own", "load", "record",
          "verify", "mutate", "extract", "refetch", "refresh"}

\* A report was read, and completed only by an edit that says so.
FoundSound(c, edi, cas) ==
  /\ found[c] # "none"
  /\ found[c] = "complete" => \E d \in edi : cas[d] = cas[c] /\ Sets[d] = "complete"

\* What the place of a call says of it.
CallKnown(c) ==
  /\ pc[c] = "entry" => Tool[c] \in {"open", "link", "reopen"}
  /\ pc[c] \in Sync \cup {"register", "create", "enlist", "claim", "own"} => Tool[c] = "open"
  /\ pc[c] \in {"load", "record"} => Tool[c] \in {"link", "reopen"}
  /\ pc[c] \in {"save", "release"} => tally[c][KindOf[c]] > 0
  /\ pc[c] \in Named \/ Looking(c) => case[c] \in Case
  /\ pc[c] = "create" => case[c] \in registered
  /\ pc[c] \in {"enlist", "claim", "own", "mutate", "extract", "refetch", "refresh"} =>
       report[case[c]] # "none"
  /\ Looking(c) => seen[c].status # "absent"
  /\ Looking(c) \/ pc[c] \in {"own", "refresh"} => Sound(case[c], seen[c])
  /\ pc[c] \in {"refetch", "refresh"} => FoundSound(c, edited, case)
  /\ pc[c] = "record" => c \in logged
  /\ pc[c] = "mutate" => sections[c] > 0
  /\ c \in logged \cup edited => pc[c] # "new" /\ Tool[c] # "open"

RowsKnown ==
  /\ \A i \in Case : Sound(i, row[i])
  /\ \A i \in Case : report[i] # "none" => i \in registered
  /\ \A i \in Case : report[i] = "complete" =>
       \E d \in edited : case[d] = i /\ Sets[d] = "complete"
  /\ \A i \in Earlier : report[i] # "none"

Known == TypeOK /\ RowsKnown /\ \A c \in Call : CallKnown(c)

\* What a step only adds to.
Grows ==
  /\ registered \subseteq registered' /\ logged \subseteq logged' /\ edited \subseteq edited'
  /\ \A i \in Case : report[i] # "none" => report'[i] # "none"
  /\ \A d \in logged \cup edited : case'[d] = case[d]

\* What a step of c leaves alone of another call.
Spared(x) ==
  /\ pc'[x] = pc[x] /\ case'[x] = case[x] /\ seen'[x] = seen[x]
  /\ sections'[x] = sections[x] /\ tally'[x] = tally[x] /\ found'[x] = found[x]
  /\ x \in logged' \cup edited' => x \in logged \cup edited

\* Records stay justified while the trail grows.
LEMMA StaysJustified ==
  ASSUME NEW i, NEW record, NEW reg, NEW rep, NEW log, NEW edi, NEW cas,
         NEW reg2, NEW rep2, NEW log2, NEW edi2, NEW cas2,
         Justified(i, record, reg, rep, log, edi, cas),
         reg \subseteq reg2, log \subseteq log2, edi \subseteq edi2,
         rep[i] # "none" => rep2[i] # "none",
         \A d \in log \cup edi : cas2[d] = cas[d]
  PROVE  Justified(i, record, reg2, rep2, log2, edi2, cas2)
<1>1. LinkJustified(i, record.link, log2, cas2)
  BY DEF Justified, LinkJustified
<1>2. StatusJustified(i, record.status, log2, edi2, cas2)
  BY DEF Justified, StatusJustified
<1>3. QED  BY <1>1, <1>2 DEF Justified

LEMMA GrowsSound ==
  ASSUME Grows, NEW i \in Case, Sound(i, row[i]), row'[i] = row[i]
  PROVE  Sound(i, row[i])'
<1>1. Justified(i, row[i], registered', report', logged', edited', case')
  BY StaysJustified DEF Grows, Sound
<1>2. QED  BY <1>1 DEF Sound

LEMMA KeepsSeen ==
  ASSUME Grows, NEW c \in Call, case[c] \in Case, Sound(case[c], seen[c]),
         case'[c] = case[c], seen'[c] = seen[c]
  PROVE  Sound(case[c], seen[c])'
<1>1. Justified(case[c], seen[c], registered', report', logged', edited', case')
  BY StaysJustified DEF Grows, Sound
<1>2. QED  BY <1>1 DEF Sound

\* Another call stays known.
LEMMA OthersKnown ==
  ASSUME Grows, NEW x \in Call, CallKnown(x), Spared(x)
  PROVE  CallKnown(x)'
<1>1. Looking(x)' <=> Looking(x)
  BY DEF Spared, Looking
<1>2. (pc[x] \in Named \/ Looking(x))' => case'[x] \in Case
  BY <1>1 DEF CallKnown, Spared
<1>3. (Looking(x) \/ pc[x] \in {"own", "refresh"})' => Sound(case[x], seen[x])'
  BY <1>1, <1>2, KeepsSeen DEF CallKnown, Spared, Named
<1>4. (pc[x] \in {"enlist", "claim", "own", "mutate", "extract", "refetch", "refresh"})' =>
        report'[case'[x]] # "none"
  BY DEF CallKnown, Spared, Named, Grows
<1>5. (pc[x] = "create" => case[x] \in registered)'
  BY DEF CallKnown, Spared, Grows
<1>6. (Looking(x) => seen[x].status # "absent")' /\ (pc[x] = "record" => x \in logged)'
  BY <1>1 DEF CallKnown, Spared, Grows
<1>7. (pc[x] = "mutate" => sections[x] > 0)' /\ (x \in logged \cup edited => pc[x] # "new" /\ Tool[x] # "open")'
  BY DEF CallKnown, Spared
<1>8. (pc[x] = "entry" => Tool[x] \in {"open", "link", "reopen"})'
      /\ (pc[x] \in Sync \cup {"register", "create", "enlist", "claim", "own"} => Tool[x] = "open")'
      /\ (pc[x] \in {"load", "record"} => Tool[x] \in {"link", "reopen"})'
      /\ (pc[x] \in {"save", "release"} => tally[x][KindOf[x]] > 0)'
  BY DEF CallKnown, Spared
<1>9. (pc[x] \in {"refetch", "refresh"} => FoundSound(x, edited, case))'
  <2>1. SUFFICES ASSUME pc'[x] \in {"refetch", "refresh"} PROVE FoundSound(x, edited, case)'
    OBVIOUS
  <2>2. FoundSound(x, edited, case) /\ found'[x] = found[x] /\ case'[x] = case[x]
    BY <2>1 DEF Spared, CallKnown
  <2>3. QED  BY <2>2 DEF FoundSound, Grows
<1>10. QED  BY <1>2, <1>3, <1>4, <1>5, <1>6, <1>7, <1>8, <1>9 DEF CallKnown

\* A step of one call.
LEMMA StepKnown ==
  ASSUME Known, NEW c \in Call, TypeOK', RowsKnown', CallKnown(c)', Grows,
         \A x \in Call \ {c} : Spared(x)
  PROVE  Known'
<1>1. \A x \in Call \ {c} : CallKnown(x)'
  BY OthersKnown DEF Known
<1>2. QED  BY <1>1 DEF Known

\* A step that leaves the registry and its trail alone.
LEMMA QuietRows ==
  ASSUME RowsKnown, UNCHANGED <<registry, trail>>,
         \A d \in logged \cup edited : case'[d] = case[d]
  PROVE  RowsKnown' /\ Grows
<1>1. Grows
  BY DEF Grows, registry, trail
<1>2. \A i \in Case : Sound(i, row[i])'
  BY <1>1, GrowsSound DEF RowsKnown, registry
<1>3. QED  BY <1>1, <1>2 DEF RowsKnown, registry, trail

Labels == Ended \cup Sync \cup {"entry", "register", "create", "enlist", "claim", "own",
            "load", "record", "verify", "final", "mutate", "extract", "refetch", "refresh"}

LEMMA UsedTyped ==
  ASSUME TypeOK, Calm \/ Fault
  PROVE  used' \in [calls : 0 .. MaxCalls, faults : 0 .. MaxFaults, crashes : 0 .. MaxCrashes]
<1>1. CASE Calm
  BY <1>1 DEF Calm, TypeOK
<1>2. CASE Fault
  BY <1>2, BoundsAssumption, SMTT(30) DEF Fault, TypeOK
<1>3. QED  BY <1>1, <1>2

\* A step that moves its call and leaves the registry, the trail and its case.
LEMMA QuietStep ==
  ASSUME Known, NEW c \in Call, NEW label \in Labels \ {"new"}, pc' = [pc EXCEPT ![c] = label],
         Calm \/ Fault, UNCHANGED <<registry, trail, case, seen, sections, found>>,
         tally' = tally \/ (tally' = [tally EXCEPT ![c] = tally'[c]] /\ tally'[c] \in [Kind -> 0 .. MaxSeq]),
         counter' \in [Kind -> 0 .. MaxSeq], lock' \in Call \cup {Nobody, Left},
         CallKnown(c)'
  PROVE  Known'
<1>1. used' \in [calls : 0 .. MaxCalls, faults : 0 .. MaxFaults, crashes : 0 .. MaxCrashes]
  BY UsedTyped DEF Known
<1>2. pc' \in [Call -> Labels] /\ tally' \in [Call -> [Kind -> 0 .. MaxSeq]]
  BY DEF Known, TypeOK, Labels
<1>3. TypeOK'
  BY <1>1, <1>2 DEF Known, TypeOK, registry, trail, Labels
<1>4. RowsKnown' /\ Grows
  BY QuietRows DEF Known
<1>5. \A x \in Call \ {c} : Spared(x)
  BY DEF Known, TypeOK, Spared, trail
<1>6. QED  BY <1>3, <1>4, <1>5, StepKnown

\* What QuietStep asks of a step to a place that says nothing of the case.
LEMMA PlainPlace ==
  ASSUME Known, NEW c \in Call, pc'[c] \in {"failed", "ok", "final", "wait", "count", "dead"},
         pc'[c] \in Sync => Tool[c] = "open", logged' = logged, edited' = edited
  PROVE  CallKnown(c)'
<1>1. c \in logged \cup edited => Tool[c] # "open"
  BY DEF Known, CallKnown
<1>2. QED  BY <1>1 DEF CallKnown, Looking, Named, Sync

LEMMA InitKnown == Init => Known
<1>1. SUFFICES ASSUME Init PROVE Known
  OBVIOUS
<1>2. TypeOK
  <2>1. NoRow \in Row
    BY DEF NoRow, Row, Statuses
  <2>2. [status |-> "open", doc |-> "bug", link |-> Nobody] \in Row
    BY DEF Row, Statuses
  <2>3. row \in [Case -> Row] /\ seen \in [Call -> Row]
    BY <1>1, <2>1, <2>2 DEF Init
  <2>4. QED  BY <1>1, <2>3, BoundsAssumption DEF Init, TypeOK, Ended, ReportStatuses
<1>3. \A i \in Case : Sound(i, row[i])
  <2>1. SUFFICES ASSUME NEW i \in Case PROVE Sound(i, row[i])
    OBVIOUS
  <2>2. CASE i \in Earlier
    BY <1>1, <2>2 DEF Init, Sound, Justified, LinkJustified, StatusJustified
  <2>3. CASE i \notin Earlier
    BY <1>1, <2>3 DEF Init, Sound, Justified, LinkJustified, StatusJustified, NoRow
  <2>4. QED  BY <2>2, <2>3
<1>4. RowsKnown
  BY <1>1, <1>3, BoundsAssumption DEF Init, RowsKnown
<1>5. \A c \in Call : CallKnown(c)
  BY <1>1 DEF Init, CallKnown, Looking, Named, Sync
<1>6. QED  BY <1>2, <1>4, <1>5 DEF Known

-----------------------------------------------------------------------------
(* One lemma for each action.                                               *)

LEMMA BeginKnown == ASSUME Known, NEW c \in Call, Begin(c) PROVE Known'
<1>1. pc[c] = "new" /\ c \notin logged \cup edited /\ UNCHANGED <<registry, trail, tally, seen, found, counter, lock>>
  BY DEF Begin, At, Known, CallKnown
<1>2. /\ pc'[c] \in {"entry", "load", "mutate"} /\ case'[c] \in Case \cup {Nobody} /\ sections'[c] \in 0 .. 2
      /\ pc' = [pc EXCEPT ![c] = pc'[c]] /\ case' = [case EXCEPT ![c] = case'[c]]
      /\ sections' = [sections EXCEPT ![c] = sections'[c]]
  <2>1. pc'[c] \in {"entry", "load", "mutate"} /\ pc' = [pc EXCEPT ![c] = pc'[c]]
    BY DEF Begin, Goto, Known, TypeOK
  <2>2. case'[c] \in Case \cup {Nobody} /\ case' = [case EXCEPT ![c] = case'[c]]
    BY CallAssumption DEF Begin, Known, TypeOK
  <2>3. sections'[c] \in 0 .. 2 /\ sections' = [sections EXCEPT ![c] = sections'[c]]
    BY DEF Begin, Known, TypeOK
  <2>4. QED  BY <2>1, <2>2, <2>3
<1>3. used' \in [calls : 0 .. MaxCalls, faults : 0 .. MaxFaults, crashes : 0 .. MaxCrashes]
  BY BoundsAssumption, SMTT(30) DEF Begin, Known, TypeOK
<1>4. pc' \in [Call -> Labels]
  BY <1>2 DEF Known, TypeOK, Labels
<1>5. TypeOK'
  BY <1>1, <1>2, <1>3, <1>4 DEF Known, TypeOK, registry, trail, Labels
<1>6. \A d \in logged \cup edited : case'[d] = case[d]
  BY <1>1, <1>2 DEF Known, TypeOK
<1>7. RowsKnown' /\ Grows
  BY <1>1, <1>6, QuietRows DEF Known
<1>8. \A x \in Call \ {c} : Spared(x)
  BY <1>1, <1>2 DEF Known, TypeOK, Spared, trail
<1>9. CallKnown(c)'
  <2>1. c \notin logged' \cup edited'
    BY <1>1 DEF trail
  <2>2. CASE Tool[c] = "open"
    <3>1. pc'[c] = "entry"
      BY <2>2 DEF Begin, Goto, Known, TypeOK
    <3>2. QED  BY <2>1, <2>2, <3>1 DEF CallKnown, Looking, Named, Sync
  <2>3. CASE Tool[c] \in {"link", "reopen"}
    <3>1. pc'[c] = "load" /\ case'[c] = Target[c]
      BY <2>3 DEF Begin, Goto, Known, TypeOK
    <3>2. case'[c] \in Case
      BY <3>1, CallAssumption
    <3>3. QED  BY <2>1, <2>3, <3>1, <3>2 DEF CallKnown, Looking, Named, Sync
  <2>4. CASE Tool[c] = "edit"
    <3>1. pc'[c] = "mutate" /\ case'[c] = Target[c] /\ sections'[c] = 1 /\ report[Target[c]] # "none"
      BY <2>4 DEF Begin, Goto, Known, TypeOK
    <3>2. case'[c] \in Case /\ report'[case'[c]] # "none"
      BY <1>1, <3>1, CallAssumption DEF registry
    <3>3. QED  BY <2>1, <2>4, <3>1, <3>2 DEF CallKnown, Looking, Named, Sync
  <2>5. QED  BY <2>2, <2>3, <2>4, CallAssumption
<1>10. QED  BY <1>5, <1>7, <1>8, <1>9, StepKnown

LEMMA AppendKnown == ASSUME Known, NEW c \in Call, AppendEntry(c) PROVE Known'
<1>1. /\ pc[c] = "entry" /\ Tool[c] \in {"open", "link", "reopen"}
      /\ pc' = [pc EXCEPT ![c] = IF Tool[c] = "open" THEN "wait" ELSE "record"]
      /\ logged' = IF Tool[c] = "open" THEN logged ELSE logged \cup {c}
      /\ UNCHANGED <<used, counter, lock, registry, registered, edited, case, tally, seen, sections, found>>
  BY DEF AppendEntry, At, Goto, Calm, own, Known, CallKnown
<1>2. TypeOK'
  BY <1>1 DEF Known, TypeOK, registry, Sync
<1>3. Grows /\ \A x \in Call \ {c} : Spared(x)
  BY <1>1 DEF Grows, Spared, registry, Known, TypeOK
<1>4. RowsKnown'
  <2>1. \A i \in Case : Sound(i, row[i])'
    BY <1>1, <1>3, GrowsSound DEF Known, RowsKnown, registry
  <2>2. QED  BY <1>1, <2>1 DEF Known, RowsKnown, registry
<1>5. CallKnown(c)'
  <2>1. CASE Tool[c] = "open"
    <3>1. pc'[c] = "wait"
      BY <1>1, <2>1 DEF Known, TypeOK
    <3>2. QED  BY <1>1, <2>1, <3>1, PlainPlace
  <2>2. CASE Tool[c] # "open"
    <3>1. pc'[c] = "record" /\ c \in logged' /\ Looking(c)
      BY <1>1, <2>2 DEF Known, TypeOK, Looking
    <3>2. case[c] \in Case /\ seen[c].status # "absent" /\ Sound(case[c], seen[c])
      BY <3>1 DEF Known, CallKnown
    <3>3. Sound(case[c], seen[c])'
      BY <1>1, <1>3, <3>2, KeepsSeen
    <3>4. QED  BY <1>1, <2>2, <3>1, <3>2, <3>3 DEF CallKnown, Named, Sync, Looking
  <2>3. QED  BY <2>1, <2>2
<1>6. QED  BY <1>2, <1>3, <1>4, <1>5, StepKnown

LEMMA TakeLockKnown == ASSUME Known, NEW c \in Call, TakeLock(c) PROVE Known'
<1>1. pc[c] = "wait" /\ Tool[c] = "open"
  BY DEF TakeLock, At, Known, CallKnown, Sync
<1>2. pc'[c] = "count"
  BY DEF TakeLock, Goto, Known, TypeOK
<1>3. CallKnown(c)'
  BY <1>1, <1>2, PlainPlace DEF TakeLock, trail
<1>4. QED  BY <1>3, QuietStep DEF TakeLock, Goto, own, Labels, Sync, Ended, Known, TypeOK

LEMMA TimesOutKnown == ASSUME Known, NEW c \in Call, TimesOut(c) PROVE Known'
<1>1. pc'[c] = "failed"
  BY DEF TimesOut, Goto, Known, TypeOK
<1>2. CallKnown(c)'
  BY <1>1, PlainPlace DEF TimesOut, Sync, trail
<1>3. QED  BY <1>2, QuietStep DEF TimesOut, Goto, own, Labels, Ended, Known, TypeOK

LEMMA CountKnown == ASSUME Known, NEW c \in Call, Count(c) PROVE Known'
<1>1. pc[c] = "count" /\ Tool[c] = "open" /\ pc' = [pc EXCEPT ![c] = "save"]
  BY DEF Count, At, Goto, Known, CallKnown, Sync
<1>2. PICK n \in 1 .. MaxSeq : tally' = [tally EXCEPT ![c] = [counter EXCEPT ![KindOf[c]] = n]]
  BY DEF Count
<1>3. tally'[c] = [counter EXCEPT ![KindOf[c]] = n] /\ tally'[c] \in [Kind -> 0 .. MaxSeq]
      /\ tally'[c][KindOf[c]] = n
  <2>1. tally'[c] = [counter EXCEPT ![KindOf[c]] = n]
    BY <1>2 DEF Known, TypeOK
  <2>2. KindOf[c] \in Kind /\ counter \in [Kind -> 0 .. MaxSeq] /\ n \in 0 .. MaxSeq
    BY CallAssumption, BoundsAssumption DEF Known, TypeOK
  <2>3. QED  BY <2>1, <2>2
<1>4. n > 0
  BY BoundsAssumption
<1>5. CallKnown(c)'
  BY <1>1, <1>3, <1>4 DEF Known, TypeOK, CallKnown, Looking, Named, Sync, Count, trail
<1>6. QED  BY <1>1, <1>2, <1>3, <1>5, QuietStep DEF Count, Labels, Sync, Known, TypeOK

LEMMA CountFailsKnown == ASSUME Known, NEW c \in Call, CountFails(c) PROVE Known'
<1>1. pc'[c] = "failed"
  BY DEF CountFails, Goto, Known, TypeOK
<1>2. CallKnown(c)'
  BY <1>1, PlainPlace DEF CountFails, Sync, trail
<1>3. QED  BY <1>2, QuietStep DEF CountFails, Goto, own, Labels, Ended, Known, TypeOK

LEMMA SaveKnown == ASSUME Known, NEW c \in Call, Save(c) PROVE Known'
<1>1. /\ pc[c] = "save" /\ Tool[c] = "open" /\ tally[c][KindOf[c]] > 0
      /\ pc' = [pc EXCEPT ![c] = "release"]
      /\ UNCHANGED <<tally, lock, registry, trail, case, seen, sections, found>>
  BY DEF Save, At, Goto, own, Known, CallKnown, Sync
<1>2. CallKnown(c)'
  BY <1>1 DEF Known, TypeOK, CallKnown, Looking, Named, Sync, trail
<1>3. counter' \in [Kind -> 0 .. MaxSeq]
  BY DEF Save, Known, TypeOK
<1>4. QED  BY <1>1, <1>2, <1>3, QuietStep DEF Save, Labels, Sync, Known, TypeOK

LEMMA ReleaseKnown == ASSUME Known, NEW c \in Call, Release(c) PROVE Known'
<1>1. /\ pc[c] = "release" /\ Tool[c] = "open" /\ tally[c][KindOf[c]] > 0
      /\ pc' = [pc EXCEPT ![c] = "register"]
      /\ case' = [case EXCEPT ![c] = <<KindOf[c], tally[c][KindOf[c]]>>]
      /\ UNCHANGED <<counter, registry, trail, tally, seen, sections, found>>
      /\ lock' \in Call \cup {Nobody, Left}
  BY DEF Release, At, Goto, Known, CallKnown, Sync
<1>2. <<KindOf[c], tally[c][KindOf[c]]>> \in Case
  <2>1. KindOf[c] \in Kind /\ tally[c] \in [Kind -> 0 .. MaxSeq]
    BY CallAssumption DEF Known, TypeOK
  <2>2. tally[c][KindOf[c]] \in 1 .. MaxSeq
    BY <1>1, <2>1, BoundsAssumption
  <2>3. QED  BY <2>1, <2>2 DEF Case
<1>3. used' \in [calls : 0 .. MaxCalls, faults : 0 .. MaxFaults, crashes : 0 .. MaxCrashes]
  BY UsedTyped DEF Release, Known
<1>4. TypeOK'
  BY <1>1, <1>2, <1>3 DEF Known, TypeOK, registry, trail
<1>5. \A d \in logged \cup edited : case'[d] = case[d]
  BY <1>1 DEF Known, TypeOK, CallKnown
<1>6. RowsKnown' /\ Grows
  BY <1>1, <1>5, QuietRows DEF Known
<1>7. \A x \in Call \ {c} : Spared(x)
  BY <1>1 DEF Known, TypeOK, Spared, trail
<1>8. CallKnown(c)'
  BY <1>1, <1>2 DEF Known, TypeOK, CallKnown, Looking, Named, Sync, trail
<1>9. QED  BY <1>4, <1>6, <1>7, <1>8, StepKnown

LEMMA RegisterKnown == ASSUME Known, NEW c \in Call, Register(c) PROVE Known'
<1>1. /\ pc[c] = "register" /\ Tool[c] = "open" /\ case[c] \in Case
      /\ pc' = [pc EXCEPT ![c] = "create"] /\ registered' = registered \cup {case[c]}
      /\ UNCHANGED <<used, counter, lock, registry, logged, edited, case, tally, seen, sections, found>>
  BY DEF Register, At, Goto, Calm, own, Known, CallKnown, Named
<1>2. TypeOK'
  BY <1>1 DEF Known, TypeOK, registry
<1>3. Grows /\ \A x \in Call \ {c} : Spared(x)
  BY <1>1 DEF Grows, Spared, registry, Known, TypeOK
<1>4. \A i \in Case : Sound(i, row[i])'
  BY <1>1, <1>3, GrowsSound DEF Known, RowsKnown, registry
<1>5. RowsKnown'
  BY <1>1, <1>4 DEF Known, RowsKnown, registry
<1>6. CallKnown(c)'
  BY <1>1 DEF Known, TypeOK, CallKnown, Looking, Named, Sync
<1>7. QED  BY <1>2, <1>3, <1>5, <1>6, StepKnown

\* The file of the report, created or as it was.
LEMMA CreatedKnown ==
  ASSUME Known, NEW c \in Call, pc[c] = "create", report' = Created(c) \/ report' = report,
         NEW label \in {"enlist", "failed"}, pc' = [pc EXCEPT ![c] = label],
         label = "enlist" => report' = Created(c),
         Calm \/ Fault, UNCHANGED <<counter, lock, row, trail, own>>
  PROVE  Known'
<1>1. /\ Tool[c] = "open" /\ case[c] \in registered /\ case[c] \in Case
      /\ UNCHANGED <<registered, logged, edited, case, tally, seen, sections, found>>
  BY DEF Known, CallKnown, Named, trail, own
<1>2. /\ report' \in [Case -> ReportStatuses]
      /\ \A i \in Case : report[i] # "none" => report'[i] = report[i]
      /\ \A i \in Case : report'[i] # report[i] => i = case[c] /\ report'[i] = "plain"
      /\ label = "enlist" => report'[case[c]] # "none"
  BY <1>1 DEF Created, Known, TypeOK, ReportStatuses
<1>3. used' \in [calls : 0 .. MaxCalls, faults : 0 .. MaxFaults, crashes : 0 .. MaxCrashes]
  BY UsedTyped DEF Known
<1>4. TypeOK'
  BY <1>1, <1>2, <1>3 DEF Known, TypeOK, Ended
<1>5. Grows /\ \A x \in Call \ {c} : Spared(x)
  BY <1>1, <1>2 DEF Grows, Spared, Known, TypeOK
<1>6. \A i \in Case : Sound(i, row[i])'
  BY <1>5, GrowsSound DEF Known, RowsKnown
<1>7. RowsKnown'
  <2>1. \A i \in Case : report'[i] # "none" => i \in registered'
    BY <1>1, <1>2 DEF Known, RowsKnown
  <2>2. \A i \in Case : report'[i] = "complete" =>
          \E d \in edited' : case'[d] = i /\ Sets[d] = "complete"
    BY <1>1, <1>2 DEF Known, RowsKnown
  <2>3. \A i \in Earlier : report'[i] # "none"
    BY <1>2, BoundsAssumption DEF Known, RowsKnown
  <2>4. QED  BY <1>6, <2>1, <2>2, <2>3 DEF RowsKnown
<1>8. CallKnown(c)'
  <2>1. CASE label = "enlist"
    BY <1>1, <1>2, <2>1 DEF Known, TypeOK, CallKnown, Looking, Named, Sync
  <2>2. CASE label = "failed"
    <3>1. pc'[c] = "failed"
      BY <2>2 DEF Known, TypeOK
    <3>2. QED  BY <1>1, <3>1 DEF Known, CallKnown, Looking, Named, Sync
  <2>3. QED  BY <2>1, <2>2
<1>9. QED  BY <1>4, <1>5, <1>7, <1>8, StepKnown

LEMMA CreateKnown == ASSUME Known, NEW c \in Call, Create(c) PROVE Known'
<1>1. PICK label \in {"enlist", "failed"} : pc' = [pc EXCEPT ![c] = label]
  BY DEF Create, Goto
<1>2. QED  BY <1>1, CreatedKnown DEF Create, At

LEMMA CreateFailsKnown == ASSUME Known, NEW c \in Call, CreateFails(c) PROVE Known'
BY CreatedKnown DEF CreateFails, At, Goto, Maybe

\* A call replaces the row of its case with a record that is justified.
LEMMA RowStep ==
  ASSUME Known, NEW c \in Call, case[c] \in Case, NEW record \in Row, Sound(case[c], record),
         Write(c, record) \/ row' = row,
         NEW label \in Labels \ {"new"}, pc' = [pc EXCEPT ![c] = label],
         Calm \/ Fault, UNCHANGED <<counter, lock, report, trail, case, tally, seen, found>>,
         sections' = [sections EXCEPT ![c] = sections'[c]], sections'[c] \in 0 .. 2,
         CallKnown(c)'
  PROVE  Known'
<1>1. used' \in [calls : 0 .. MaxCalls, faults : 0 .. MaxFaults, crashes : 0 .. MaxCrashes]
  BY UsedTyped DEF Known
<1>2. row' \in [Case -> Row] /\ \A i \in Case : row'[i] = row[i] \/ (i = case[c] /\ row'[i] = record)
  <2>1. row \in [Case -> Row]
    BY DEF Known, TypeOK
  <2>2. row' = [row EXCEPT ![case[c]] = record] \/ row' = row
    BY DEF Write
  <2>3. row' \in [Case -> Row]
    BY <2>1, <2>2
  <2>4. ASSUME NEW i \in Case PROVE row'[i] = row[i] \/ (i = case[c] /\ row'[i] = record)
    BY <2>1, <2>2
  <2>5. QED  BY <2>3, <2>4
<1>3. TypeOK'
  BY <1>1, <1>2 DEF Known, TypeOK, trail, Labels
<1>4. Grows /\ \A x \in Call \ {c} : Spared(x)
  BY DEF Grows, Spared, trail, Known, TypeOK
<1>5. ASSUME NEW i \in Case PROVE Sound(i, row[i])'
  <2>1. Sound(i, row'[i])
    BY <1>2 DEF Known, RowsKnown
  <2>2. QED  BY <2>1 DEF Sound, trail
<1>6. RowsKnown'
  BY <1>5 DEF Known, RowsKnown, trail
<1>7. QED  BY <1>3, <1>4, <1>6, StepKnown

LEMMA EnlistKnown == ASSUME Known, NEW c \in Call, Enlist(c) PROVE Known'
<1> DEFINE record == [status |-> "open", doc |-> "bug_report", link |-> Nobody]
<1>1. /\ pc[c] = "enlist" /\ Tool[c] = "open" /\ case[c] \in Case /\ report[case[c]] # "none"
      /\ pc' = [pc EXCEPT ![c] = "claim"] /\ pc'[c] = "claim"
      /\ UNCHANGED <<counter, lock, report, trail, case, tally, seen, sections, found>>
      /\ Write(c, record) \/ row' = row
  BY DEF Enlist, At, Goto, own, Known, CallKnown, Named, TypeOK
<1>2. record \in Row
  BY DEF Row, Statuses
<1>3. Sound(case[c], record)
  BY <1>1 DEF Known, RowsKnown, Sound, Justified, LinkJustified, StatusJustified
<1>4. CallKnown(c)'
  BY <1>1 DEF CallKnown, Looking, Named, Sync, trail, Known
<1>5. sections' = [sections EXCEPT ![c] = sections'[c]] /\ sections'[c] \in 0 .. 2
  BY <1>1 DEF Known, TypeOK
<1>6. QED  BY <1>1, <1>2, <1>3, <1>4, <1>5, RowStep DEF Enlist, Labels

\* The row is read, or its reading fails and counts as no row.
LEMMA FetchKnown ==
  ASSUME Known, NEW c \in Call, case[c] \in Case, report[case[c]] # "none", Fetch(c),
         NEW label \in {"own", "refresh"}, pc' = [pc EXCEPT ![c] = label],
         label = "own" => Tool[c] = "open", pc[c] # "new",
         label = "refresh" => FoundSound(c, edited, case)
  PROVE  Known'
<1>1. UNCHANGED <<counter, lock, registry, trail, case, tally, sections, found>>
  BY DEF Fetch
<1>2. PICK record \in Row : seen' = [seen EXCEPT ![c] = record] /\ Sound(case[c], record)
  <2>1. row[case[c]] \in Row /\ Sound(case[c], row[case[c]])
    BY DEF Known, TypeOK, RowsKnown
  <2>2. NoRow \in Row /\ Sound(case[c], NoRow)
    BY DEF NoRow, Row, Statuses, Sound, Justified, LinkJustified, StatusJustified
  <2>3. QED  BY <2>1, <2>2 DEF Fetch
<1>3. used' \in [calls : 0 .. MaxCalls, faults : 0 .. MaxFaults, crashes : 0 .. MaxCrashes]
  BY UsedTyped DEF Fetch, Known
<1>4. TypeOK'
  BY <1>1, <1>2, <1>3 DEF Known, TypeOK, registry, trail
<1>5. RowsKnown' /\ Grows
  BY <1>1, QuietRows DEF Known
<1>6. \A x \in Call \ {c} : Spared(x)
  BY <1>1, <1>2 DEF Known, TypeOK, Spared, trail
<1>7. Sound(case[c], seen[c])'
  BY <1>1, <1>2 DEF Known, TypeOK, Sound, registry, trail
<1>8. label = "refresh" => FoundSound(c, edited, case)'
  BY <1>1 DEF FoundSound, trail
<1>9. CallKnown(c)'
  BY <1>1, <1>7, <1>8 DEF Known, TypeOK, CallKnown, Looking, Named, Sync, registry, trail
<1>10. QED  BY <1>4, <1>5, <1>6, <1>9, StepKnown

LEMMA ClaimKnown == ASSUME Known, NEW c \in Call, Claim(c) PROVE Known'
<1>1. Tool[c] = "open" /\ case[c] \in Case /\ report[case[c]] # "none" /\ pc[c] = "claim"
  BY DEF Claim, At, Known, CallKnown, Named
<1>2. QED  BY <1>1, FetchKnown DEF Claim, Goto

LEMMA ExtractKnown == ASSUME Known, NEW c \in Call, Extract(c) PROVE Known'
<1>1. /\ case[c] \in Case /\ report[case[c]] # "none" /\ pc[c] = "extract"
      /\ pc' = [pc EXCEPT ![c] = "refetch"]
      /\ found' = [found EXCEPT ![c] = report[case[c]]]
      /\ UNCHANGED <<used, counter, lock, registry, trail, case, tally, seen, sections>>
  BY DEF Extract, At, Goto, Calm, Known, CallKnown, Named
<1>2. TypeOK'
  BY <1>1 DEF Known, TypeOK, registry, trail
<1>3. RowsKnown' /\ Grows
  BY <1>1, QuietRows DEF Known
<1>4. \A x \in Call \ {c} : Spared(x)
  BY <1>1 DEF Known, TypeOK, Spared, trail
<1>5. FoundSound(c, edited, case)'
  BY <1>1 DEF FoundSound, Known, TypeOK, RowsKnown, trail
<1>6. CallKnown(c)'
  BY <1>1, <1>5 DEF Known, TypeOK, CallKnown, Looking, Named, Sync, registry, trail
<1>7. QED  BY <1>2, <1>3, <1>4, <1>6, StepKnown

LEMMA RefetchKnown == ASSUME Known, NEW c \in Call, Refetch(c) PROVE Known'
<1>1. /\ case[c] \in Case /\ report[case[c]] # "none" /\ pc[c] = "refetch"
      /\ FoundSound(c, edited, case)
  BY DEF Refetch, At, Known, CallKnown, Named
<1>2. QED  BY <1>1, FetchKnown DEF Refetch, Goto

LEMMA OwnKnown == ASSUME Known, NEW c \in Call, Own(c) PROVE Known'
<1>1. /\ pc[c] = "own" /\ Tool[c] = "open" /\ case[c] \in Case /\ report[case[c]] # "none"
      /\ Sound(case[c], seen[c])
      /\ UNCHANGED <<counter, lock, report, trail, case, tally, seen, sections, found>>
      /\ logged' = logged /\ edited' = edited
  BY DEF Own, At, own, trail, Known, CallKnown, Named
<1>2. PICK label \in {"ok", "failed"} : pc' = [pc EXCEPT ![c] = label] /\ (Calm \/ Fault)
  BY DEF Own, Goto
<1>3. Write(c, Owned(c)) \/ row' = row
  BY DEF Own, Maybe
<1>4. Owned(c) \in Row
  BY DEF Owned, Row, Statuses, Known, TypeOK
<1>5. Sound(case[c], Owned(c))
  BY <1>1 DEF Owned, Known, RowsKnown, Sound, Justified, LinkJustified, StatusJustified
<1>6. pc'[c] = label
  BY <1>2 DEF Known, TypeOK
<1>7. CallKnown(c)'
  BY <1>1, <1>6, PlainPlace DEF Sync
<1>8. sections' = [sections EXCEPT ![c] = sections'[c]] /\ sections'[c] \in 0 .. 2
  BY <1>1 DEF Known, TypeOK
<1>9. QED  BY <1>1, <1>2, <1>3, <1>4, <1>5, <1>7, <1>8, RowStep DEF Labels, Ended

LEMMA LoadKnown == ASSUME Known, NEW c \in Call, Load(c) PROVE Known'
<1>1. /\ pc[c] = "load" /\ Tool[c] \in {"link", "reopen"} /\ case[c] \in Case
      /\ pc' = [pc EXCEPT ![c] = "entry"] /\ seen' = [seen EXCEPT ![c] = row[case[c]]]
      /\ row[case[c]].status # "absent"
      /\ UNCHANGED <<used, counter, lock, registry, trail, case, tally, sections, found>>
  BY DEF Load, At, Goto, Calm, Known, CallKnown, Named
<1>2. row[case[c]] \in Row /\ Sound(case[c], row[case[c]])
  BY <1>1 DEF Known, TypeOK, RowsKnown
<1>3. TypeOK'
  BY <1>1, <1>2 DEF Known, TypeOK, registry, trail
<1>4. RowsKnown' /\ Grows
  BY <1>1, QuietRows DEF Known
<1>5. \A x \in Call \ {c} : Spared(x)
  BY <1>1 DEF Known, TypeOK, Spared, trail
<1>6. pc'[c] = "entry" /\ case'[c] = case[c] /\ seen'[c] = row[case[c]]
  BY <1>1 DEF Known, TypeOK
<1>7. Sound(case[c], seen[c])'
  BY <1>1, <1>2, <1>6 DEF Sound, registry, trail
<1>8. CallKnown(c)'
  BY <1>1, <1>6, <1>7 DEF Known, CallKnown, Looking, Named, Sync, trail
<1>9. QED  BY <1>3, <1>4, <1>5, <1>8, StepKnown

\* Calls that only move on, and say nothing of their case any more.
LEMMA PlainStep ==
  ASSUME Known, NEW c \in Call, NEW label \in {"failed", "ok", "final"},
         pc' = [pc EXCEPT ![c] = label], Calm \/ Fault,
         UNCHANGED <<counter, lock, registry, trail, own>>
  PROVE  Known'
<1>1. pc'[c] = label /\ logged' = logged /\ edited' = edited
      /\ UNCHANGED <<case, tally, seen, sections, found>>
  BY DEF Known, TypeOK, trail, own
<1>2. CallKnown(c)'
  BY <1>1, PlainPlace DEF Sync
<1>3. label \in Labels \ {"new"} /\ counter' \in [Kind -> 0 .. MaxSeq]
      /\ lock' \in Call \cup {Nobody, Left}
  BY DEF Labels, Ended, Known, TypeOK
<1>4. QED  BY <1>1, <1>2, <1>3, QuietStep

LEMMA EndsKnown ==
  ASSUME Known, NEW c \in Call,
         Refuse(c) \/ Verify(c) \/ Finish(c) \/ MutateFails(c) \/ Fails(c)
  PROVE  Known'
<1>1. PICK label \in {"failed", "ok", "final"} : pc' = [pc EXCEPT ![c] = label]
  BY DEF Refuse, Verify, Finish, MutateFails, Fails, Goto
<1>2. Calm \/ Fault
  BY DEF Refuse, Verify, Finish, MutateFails, Fails
<1>3. UNCHANGED <<counter, lock, registry, trail, own>>
  BY DEF Refuse, Verify, Finish, MutateFails, Fails
<1>4. QED  BY <1>1, <1>2, <1>3, PlainStep

\* What link_fix and reopen_case write back is justified by their entry.
LEMMA RecordedSound ==
  ASSUME Known, NEW c \in Call, pc[c] = "record"
  PROVE  Recorded(c) \in Row /\ Sound(case[c], Recorded(c))
<1>1. /\ c \in logged /\ Tool[c] \in {"link", "reopen"} /\ case[c] \in Case
      /\ seen[c].status # "absent" /\ Sound(case[c], seen[c]) /\ seen[c] \in Row
  BY DEF Known, CallKnown, Looking, Named, TypeOK
<1>2. CASE Tool[c] = "link"
  <2>1. Recorded(c) = Linked(c)
    BY <1>2 DEF Recorded
  <2>2. CloseStatus(Landing[c]) \in {"closed", "wontfix", "none"}
    BY DEF CloseStatus
  <2>3. /\ Linked(c).link = c /\ Linked(c).doc = seen[c].doc
        /\ Linked(c).status = IF CloseStatus(Landing[c]) = "none" THEN seen[c].status
                              ELSE CloseStatus(Landing[c])
        /\ Linked(c) = [status |-> Linked(c).status, doc |-> seen[c].doc, link |-> c]
    BY <1>1 DEF Linked, Row
  <2>4. Linked(c) \in Row
    BY <1>1, <2>2, <2>3 DEF Row, Statuses
  <2>5. LinkJustified(case[c], Linked(c).link, logged, case)
    BY <1>1, <1>2, <2>3 DEF LinkJustified
  <2>6. StatusJustified(case[c], Linked(c).status, logged, edited, case)
    BY <1>1, <1>2, <2>2, <2>3 DEF StatusJustified, Sound, Justified
  <2>7. Linked(c).status # "absent" /\ case[c] \in registered /\ report[case[c]] # "none"
    BY <1>1, <2>2, <2>3 DEF Sound, Justified
  <2>8. QED  BY <2>1, <2>4, <2>5, <2>6, <2>7 DEF Sound, Justified
<1>3. CASE Tool[c] = "reopen"
  <2>1. Recorded(c) = Reopened(c)
    BY <1>3 DEF Recorded
  <2>2. Reopened(c) = [status |-> "investigating", doc |-> seen[c].doc, link |-> seen[c].link]
    BY <1>1 DEF Reopened, Row
  <2>3. Reopened(c) \in Row
    BY <1>1, <2>2 DEF Row, Statuses
  <2>4. LinkJustified(case[c], Reopened(c).link, logged, case)
    BY <1>1, <2>2 DEF LinkJustified, Sound, Justified
  <2>5. StatusJustified(case[c], Reopened(c).status, logged, edited, case)
    BY <1>1, <1>3, <2>2 DEF StatusJustified
  <2>6. case[c] \in registered /\ report[case[c]] # "none" /\ Reopened(c).status # "absent"
    BY <1>1, <2>2 DEF Sound, Justified
  <2>7. QED  BY <2>1, <2>3, <2>4, <2>5, <2>6 DEF Sound, Justified
<1>4. QED  BY <1>1, <1>2, <1>3

LEMMA RecordKnown == ASSUME Known, NEW c \in Call, Record(c) PROVE Known'
<1> DEFINE label == IF Tool[c] = "link" THEN "mutate" ELSE "verify"
<1>1. /\ pc[c] = "record" /\ Tool[c] \in {"link", "reopen"} /\ case[c] \in Case
      /\ pc' = [pc EXCEPT ![c] = label]
      /\ Write(c, Recorded(c)) \/ row' = row
      /\ sections' = [sections EXCEPT ![c] = IF Tool[c] = "link" THEN 2 ELSE 0]
      /\ Calm /\ UNCHANGED <<counter, lock, report, trail, case, tally, seen, found>>
  BY DEF Record, At, Goto, Known, CallKnown, Named
<1>2. Recorded(c) \in Row /\ Sound(case[c], Recorded(c))
  BY <1>1, RecordedSound
<1>3. report[case[c]] # "none"
  BY <1>1 DEF Known, CallKnown, Looking, Sound, Justified
<1>4. pc'[c] = label /\ sections'[c] = (IF Tool[c] = "link" THEN 2 ELSE 0)
      /\ sections' = [sections EXCEPT ![c] = sections'[c]]
  BY <1>1 DEF Known, TypeOK
<1>5. CallKnown(c)'
  <2>1. CASE Tool[c] = "link"
    BY <1>1, <1>3, <1>4, <2>1 DEF CallKnown, Looking, Named, Sync, trail
  <2>2. CASE Tool[c] = "reopen"
    BY <1>1, <1>3, <1>4, <2>2 DEF CallKnown, Looking, Named, Sync, trail
  <2>3. QED  BY <1>1, <2>1, <2>2
<1>6. label \in Labels \ {"new"} /\ sections'[c] \in 0 .. 2
  BY <1>4 DEF Labels
<1>7. QED  BY <1>1, <1>2, <1>4, <1>5, <1>6, RowStep

LEMMA RecordFailsKnown == ASSUME Known, NEW c \in Call, RecordFails(c) PROVE Known'
<1>1. /\ pc[c] = "record" /\ case[c] \in Case /\ pc' = [pc EXCEPT ![c] = "failed"]
      /\ Write(c, Recorded(c)) \/ row' = row
      /\ Fault /\ UNCHANGED <<counter, lock, report, trail, case, tally, seen, sections, found>>
      /\ logged' = logged /\ edited' = edited
  BY DEF RecordFails, At, Goto, Maybe, own, trail, Known, CallKnown, Named
<1>2. Recorded(c) \in Row /\ Sound(case[c], Recorded(c))
  BY <1>1, RecordedSound
<1>3. pc'[c] = "failed" /\ sections' = [sections EXCEPT ![c] = sections'[c]]
      /\ sections'[c] \in 0 .. 2
  BY <1>1 DEF Known, TypeOK
<1>4. CallKnown(c)'
  BY <1>1, <1>3, PlainPlace DEF Sync
<1>5. "failed" \in Labels \ {"new"}
  BY DEF Labels, Ended
<1>6. QED  BY <1>1, <1>2, <1>3, <1>4, <1>5, RowStep

LEMMA MutateKnown == ASSUME Known, NEW c \in Call, Mutate(c) PROVE Known'
<1>1. /\ pc[c] = "mutate" /\ case[c] \in Case /\ report[case[c]] # "none" /\ sections[c] > 0
      /\ pc' = [pc EXCEPT ![c] = "extract"]
      /\ report' = [report EXCEPT ![case[c]] = Front(c)]
      /\ edited' = IF Tool[c] = "edit" THEN edited \cup {c} ELSE edited
      /\ sections' = [sections EXCEPT ![c] = @ - 1]
      /\ UNCHANGED <<used, counter, lock, row, registered, logged, case, tally, seen, found>>
  BY DEF Mutate, At, Goto, Calm, Known, CallKnown, Named
<1>2. /\ Front(c) \in {"scaffolded", "complete"}
      /\ Front(c) = "complete" => report[case[c]] = "complete" \/ (c \in edited' /\ Sets[c] = "complete")
  BY <1>1 DEF Front, Known, TypeOK, ReportStatuses
<1>3. TypeOK'
  <2>1. report' \in [Case -> ReportStatuses]
    BY <1>1, <1>2 DEF Known, TypeOK, ReportStatuses
  <2>2. sections' \in [Call -> 0 .. 2]
    BY <1>1 DEF Known, TypeOK
  <2>3. QED  BY <1>1, <2>1, <2>2 DEF Known, TypeOK
<1>4. /\ \A i \in Case : i # case[c] => report'[i] = report[i]
      /\ report'[case[c]] = Front(c)
  BY <1>1 DEF Known, TypeOK
<1>5. Grows /\ \A x \in Call \ {c} : Spared(x)
  BY <1>1, <1>2, <1>4 DEF Grows, Spared, Known, TypeOK
<1>6. RowsKnown'
  <2>1. \A i \in Case : Sound(i, row[i])'
    BY <1>1, <1>5, GrowsSound DEF Known, RowsKnown
  <2>2. \A i \in Case : report'[i] # "none" => i \in registered'
    BY <1>1, <1>4 DEF Known, RowsKnown
  <2>3. \A i \in Case : report'[i] = "complete" =>
          \E d \in edited' : case'[d] = i /\ Sets[d] = "complete"
    BY <1>1, <1>2, <1>4 DEF Known, RowsKnown
  <2>4. \A i \in Earlier : report'[i] # "none"
    BY <1>1, <1>2, <1>4, BoundsAssumption DEF Known, RowsKnown
  <2>5. QED  BY <2>1, <2>2, <2>3, <2>4 DEF RowsKnown
<1>7. CallKnown(c)'
  <2>1. pc'[c] = "extract" /\ case'[c] = case[c] /\ report'[case[c]] # "none"
    BY <1>1, <1>2, <1>4 DEF Known, TypeOK
  <2>2. c \in logged' \cup edited' => Tool[c] # "open"
    BY <1>1 DEF Known, CallKnown
  <2>3. QED  BY <1>1, <2>1, <2>2 DEF CallKnown, Looking, Named, Sync
<1>8. QED  BY <1>3, <1>5, <1>6, <1>7, StepKnown

LEMMA RefreshKnown == ASSUME Known, NEW c \in Call, Refresh(c) PROVE Known'
<1> DEFINE label == IF sections[c] > 0 THEN "mutate"
                    ELSE IF Tool[c] = "link" THEN "final" ELSE "ok"
<1>1. /\ pc[c] = "refresh" /\ case[c] \in Case /\ report[case[c]] # "none"
      /\ Sound(case[c], seen[c]) /\ seen[c] \in Row /\ FoundSound(c, edited, case)
      /\ pc' = [pc EXCEPT ![c] = label]
      /\ Write(c, Refreshed(c)) \/ row' = row
      /\ Calm \/ Fault
      /\ UNCHANGED <<counter, lock, report, trail, case, tally, seen, sections, found>>
      /\ logged' = logged /\ edited' = edited
  BY DEF Refresh, At, Goto, own, trail, Known, CallKnown, Named, TypeOK
<1>2. found[c] \in {"plain", "scaffolded", "complete"}
  BY <1>1 DEF Known, TypeOK, FoundSound, ReportStatuses
<1>3. Refreshed(c).status \in Statuses \ {"absent"}
  BY <1>1, <1>2 DEF Refreshed, Closes, Statuses
<1>4. Refreshed(c) \in Row
  BY <1>1, <1>3 DEF Refreshed, Row
<1>5. StatusJustified(case[c], Refreshed(c).status, logged, edited, case)
  <2>1. CASE Closes(seen[c].status)
    BY <1>1, <2>1 DEF Refreshed, Sound, Justified
  <2>2. CASE ~Closes(seen[c].status)
    <3>1. Refreshed(c).status \in {"open", "scaffolded"} \/ found[c] = "complete"
      BY <1>2, <2>2 DEF Refreshed
    <3>2. CASE Refreshed(c).status \in {"open", "scaffolded"}
      BY <3>2 DEF StatusJustified
    <3>3. CASE found[c] = "complete"
      BY <1>1, <2>2, <3>3 DEF Refreshed, StatusJustified, FoundSound
    <3>4. QED  BY <3>1, <3>2, <3>3
  <2>3. QED  BY <2>1, <2>2
<1>6. Sound(case[c], Refreshed(c))
  <2>1. Refreshed(c).link = seen[c].link /\ LinkJustified(case[c], seen[c].link, logged, case)
    BY <1>1 DEF Refreshed, Sound, Justified
  <2>2. case[c] \in registered
    BY <1>1 DEF Known, RowsKnown
  <2>3. QED  BY <1>1, <1>3, <1>5, <2>1, <2>2 DEF Sound, Justified
<1>7. pc'[c] = label /\ sections' = [sections EXCEPT ![c] = sections'[c]]
      /\ sections'[c] \in 0 .. 2
  BY <1>1 DEF Known, TypeOK
<1>8. CallKnown(c)'
  <2>1. CASE sections[c] > 0
    <3>1. pc'[c] = "mutate" /\ sections'[c] > 0 /\ case'[c] = case[c] /\ report'[case[c]] # "none"
      BY <1>1, <1>7, <2>1
    <3>2. c \in logged' \cup edited' => Tool[c] # "open"
      BY <1>1 DEF Known, CallKnown
    <3>3. QED  BY <1>1, <3>1, <3>2 DEF CallKnown, Looking, Named, Sync
  <2>2. CASE ~(sections[c] > 0)
    BY <1>1, <1>7, <2>2, PlainPlace DEF Sync
  <2>3. QED  BY <2>1, <2>2
<1>9. label \in Labels \ {"new"}
  BY DEF Labels, Ended
<1>10. QED  BY <1>1, <1>4, <1>6, <1>7, <1>8, <1>9, RowStep

LEMMA CrashKnown == ASSUME Known, NEW p \in Process, Crash(p) PROVE Known'
<1>1. /\ \A c \in Call : pc'[c] = pc[c] \/ pc'[c] = "dead"
      /\ pc' \in [Call -> Labels]
      /\ UNCHANGED <<counter, registry, trail, own>>
  BY DEF Crash, Known, TypeOK, Labels, Ended
<1>2. used' \in [calls : 0 .. MaxCalls, faults : 0 .. MaxFaults, crashes : 0 .. MaxCrashes]
  <2>1. MaxCrashes \in Nat /\ used.crashes < MaxCrashes /\ used' = [used EXCEPT !.crashes = @ + 1]
    BY BoundsAssumption DEF Crash
  <2>2. used \in [calls : 0 .. MaxCalls, faults : 0 .. MaxFaults, crashes : 0 .. MaxCrashes]
    BY DEF Known, TypeOK
  <2>3. used.crashes + 1 \in 0 .. MaxCrashes
    BY <2>1, <2>2
  <2>4. QED  BY <2>1, <2>2, <2>3
<1>3. lock' \in Call \cup {Nobody, Left}
  BY DEF Crash, Known, TypeOK
<1>4. TypeOK'
  BY <1>1, <1>2, <1>3 DEF Known, TypeOK, registry, trail, own, Labels
<1>5. RowsKnown' /\ Grows
  BY <1>1, QuietRows DEF Known, own
<1>6. ASSUME NEW c \in Call PROVE CallKnown(c)'
  <2>1. CASE pc'[c] = pc[c]
    BY <1>1, <1>5, <2>1, OthersKnown DEF Spared, own, trail, Known
  <2>2. CASE pc'[c] = "dead"
    BY <1>1, <2>2, PlainPlace DEF trail, Sync
  <2>3. QED  BY <1>1, <2>1, <2>2
<1>7. QED  BY <1>4, <1>5, <1>6 DEF Known

LEMMA NextKnown == Known /\ [Next]_vars => Known'
<1>1. SUFFICES ASSUME Known, [Next]_vars PROVE Known'
  OBVIOUS
<1>2. ASSUME NEW c \in Call, Begin(c) \/ AppendEntry(c) PROVE Known'
  BY <1>1, <1>2, BeginKnown, AppendKnown
<1>3. ASSUME NEW c \in Call, Allocates(c) PROVE Known'
  BY <1>1, <1>3, TakeLockKnown, TimesOutKnown, CountKnown, CountFailsKnown, SaveKnown,
     ReleaseKnown DEF Allocates
<1>4. ASSUME NEW c \in Call, Opens(c) PROVE Known'
  BY <1>1, <1>4, RegisterKnown, CreateKnown, CreateFailsKnown, EnlistKnown, ClaimKnown,
     OwnKnown DEF Opens
<1>5. ASSUME NEW c \in Call, Changes(c) \/ Fails(c) PROVE Known'
  BY <1>1, <1>5, LoadKnown, EndsKnown, RecordKnown, RecordFailsKnown DEF Changes
<1>6. ASSUME NEW c \in Call, Edits(c) PROVE Known'
  BY <1>1, <1>6, MutateKnown, EndsKnown, ExtractKnown, RefetchKnown, RefreshKnown DEF Edits
<1>7. ASSUME NEW p \in Process, Crash(p) PROVE Known'
  BY <1>1, <1>7, CrashKnown
<1>8. ASSUME UNCHANGED vars PROVE Known'
  <2>1. UNCHANGED <<counter, lock, registry, trail, pc, own, used>>
    BY <1>8 DEF vars
  <2>2. TypeOK'
    BY <1>1, <2>1 DEF Known, TypeOK, registry, trail, own
  <2>3. RowsKnown' /\ Grows
    BY <1>1, <2>1, QuietRows DEF Known, own
  <2>4. \A x \in Call : CallKnown(x)'
    BY <1>1, <2>1, <2>3, OthersKnown DEF Known, Spared, own, trail
  <2>5. QED  BY <2>2, <2>3, <2>4 DEF Known
<1>9. QED  BY <1>1, <1>2, <1>3, <1>4, <1>5, <1>6, <1>7, <1>8 DEF Next, Goes

-----------------------------------------------------------------------------

LEMMA SpecKnown == Spec => []Known
<1>1. QED  BY InitKnown, NextKnown, PTL DEF Spec

\* Every variable has its type, whatever calls, failures and crashes.
THEOREM TypeCorrect == Spec => []TypeOK
<1>1. Known => TypeOK
  BY DEF Known
<1>2. QED  BY <1>1, SpecKnown, PTL

\* The log explains the registry: no interleaving of tools that write back
\* rows they read before, no failing step and no crash leaves a row whose
\* status or fix link no entry or edit accounts for.
THEOREM RowsAreExplained == Spec => []RowsExplained
<1>1. Known => RowsExplained
  <2>1. SUFFICES ASSUME Known, NEW i \in Case PROVE Explained(i, row[i])
    BY DEF RowsExplained
  <2>2. Sound(i, row[i])
    BY <2>1 DEF Known, RowsKnown
  <2>3. row[i].link # Nobody => row[i].link \in LoggedFor(i, "link")
    BY <2>2 DEF Sound, Justified, LinkJustified, LoggedFor
  <2>4. StatusExplained(i, row[i].status)
    BY <2>2 DEF Sound, Justified, StatusJustified, StatusExplained, LoggedFor
  <2>5. QED  BY <2>2, <2>3, <2>4 DEF Explained, Sound, Justified
<1>2. QED  BY <1>1, SpecKnown, PTL

-----------------------------------------------------------------------------
(* Identifiers: one call at a time is between the count of a number and    *)
(* the release of the lock, and no number given out exceeds the counter.   *)

InSection(c) == pc[c] \in {"count", "save", "release"}

Number(c) == <<KindOf[c], tally[c][KindOf[c]]>>

\* An identifier given out is new and no larger than the counter.
GivenOut(c) ==
  /\ case[c] \in Case \ Earlier
  /\ case[c][1] = KindOf[c] /\ case[c][2] <= counter[KindOf[c]]

\* The number a call has counted is larger than the counter.
Counted(c) ==
  /\ tally[c][KindOf[c]] > counter[KindOf[c]]
  /\ \A k \in Kind : tally[c][k] >= counter[k]
  /\ Number(c) \notin Earlier

\* The number a call has saved is nobody else's.
Saved(c) ==
  /\ counter = tally[c] /\ Number(c) \notin Earlier
  /\ \A d \in Call \ {c} : Opened(d) => case[d] # Number(c)

NumberKnown(c) ==
  /\ InSection(c) => lock = c
  /\ Opened(c) => GivenOut(c)
  /\ pc[c] = "save" => Counted(c)
  /\ pc[c] = "release" => Saved(c)

Distinct == \A c, d \in Call : Opened(c) /\ Opened(d) /\ c # d => case[c] # case[d]

Numbers == (\A c \in Call : NumberKnown(c)) /\ Distinct

\* What a step outside of the section leaves alone of every call.
Outside ==
  /\ UNCHANGED <<counter, lock, tally>>
  /\ \A x \in Call : InSection(x)' => pc'[x] = pc[x]
  /\ \A x \in Call : Opened(x)' => Opened(x) /\ case'[x] = case[x]

LEMMA OutsideNumbers == ASSUME Numbers, Outside PROVE Numbers'
<1>1. ASSUME NEW x \in Call PROVE NumberKnown(x)'
  <2>1. (InSection(x) => lock = x)'
    BY DEF Numbers, NumberKnown, Outside, InSection
  <2>2. (Opened(x) => GivenOut(x))'
    BY DEF Numbers, NumberKnown, Outside, GivenOut
  <2>3. (pc[x] = "save" => Counted(x))'
    BY DEF Numbers, NumberKnown, Outside, InSection, Counted, Number
  <2>4. (pc[x] = "release" => Saved(x))'
    BY DEF Numbers, NumberKnown, Outside, InSection, Saved, Number
  <2>5. QED  BY <2>1, <2>2, <2>3, <2>4 DEF NumberKnown
<1>2. Distinct'
  BY DEF Numbers, Distinct, Outside
<1>3. QED  BY <1>1, <1>2 DEF Numbers

\* A step of c to a place outside of the section that keeps its case.
LEMMA PlaceOutside ==
  ASSUME Known, NEW c \in Call, NEW label \in Labels \ {"count", "save", "release"},
         pc' = [pc EXCEPT ![c] = label], UNCHANGED <<counter, lock, case, tally>>
  PROVE  Outside
<1>1. \A x \in Call : InSection(x)' => pc'[x] = pc[x]
  BY DEF InSection, Known, TypeOK
<1>2. \A x \in Call : Opened(x)' => Opened(x) /\ case'[x] = case[x]
  BY DEF Opened
<1>3. QED  BY <1>1, <1>2 DEF Outside

LEMMA BeginOutside == ASSUME Known, NEW c \in Call, Begin(c) PROVE Outside
<1>1. \A x \in Call : InSection(x)' => pc'[x] = pc[x]
  BY DEF Begin, Goto, InSection, Known, TypeOK
<1>2. \A x \in Call : Opened(x)' => Opened(x) /\ case'[x] = case[x]
  BY DEF Begin, Opened, Known, TypeOK
<1>3. QED  BY <1>1, <1>2 DEF Begin, Outside

LEMMA StepsOutside ==
  ASSUME Known, NEW c \in Call,
         \/ AppendEntry(c) \/ TimesOut(c) \/ Opens(c) \/ Changes(c) \/ Edits(c) \/ Fails(c)
  PROVE  Outside
<1>1. ASSUME AppendEntry(c) \/ TimesOut(c) \/ Fails(c) PROVE Outside
  <2>1. PICK label \in {"wait", "record", "failed"} : pc' = [pc EXCEPT ![c] = label]
    BY <1>1 DEF AppendEntry, TimesOut, Fails, Goto
  <2>2. UNCHANGED <<counter, lock, case, tally>>
    BY <1>1 DEF AppendEntry, TimesOut, Fails, own
  <2>3. QED  BY <2>1, <2>2, PlaceOutside DEF Labels, Sync, Ended
<1>2. ASSUME Opens(c) PROVE Outside
  <2>1. PICK label \in {"create", "enlist", "claim", "own", "ok", "failed"} :
          pc' = [pc EXCEPT ![c] = label]
    BY <1>2 DEF Opens, Register, Create, CreateFails, Enlist, Claim, Own, Goto
  <2>2. UNCHANGED <<counter, lock, case, tally>>
    BY <1>2 DEF Opens, Register, Create, CreateFails, Enlist, Claim, Own, Fetch, own
  <2>3. QED  BY <2>1, <2>2, PlaceOutside DEF Labels, Ended
<1>3. ASSUME Changes(c) PROVE Outside
  <2>1. PICK label \in {"entry", "failed", "mutate", "verify", "final", "ok"} :
          pc' = [pc EXCEPT ![c] = label]
    BY <1>3 DEF Changes, Load, Refuse, Record, RecordFails, Verify, Finish, Goto
  <2>2. UNCHANGED <<counter, lock, case, tally>>
    BY <1>3 DEF Changes, Load, Refuse, Record, RecordFails, Verify, Finish, own
  <2>3. QED  BY <2>1, <2>2, PlaceOutside DEF Labels, Ended
<1>4. ASSUME Edits(c) PROVE Outside
  <2>1. PICK label \in {"extract", "refetch", "refresh", "failed", "mutate", "final", "ok"} :
          pc' = [pc EXCEPT ![c] = label]
    BY <1>4 DEF Edits, Mutate, MutateFails, Extract, Refetch, Refresh, Goto
  <2>2. UNCHANGED <<counter, lock, case, tally>>
    BY <1>4 DEF Edits, Mutate, MutateFails, Extract, Refetch, Refresh, Fetch, own
  <2>3. QED  BY <2>1, <2>2, PlaceOutside DEF Labels, Ended
<1>5. QED  BY <1>1, <1>2, <1>3, <1>4

\* While one call is in the section no other one is.
LEMMA Alone ==
  ASSUME Numbers, NEW c \in Call, NEW d \in Call \ {c}, lock = c \/ lock = Nobody
  PROVE  ~InSection(d)
BY NamesAssumption DEF Numbers, NumberKnown

\* A step in the section keeps what has been given out.
LEMMA SectionStep ==
  ASSUME Known, Numbers, NEW c \in Call, lock = c \/ lock = Nobody, pc' = [pc EXCEPT ![c] = pc'[c]],
         UNCHANGED case, NumberKnown(c)',
         \A k \in Kind : counter'[k] >= counter[k], counter' \in [Kind -> Nat]
  PROVE  Numbers'
<1>1. ASSUME NEW d \in Call \ {c} PROVE NumberKnown(d)'
  <2>1. ~InSection(d)'
    BY Alone DEF InSection, Known, TypeOK
  <2>2. (Opened(d) => GivenOut(d))'
    <3>1. SUFFICES ASSUME Opened(d) PROVE GivenOut(d)'
      BY DEF Opened
    <3>2. GivenOut(d)
      BY <3>1 DEF Numbers, NumberKnown
    <3>3. KindOf[d] \in Kind /\ counter[KindOf[d]] \in Nat /\ case[d][2] \in Nat
      BY <3>2, CallAssumption, BoundsAssumption DEF GivenOut, Known, TypeOK, Case
    <3>4. case[d][2] <= counter'[KindOf[d]]
      BY <3>2, <3>3 DEF GivenOut
    <3>5. QED  BY <3>2, <3>4 DEF GivenOut
  <2>3. QED  BY <2>1, <2>2 DEF NumberKnown, InSection
<1>2. Distinct'
  BY DEF Numbers, Distinct, Opened
<1>3. QED  BY <1>1, <1>2 DEF Numbers

LEMMA TakeLockNumbers == ASSUME Known, Numbers, NEW c \in Call, TakeLock(c) PROVE Numbers'
<1>1. pc' = [pc EXCEPT ![c] = "count"] /\ pc'[c] = "count" /\ lock = Nobody /\ lock' = c
      /\ UNCHANGED <<counter, case, tally>>
  BY DEF TakeLock, Goto, own, Known, TypeOK
<1>2. NumberKnown(c)'
  BY <1>1 DEF Numbers, NumberKnown, Opened, GivenOut
<1>3. counter' \in [Kind -> Nat] /\ \A k \in Kind : counter'[k] >= counter[k]
  BY <1>1 DEF Known, TypeOK
<1>4. QED  BY <1>1, <1>2, <1>3, SectionStep

LEMMA CountNumbers == ASSUME Known, Numbers, NEW c \in Call, Count(c) PROVE Numbers'
<1>1. /\ pc[c] = "count" /\ pc' = [pc EXCEPT ![c] = "save"] /\ pc'[c] = "save"
      /\ lock = c /\ UNCHANGED <<counter, lock, case>>
  BY DEF Count, At, Goto, Known, TypeOK, Numbers, NumberKnown, InSection
<1>2. PICK n \in 1 .. MaxSeq :
        /\ IsNext(KindOf[c], n) /\ tally' = [tally EXCEPT ![c] = [counter EXCEPT ![KindOf[c]] = n]]
  BY DEF Count
<1>3. KindOf[c] \in Kind /\ counter \in [Kind -> 0 .. MaxSeq]
  BY CallAssumption DEF Known, TypeOK
<1>4. tally'[c] = [counter EXCEPT ![KindOf[c]] = n]
  BY <1>2 DEF Known, TypeOK
<1>5. n > counter[KindOf[c]] /\ tally'[c][KindOf[c]] = n
  BY <1>2, <1>3, <1>4 DEF IsNext
<1>6. \A k \in Kind : tally'[c][k] >= counter[k]
  BY <1>3, <1>4, <1>5, BoundsAssumption
<1>7. Number(c)' \notin Earlier
  BY <1>2, <1>5 DEF Number, IsNext, Known, RowsKnown
<1>8. NumberKnown(c)'
  BY <1>1, <1>5, <1>6, <1>7 DEF Numbers, NumberKnown, Opened, GivenOut, Counted
<1>9. counter' \in [Kind -> Nat] /\ \A k \in Kind : counter'[k] >= counter[k]
  BY <1>1 DEF Known, TypeOK
<1>10. QED  BY <1>1, <1>8, <1>9, SectionStep

LEMMA CountFailsNumbers == ASSUME Known, Numbers, NEW c \in Call, CountFails(c) PROVE Numbers'
<1>1. /\ pc' = [pc EXCEPT ![c] = "failed"] /\ pc'[c] = "failed" /\ lock = c
      /\ UNCHANGED <<counter, case, tally>>
  BY DEF CountFails, At, Goto, own, Known, TypeOK, Numbers, NumberKnown, InSection
<1>2. NumberKnown(c)'
  BY <1>1 DEF Numbers, NumberKnown, Opened, GivenOut, InSection
<1>3. counter' \in [Kind -> Nat] /\ \A k \in Kind : counter'[k] >= counter[k]
  BY <1>1 DEF Known, TypeOK
<1>4. QED  BY <1>1, <1>2, <1>3, SectionStep

LEMMA SaveNumbers == ASSUME Known, Numbers, NEW c \in Call, Save(c) PROVE Numbers'
<1>1. /\ pc' = [pc EXCEPT ![c] = "release"] /\ pc'[c] = "release" /\ lock = c
      /\ Counted(c) /\ counter' = tally[c] /\ UNCHANGED <<lock, case, tally>>
  BY DEF Save, At, Goto, own, Known, TypeOK, Numbers, NumberKnown, InSection
<1>2. /\ KindOf[c] \in Kind /\ counter \in [Kind -> 0 .. MaxSeq]
      /\ tally[c] \in [Kind -> 0 .. MaxSeq]
  BY CallAssumption DEF Known, TypeOK
<1>3. counter' \in [Kind -> Nat] /\ \A k \in Kind : counter'[k] >= counter[k]
  BY <1>1, <1>2 DEF Counted
<1>4. ASSUME NEW d \in Call, Opened(d) PROVE case[d] # Number(c)
  <2>1. GivenOut(d)
    BY <1>4 DEF Numbers, NumberKnown
  <2>2. SUFFICES ASSUME case[d] = Number(c) PROVE FALSE
    OBVIOUS
  <2>3. KindOf[d] = KindOf[c] /\ case[d][2] = tally[c][KindOf[c]]
    BY <2>1, <2>2 DEF GivenOut, Number
  <2>4. tally[c][KindOf[c]] <= counter[KindOf[c]]
    BY <2>1, <2>3 DEF GivenOut
  <2>5. QED  BY <1>1, <1>2, <2>4, BoundsAssumption DEF Counted
<1>5. Saved(c)'
  BY <1>1, <1>4 DEF Saved, Number, Opened, Counted
<1>6. (Opened(c) => GivenOut(c))'
  <2>1. SUFFICES ASSUME Opened(c) PROVE GivenOut(c)'
    BY <1>1 DEF Opened
  <2>2. GivenOut(c)
    BY <2>1 DEF Numbers, NumberKnown
  <2>3. case[c][2] \in Nat
    BY <2>2, BoundsAssumption DEF GivenOut, Case
  <2>4. case[c][2] <= counter'[KindOf[c]]
    BY <1>2, <1>3, <2>2, <2>3 DEF GivenOut
  <2>5. QED  BY <1>1, <2>2, <2>4 DEF GivenOut
<1>7. NumberKnown(c)'
  BY <1>1, <1>5, <1>6 DEF NumberKnown
<1>8. QED  BY <1>1, <1>3, <1>7, SectionStep

LEMMA ReleaseNumbers == ASSUME Known, Numbers, NEW c \in Call, Release(c) PROVE Numbers'
<1>1. /\ pc[c] = "release" /\ pc' = [pc EXCEPT ![c] = "register"] /\ lock = c /\ Saved(c)
      /\ case' = [case EXCEPT ![c] = Number(c)] /\ case'[c] = Number(c)
      /\ tally[c][KindOf[c]] > 0
      /\ UNCHANGED <<counter, tally>>
  BY DEF Release, At, Goto, Number, Known, TypeOK, CallKnown, Numbers, NumberKnown, InSection
<1>2. \A d \in Call : ~InSection(d)'
  BY <1>1, Alone DEF InSection, Known, TypeOK
<1>3. \A d \in Call \ {c} : case'[d] = case[d]
  BY <1>1 DEF Known, TypeOK
<1>4. GivenOut(c)'
  <2>1. KindOf[c] \in Kind /\ tally[c] \in [Kind -> 0 .. MaxSeq]
    BY CallAssumption DEF Known, TypeOK
  <2>2. tally[c][KindOf[c]] \in 1 .. MaxSeq
    BY <1>1, <2>1, BoundsAssumption
  <2>3. Number(c) \in Case \ Earlier
    BY <1>1, <2>1, <2>2 DEF Number, Case, Saved
  <2>4. QED  BY <1>1, <2>2, <2>3 DEF GivenOut, Saved, Number
<1>5. \A d \in Call : NumberKnown(d)'
  <2>1. ASSUME NEW d \in Call \ {c} PROVE (Opened(d) => GivenOut(d))'
    BY <1>1, <1>3 DEF Numbers, NumberKnown, Opened, GivenOut
  <2>2. QED  BY <1>2, <1>4, <2>1 DEF NumberKnown, InSection
<1>6. Distinct'
  <2>1. \A d \in Call \ {c} : Opened(d)' => Opened(d) /\ case[d] # Number(c)
    BY <1>1, <1>3 DEF Opened, Saved
  <2>2. QED  BY <1>1, <1>3, <2>1 DEF Numbers, Distinct
<1>7. QED  BY <1>5, <1>6 DEF Numbers

LEMMA CrashNumbers == ASSUME Known, Numbers, NEW p \in Process, Crash(p) PROVE Numbers'
<1>1. UNCHANGED <<counter, case, tally>>
  BY DEF Crash, own
<1>2. ASSUME NEW x \in Call, InSection(x)' PROVE InSection(x) /\ Home[x] # p /\ pc'[x] = pc[x]
  BY <1>2 DEF Crash, InSection, Ended
<1>3. ASSUME NEW x \in Call PROVE NumberKnown(x)'
  <2>1. (InSection(x) => lock = x)'
    BY <1>2 DEF Crash, Numbers, NumberKnown
  <2>2. (Opened(x) => GivenOut(x))'
    BY <1>1 DEF Numbers, NumberKnown, Opened, GivenOut
  <2>3. (pc[x] = "save" => Counted(x))' /\ (pc[x] = "release" => Saved(x))'
    BY <1>1, <1>2 DEF Numbers, NumberKnown, InSection, Counted, Saved, Number, Opened
  <2>4. QED  BY <2>1, <2>2, <2>3 DEF NumberKnown
<1>4. Distinct'
  BY <1>1 DEF Numbers, Distinct, Opened
<1>5. QED  BY <1>3, <1>4 DEF Numbers

LEMMA NextNumbers == Known /\ Numbers /\ [Next]_vars => Numbers'
<1>1. SUFFICES ASSUME Known, Numbers, [Next]_vars PROVE Numbers'
  OBVIOUS
<1>2. ASSUME NEW c \in Call, Begin(c) PROVE Numbers'
  BY <1>1, <1>2, BeginOutside, OutsideNumbers
<1>3. ASSUME NEW c \in Call, Goes(c) PROVE Numbers'
  <2>1. CASE TimesOut(c) \/ AppendEntry(c) \/ Opens(c) \/ Changes(c) \/ Edits(c) \/ Fails(c)
    BY <1>1, <2>1, StepsOutside, OutsideNumbers
  <2>2. CASE TakeLock(c) \/ Count(c) \/ CountFails(c) \/ Save(c) \/ Release(c)
    BY <1>1, <2>2, TakeLockNumbers, CountNumbers, CountFailsNumbers, SaveNumbers, ReleaseNumbers
  <2>3. QED  BY <1>3, <2>1, <2>2 DEF Goes, Allocates
<1>4. ASSUME NEW p \in Process, Crash(p) PROVE Numbers'
  BY <1>1, <1>4, CrashNumbers
<1>5. ASSUME UNCHANGED vars PROVE Numbers'
  <2>1. Outside
    BY <1>5 DEF vars, own, Outside, InSection, Opened
  <2>2. QED  BY <1>1, <2>1, OutsideNumbers
<1>6. QED  BY <1>1, <1>2, <1>3, <1>4, <1>5 DEF Next

\* An identifier is given out once and never an earlier case's, whatever
\* calls allocate in whatever processes, with the lock file left behind by a
\* crash and the counter file lost before: the O_EXCL lock file and the test
\* for the report's directory are enough.
THEOREM IdsAreUnique == Spec => []UniqueIds
<1>1. Init => Numbers
  BY DEF Init, Numbers, NumberKnown, Distinct, InSection, Opened
<1>2. Numbers => UniqueIds
  BY DEF Numbers, NumberKnown, Distinct, UniqueIds, GivenOut
<1>3. QED  BY <1>1, <1>2, NextNumbers, SpecKnown, PTL DEF Spec

=============================================================================

---------------------------- MODULE CaseRegistry ----------------------------
(***************************************************************************)
(* Bug and security cases: open_bug and open_security, link_fix and        *)
(* reopen_case of tools/sentinel_tools.py beside the edits manage_docs     *)
(* makes of a report, all of one repository on one day.                    *)
(*                                                                         *)
(* A case is an identifier, entries of the progress log, a report and a    *)
(* row of the case registry.  Nothing locks a case: a tool reads the row,  *)
(* awaits other things and writes the whole row back.  Only the counter of *)
(* identifiers has a lock, a file created with O_EXCL.  What a call does   *)
(* between two awaits is one action; from the wait for the counter's lock  *)
(* to its release a call awaits nothing and keeps its event loop.          *)
(***************************************************************************)
EXTENDS Naturals

CONSTANTS Process,     \* server processes
          Call,        \* tool calls
          Home,        \* the process of a call
          Tool,        \* what it calls: "open", "link", "reopen" or "edit"
          Target,      \* the case a link, reopen or edit names
          Landing,     \* the landing_status of a link
          Sets,        \* the frontmatter status of an edit, or "keep"
          Kind,        \* kinds of cases (BUG and SEC)
          KindOf,      \* the kind an open asks for
          Earlier,     \* cases opened before, the counter file lost since
          Nobody,      \* no case, no link, nobody's lock
          Left,        \* owner of a lock file its process left behind
          MaxSeq, MaxCalls, MaxFaults, MaxCrashes    \* bounds of the runs

Case == Kind \X (1 .. MaxSeq)

ASSUME CallAssumption ==
  /\ Home \in [Call -> Process]
  /\ Tool \in [Call -> {"open", "link", "reopen", "edit"}]
  /\ Target \in [Call -> Case]
  /\ Landing \in [Call -> {"merged", "wontfix", "proposed"}]
  /\ Sets \in [Call -> {"keep", "complete"}]
  /\ KindOf \in [Call -> Kind]

ASSUME NamesAssumption ==
  /\ Nobody \notin Call \cup Case /\ Left \notin Call /\ Left # Nobody

ASSUME BoundsAssumption ==
  /\ {MaxSeq, MaxCalls, MaxFaults, MaxCrashes} \subseteq Nat /\ Earlier \subseteq Case

VARIABLES
  counter,     \* the counter file: the last number given out, by kind
  lock,        \* whose file the counter's lock file is
  report,      \* the frontmatter status of each report
  row,         \* the case registry
  registered,  \* cases with a [CASE REGISTERED] entry
  logged,      \* links and reopenings whose entry is in the log
  edited,      \* edits that changed their report
  pc,          \* where each call is
  case,        \* the case of each call
  tally,       \* the counters a call is about to write
  seen,        \* the row a call read
  found,       \* the status a call read off its report
  sections,    \* edits of the report a call still has to make
  used         \* calls, faults and crashes so far

registry == <<report, row>>
trail == <<registered, logged, edited>>
own == <<case, tally, seen, sections, found>>
vars == <<counter, lock, registry, trail, pc, own, used>>

Statuses == {"absent", "open", "scaffolded", "investigating",
             "closed", "wontfix", "complete"}

ReportStatuses == {"none", "plain", "scaffolded", "complete"}

\* doc_type as the tools write it, and as it is read off a report.
Row == [status : Statuses, doc : {"bug", "bug_report"}, link : Call \cup {Nobody}]
NoRow == [status |-> "absent", doc |-> "bug", link |-> Nobody]

\* resolved_case_close_status: a fix closes, another outcome keeps its name.
CloseStatus(landing) == IF landing = "merged" THEN "closed"
                        ELSE IF landing = "wontfix" THEN "wontfix" ELSE "none"

Closes(status) == status \in {"closed", "wontfix", "complete"}

-----------------------------------------------------------------------------

Sync == {"wait", "count", "save", "release"}
Ended == {"new", "ok", "failed", "dead"}

\* No other call keeps the event loop of the process.
OnLoop(c) == \A d \in Call \ {c} : Home[d] = Home[c] => pc[d] \notin Sync

At(c, label) == pc[c] = label /\ OnLoop(c)
Goto(c, label) == pc' = [pc EXCEPT ![c] = label]

Fault == used.faults < MaxFaults /\ used' = [used EXCEPT !.faults = @ + 1]
Calm == UNCHANGED used

Write(c, record) == row' = [row EXCEPT ![case[c]] = record]

\* A step that fails, after its effect or without it.
Maybe(effect, v) == effect \/ UNCHANGED v

Begin(c) ==
  /\ At(c, "new")
  /\ used.calls < MaxCalls /\ used' = [used EXCEPT !.calls = @ + 1]
  /\ case' = [case EXCEPT ![c] = IF Tool[c] = "open" THEN Nobody ELSE Target[c]]
  /\ sections' = [sections EXCEPT ![c] = IF Tool[c] = "edit" THEN 1 ELSE 0]
  /\ \/ Tool[c] = "open" /\ Goto(c, "entry")
     \/ Tool[c] \in {"link", "reopen"} /\ Goto(c, "load")
     \/ Tool[c] = "edit" /\ report[Target[c]] # "none" /\ Goto(c, "mutate")
  /\ UNCHANGED <<counter, lock, registry, trail, tally, seen, found>>

\* Broken: a failed append does not stop the call.
BrokenAppendEntry(c) ==
  /\ At(c, "entry")
  /\ Goto(c, IF Tool[c] = "open" THEN "wait" ELSE "record")
  /\ logged' \in {logged, logged \cup {c}}
  /\ Calm /\ UNCHANGED <<counter, lock, registry, registered, edited, own>>

\* The first entry: the symptoms, the fix link or the request to reopen.
AppendEntry(c) ==
  /\ At(c, "entry")
  /\ Goto(c, IF Tool[c] = "open" THEN "wait" ELSE "record")
  /\ logged' = IF Tool[c] = "open" THEN logged ELSE logged \cup {c}
  /\ Calm /\ UNCHANGED <<counter, lock, registry, registered, edited, own>>

-----------------------------------------------------------------------------
(* _next_case_id_for_project.                                               *)

\* Broken: the lock file may exist when it is created.
BrokenTakeLock(c) ==
  /\ At(c, "wait")
  /\ lock' = c /\ Goto(c, "count")
  /\ Calm /\ UNCHANGED <<counter, registry, trail, own>>

TakeLock(c) ==
  /\ At(c, "wait") /\ lock = Nobody
  /\ lock' = c /\ Goto(c, "count")
  /\ Calm /\ UNCHANGED <<counter, registry, trail, own>>

\* Broken: a lock file nobody holds is waited for without end.
BrokenTimesOut(c) ==
  /\ At(c, "wait") /\ lock \notin {Nobody, Left} /\ Goto(c, "failed")
  /\ Calm /\ UNCHANGED <<counter, lock, registry, trail, own>>

\* Two seconds at most; nobody removes the file of a process that died.
TimesOut(c) ==
  /\ At(c, "wait") /\ lock # Nobody /\ Goto(c, "failed")
  /\ Calm /\ UNCHANGED <<counter, lock, registry, trail, own>>

\* The first number after the counter's whose report has no directory.
IsNext(kind, n) ==
  /\ n > counter[kind] /\ report[<<kind, n>>] = "none"
  /\ \A m \in 1 .. MaxSeq :
       m > counter[kind] /\ m < n => report[<<kind, m>>] # "none"

\* Broken: the number is the counter's, not the one after it.
BrokenCount(c) ==
  /\ At(c, "count") /\ Goto(c, "save")
  /\ tally' = [tally EXCEPT ![c] = counter]
  /\ Calm /\ UNCHANGED <<counter, lock, registry, trail, case, seen, sections, found>>

Count(c) ==
  /\ At(c, "count") /\ Goto(c, "save")
  /\ \E n \in 1 .. MaxSeq :
       /\ IsNext(KindOf[c], n)
       /\ tally' = [tally EXCEPT ![c] = [counter EXCEPT ![KindOf[c]] = n]]
  /\ Calm /\ UNCHANGED <<counter, lock, registry, trail, case, seen, sections, found>>

\* The counter file cannot be read or written: the lock is released all the
\* same and the call ends.
CountFails(c) ==
  /\ At(c, "count") \/ At(c, "save")
  /\ lock' = Nobody /\ Goto(c, "failed")
  /\ Fault /\ UNCHANGED <<counter, registry, trail, own>>

\* The whole file is replaced.
Save(c) ==
  /\ At(c, "save") /\ Goto(c, "release")
  /\ counter' = tally[c]
  /\ Calm /\ UNCHANGED <<lock, registry, trail, own>>

\* An unlink that fails is ignored.
Release(c) ==
  /\ At(c, "release") /\ Goto(c, "register")
  /\ \/ lock' = Nobody /\ Calm
     \/ lock' = Left /\ Fault
  /\ case' = [case EXCEPT ![c] = <<KindOf[c], tally[c][KindOf[c]]>>]
  /\ UNCHANGED <<counter, registry, trail, tally, seen, sections, found>>

-----------------------------------------------------------------------------
(* The rest of _open_case.                                                  *)

Register(c) ==
  /\ At(c, "register") /\ Goto(c, "create")
  /\ registered' = registered \cup {case[c]}
  /\ Calm /\ UNCHANGED <<counter, lock, registry, logged, edited, own>>

\* A new report has no status in its frontmatter.
Created(c) == [report EXCEPT ![case[c]] = IF @ = "none" THEN "plain" ELSE @]

\* manage_docs(create): an existing report is refused.
Create(c) ==
  /\ At(c, "create")
  /\ Goto(c, IF report[case[c]] = "none" THEN "enlist" ELSE "failed")
  /\ report' = Created(c)
  /\ Calm /\ UNCHANGED <<counter, lock, row, trail, own>>

CreateFails(c) ==
  /\ At(c, "create") /\ Goto(c, "failed")
  /\ Fault /\ Maybe(report' = Created(c), report)
  /\ UNCHANGED <<counter, lock, row, trail, own>>

\* Its own registration ignores what the row was; a failure is a warning.
Enlist(c) ==
  /\ At(c, "enlist") /\ Goto(c, "claim")
  /\ \/ Write(c, [status |-> "open", doc |-> "bug_report", link |-> Nobody]) /\ Calm
     \/ Fault /\ UNCHANGED row
  /\ UNCHANGED <<counter, lock, report, trail, own>>

\* A read that fails counts as no row.
Fetch(c) ==
  /\ \/ seen' = [seen EXCEPT ![c] = row[case[c]]] /\ Calm
     \/ seen' = [seen EXCEPT ![c] = NoRow] /\ Fault
  /\ UNCHANGED <<counter, lock, registry, trail, case, tally, sections, found>>

Claim(c) == At(c, "claim") /\ Goto(c, "own") /\ Fetch(c)

Owned(c) == [status |-> "open", doc |-> "bug", link |-> seen[c].link]

Own(c) ==
  /\ At(c, "own")
  /\ \/ Write(c, Owned(c)) /\ Goto(c, "ok") /\ Calm
     \/ Maybe(Write(c, Owned(c)), row) /\ Goto(c, "failed") /\ Fault
  /\ UNCHANGED <<counter, lock, report, trail, own>>

-----------------------------------------------------------------------------
(* link_fix and reopen_case.                                                *)

\* reopen_case wants the row as the tools write it, closed or reopened; the
\* report's Status line says INVESTIGATING.
Reopens(record) ==
  /\ record.doc = "bug"
  /\ Closes(record.status) \/ record.status = "investigating"

Load(c) ==
  /\ At(c, "load") /\ Goto(c, "entry")
  /\ row[case[c]].status # "absent"
  /\ Tool[c] = "reopen" => Reopens(row[case[c]])
  /\ seen' = [seen EXCEPT ![c] = row[case[c]]]
  /\ Calm /\ UNCHANGED <<counter, lock, registry, trail, case, tally, sections, found>>

\* Not registered, not to be reopened, or a fix whose report is not filled in.
Refuse(c) ==
  /\ At(c, "load") /\ Goto(c, "failed")
  /\ \/ row[case[c]].status = "absent"
     \/ Tool[c] = "reopen" /\ ~Reopens(row[case[c]])
     \/ Tool[c] = "link" /\ Landing[c] = "merged"
  /\ Calm /\ UNCHANGED <<counter, lock, registry, trail, own>>

\* The whole row as it was read, the link added and the status perhaps closed.
Linked(c) ==
  [status |-> IF CloseStatus(Landing[c]) = "none" THEN seen[c].status
              ELSE CloseStatus(Landing[c]),
   doc |-> seen[c].doc, link |-> c]

Reopened(c) == [seen[c] EXCEPT !.status = "investigating"]

\* What the call writes of its case; an exact retry of reopen_case nothing.
Recorded(c) == IF Tool[c] = "link" THEN Linked(c) ELSE Reopened(c)
Records(c) == Tool[c] = "link" \/ seen[c].status # "investigating"

Record(c) ==
  /\ At(c, "record")
  /\ IF Records(c) THEN Write(c, Recorded(c)) ELSE UNCHANGED row
  /\ Goto(c, IF Tool[c] = "link" THEN "mutate" ELSE "verify")
  /\ sections' = [sections EXCEPT ![c] = IF Tool[c] = "link" THEN 2 ELSE 0]
  /\ Calm /\ UNCHANGED <<counter, lock, report, trail, case, tally, seen, found>>

RecordFails(c) ==
  /\ At(c, "record") /\ Records(c) /\ Goto(c, "failed")
  /\ Fault /\ Maybe(Write(c, Recorded(c)), row)
  /\ UNCHANGED <<counter, lock, report, trail, own>>

\* _reopen_readback_matches.
Verify(c) ==
  /\ At(c, "verify")
  /\ Goto(c, IF row[case[c]] = Reopened(c) THEN "final" ELSE "failed")
  /\ Calm /\ UNCHANGED <<counter, lock, registry, trail, own>>

\* The last entry, of the report or of the reopening.
Finish(c) ==
  /\ At(c, "final") /\ Goto(c, "ok")
  /\ Calm /\ UNCHANGED <<counter, lock, registry, trail, own>>

-----------------------------------------------------------------------------
(* Edits of the report, and the registry after them.                        *)

\* An edit writes the frontmatter's status: the given one, the one that was
\* there, or "scaffolded".
Front(c) == IF Tool[c] = "edit" /\ Sets[c] = "complete" THEN "complete"
            ELSE IF report[case[c]] = "plain" THEN "scaffolded"
            ELSE report[case[c]]

Mutate(c) ==
  /\ At(c, "mutate") /\ Goto(c, "extract")
  /\ report' = [report EXCEPT ![case[c]] = Front(c)]
  /\ edited' = IF Tool[c] = "edit" THEN edited \cup {c} ELSE edited
  /\ sections' = [sections EXCEPT ![c] = @ - 1]
  /\ Calm /\ UNCHANGED <<counter, lock, row, registered, logged, case, tally, seen, found>>

\* link_fix takes a failure as a warning and leaves the other section out.
MutateFails(c) ==
  /\ At(c, "mutate") /\ Fault
  /\ Goto(c, IF Tool[c] = "link" THEN "final" ELSE "failed")
  /\ UNCHANGED <<counter, lock, registry, trail, own>>

\* The report is read back first, then the row.
Extract(c) ==
  /\ At(c, "extract") /\ Goto(c, "refetch")
  /\ found' = [found EXCEPT ![c] = report[case[c]]]
  /\ Calm /\ UNCHANGED <<counter, lock, registry, trail, case, tally, seen, sections>>

Refetch(c) == At(c, "refetch") /\ Goto(c, "refresh") /\ Fetch(c)

\* A closed case stays closed; else the frontmatter that was read decides.
Refreshed(c) ==
  [status |-> IF Closes(seen[c].status) THEN seen[c].status
              ELSE IF found[c] = "plain" THEN "open" ELSE found[c],
   doc |-> "bug_report", link |-> seen[c].link]

\* _refresh_case_registry_for_mutation; a failure is a warning.
Refresh(c) ==
  /\ At(c, "refresh")
  /\ \/ Write(c, Refreshed(c)) /\ Calm
     \/ Fault /\ UNCHANGED row
  /\ Goto(c, IF sections[c] > 0 THEN "mutate"
             ELSE IF Tool[c] = "link" THEN "final" ELSE "ok")
  /\ UNCHANGED <<counter, lock, report, trail, own>>

-----------------------------------------------------------------------------

\* The other steps end the call when they fail.
Fails(c) ==
  /\ \E label \in {"entry", "register", "load", "verify", "final"} : At(c, label)
  /\ Goto(c, "failed")
  /\ Fault /\ UNCHANGED <<counter, lock, registry, trail, own>>

\* The calls of a process end with it; its lock file stays.
Crash(p) ==
  /\ used.crashes < MaxCrashes /\ used' = [used EXCEPT !.crashes = @ + 1]
  /\ pc' = [c \in Call |-> IF Home[c] = p /\ pc[c] \notin Ended THEN "dead"
                           ELSE pc[c]]
  /\ lock' = IF lock \in Call /\ Home[lock] = p THEN Left ELSE lock
  /\ UNCHANGED <<counter, registry, trail, own>>

Init ==
  /\ counter = [k \in Kind |-> 0] /\ lock = Nobody
  /\ report = [i \in Case |-> IF i \in Earlier THEN "plain" ELSE "none"]
  /\ row = [i \in Case |-> IF i \in Earlier
                           THEN [status |-> "open", doc |-> "bug", link |-> Nobody]
                           ELSE NoRow]
  /\ registered = Earlier /\ logged = {} /\ edited = {}
  /\ pc = [c \in Call |-> "new"] /\ case = [c \in Call |-> Nobody]
  /\ tally = [c \in Call |-> counter] /\ seen = [c \in Call |-> NoRow]
  /\ sections = [c \in Call |-> 0] /\ found = [c \in Call |-> "none"]
  /\ used = [calls |-> 0, faults |-> 0, crashes |-> 0]

Allocates(c) == \/ TakeLock(c) \/ TimesOut(c) \/ Count(c) \/ CountFails(c)
                \/ Save(c) \/ Release(c)

Opens(c) == Register(c) \/ Create(c) \/ CreateFails(c) \/ Enlist(c) \/ Claim(c) \/ Own(c)

Changes(c) == \/ Load(c) \/ Refuse(c) \/ Record(c) \/ RecordFails(c)
              \/ Verify(c) \/ Finish(c)

Edits(c) == Mutate(c) \/ MutateFails(c) \/ Extract(c) \/ Refetch(c) \/ Refresh(c)

Goes(c) == AppendEntry(c) \/ Allocates(c) \/ Opens(c) \/ Changes(c) \/ Edits(c) \/ Fails(c)

Next == \/ \E c \in Call : Begin(c) \/ Goes(c)
        \/ \E p \in Process : Crash(p)

Spec == Init /\ [][Next]_vars

\* While a call has a step to take, one is taken; a waiting call sees the
\* deadline pass.
FairSpec == Spec /\ WF_vars(\E c \in Call : Goes(c))

-----------------------------------------------------------------------------

TypeOK ==
  /\ counter \in [Kind -> 0 .. MaxSeq] /\ lock \in Call \cup {Nobody, Left}
  /\ report \in [Case -> ReportStatuses] /\ found \in [Call -> ReportStatuses]
  /\ row \in [Case -> Row]
  /\ registered \subseteq Case /\ logged \subseteq Call /\ edited \subseteq Call
  /\ pc \in [Call -> Ended \cup Sync \cup {"entry", "register", "create",
                       "enlist", "claim", "own", "load", "record", "verify",
                       "final", "mutate", "extract", "refetch", "refresh"}]
  /\ case \in [Call -> Case \cup {Nobody}]
  /\ tally \in [Call -> [Kind -> 0 .. MaxSeq]] /\ seen \in [Call -> Row]
  /\ sections \in [Call -> 0 .. 2]
  /\ used \in [calls : 0 .. MaxCalls, faults : 0 .. MaxFaults, crashes : 0 .. MaxCrashes]

Opened(c) == Tool[c] = "open" /\ case[c] # Nobody

\* An identifier is given out once, whatever processes allocate beside each
\* other, fail or die, and never one of a case that has a report already,
\* even when the counter file is lost ("the atomic counter is the allocator").
UniqueIds ==
  \A c, d \in Call : Opened(c) => /\ case[c] \notin Earlier
                                  /\ Opened(d) /\ c # d => case[c] # case[d]

LoggedFor(i, tool) == {c \in logged : Tool[c] = tool /\ case[c] = i}

\* Why a row may have the status it has.
StatusExplained(i, status) ==
  /\ status \in {"closed", "wontfix"} =>
       \E c \in LoggedFor(i, "link") : CloseStatus(Landing[c]) = status
  /\ status = "investigating" => LoggedFor(i, "reopen") # {}
  /\ status = "complete" => \E c \in edited : case[c] = i /\ Sets[c] = "complete"

Explained(i, record) ==
  record.status # "absent" =>
    /\ i \in registered /\ report[i] # "none"
    /\ record.link # Nobody => record.link \in LoggedFor(i, "link")
    /\ StatusExplained(i, record.status)

\* The log explains the registry: a row has a report and a registration, its
\* fix link is one that was logged, it is closed only by a logged link or an
\* edit that completed its report, and reopened only by a logged request;
\* failing steps and rows written back from old copies change nothing of that.
RowsExplained == \A i \in Case : Explained(i, row[i])

\* All calls that were made end, even if the counter's lock was left behind
\* and even if they wait for each other's.
CallsEnd == []<>(\A c \in Call : pc[c] \in Ended)
=============================================================================

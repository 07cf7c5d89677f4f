----------------------------- MODULE ApplyReceipt -----------------------------
(***************************************************************************)
(* ApplyPreviewService.apply of doc_management/apply_preview.py and the    *)
(* rows of storage/sqlite/apply_preview_receipts.py.  All receipts of the  *)
(* model were issued for one document as it was "before".  A statement on  *)
(* a row is atomic, the mutation lock of the document is an flock that a   *)
(* dying process drops.  The document is changed under that lock by the    *)
(* call that holds it or by an edit from elsewhere; a cancelled call drops *)
(* the lock while a thread of its own still makes its change or records    *)
(* its verdict.  Lifetimes and leases end at any time.                     *)
(***************************************************************************)
EXTENDS Naturals, FiniteSets

CONSTANTS Receipt,
          Composite,  \* receipts of rehome_doc, whose change has two halves
          Call,       \* calls of apply, each made once
          Cancelled,  \* those that may be cancelled
          MaxEdits,   \* bound on changes made elsewhere
          Nobody

ASSUME ConstantsAssumption ==
    /\ Composite \subseteq Receipt /\ Cancelled \subseteq Call
    /\ IsFiniteSet(Call) /\ Nobody \notin Call /\ Nobody \notin Receipt

ASSUME BoundsAssumption == MaxEdits \in Nat

VARIABLES
    state,      \* per receipt: "none", "issued", "applying", "applied",
                \* "failed" (failed_terminal) or "deleted"
    fence,      \* claims of the receipt so far
    leaseOver,  \* apply_lease_expires_at has passed
    expired,    \* expires_at has passed
    doc,        \* "before", "partial", "after" or "other"
    by,         \* the receipt whose change the document has, if any
    lock,       \* the call that holds the mutation lock
    pc, of,     \* per call: the step it is at, its receipt,
    mine,       \* the fence it claimed,
    told,       \* and its answer: "none", "applied", "replayed", "refused"
    left,       \* what a cancelled call has left to its thread: "none", a
                \* "change", the "rest" of one, or a verdict
    started,    \* executions begun on a whole document
    restored,   \* edits that made the document as it was "before"
    lateChanges, lateVerdict,  \* made, or given, by such a thread
    edits

rowVars == <<state, fence, leaseOver, expired>>
docVars == <<doc, by, started, restored, edits, lateChanges>>
callVars == <<pc, of, mine, told>>
lateVars == <<left, lateVerdict>>
vars == <<rowVars, docVars, lock, callVars, lateVars>>

Terminal == {"applied", "failed"}

\* The steps of a call that holds the lock.
Held == {"locked", "executing", "completing", "observing", "reconciled",
         "succeeding", "failing", "leaving"}

\* What inspect_apply_preview_state sees on behalf of receipt r.
Seen(r) == IF doc \in {"partial", "after"} /\ by # r THEN "other" ELSE doc

Goto(c, label) == /\ pc' = [pc EXCEPT ![c] = label]
                  /\ UNCHANGED <<of, mine, lateVars>>

Answer(c, code) == told' = [told EXCEPT ![c] = code]

Refuse(c, label) == Goto(c, label) /\ Answer(c, "refused")

-----------------------------------------------------------------------------
(* The row, beside the calls.                                               *)

Issue(r) ==
    /\ state[r] = "none"
    /\ state' = [state EXCEPT ![r] = "issued"]
    /\ UNCHANGED <<fence, leaseOver, expired, docVars, lock, callVars, lateVars>>

Expire(r) ==
    /\ state[r] \notin {"none", "deleted"} /\ ~expired[r]
    /\ expired' = [expired EXCEPT ![r] = TRUE]
    /\ UNCHANGED <<state, fence, leaseOver, docVars, lock, callVars, lateVars>>

LeaseEnds(r) ==
    /\ state[r] = "applying" /\ ~leaseOver[r]
    /\ leaseOver' = [leaseOver EXCEPT ![r] = TRUE]
    /\ UNCHANGED <<state, fence, expired, docVars, lock, callVars, lateVars>>

Old == {r \in Receipt : /\ state[r] \in {"issued"} \cup Terminal
                        /\ expired[r]}

\* Broken: the rows are marked instead of deleted.
BrokenCleanup ==
    /\ Old # {}
    /\ state' = [r \in Receipt |-> IF r \in Old THEN "expired" ELSE state[r]]
    /\ UNCHANGED <<fence, leaseOver, expired, docVars, lock, callVars, lateVars>>

\* There are fewer old rows than the limit of 100.
Cleanup ==
    /\ Old # {}
    /\ state' = [r \in Receipt |-> IF r \in Old THEN "deleted" ELSE state[r]]
    /\ UNCHANGED <<fence, leaseOver, expired, docVars, lock, callVars, lateVars>>

\* Another writer of the document, under the same lock.
Edit ==
    /\ lock = Nobody
    /\ edits < MaxEdits /\ edits' = edits + 1
    /\ \/ /\ doc # "before" /\ doc' = "before" /\ by' = Nobody
          /\ restored' = restored + 1
       \/ /\ doc' = "other" /\ by' = Nobody /\ UNCHANGED restored
       \/ /\ doc' = "after" /\ by' \in Receipt /\ UNCHANGED restored
    /\ UNCHANGED <<started, lateChanges, rowVars, lock, callVars, lateVars>>

-----------------------------------------------------------------------------
(* A call of apply, up to its claim.                                        *)

\* The row is read and the request checked against it.
Fetch(c) ==
    /\ pc[c] = "start"
    /\ \E r \in Receipt :
         /\ state[r] \notin {"none", "deleted"}
         /\ ~expired[r] \/ state[r] \in Terminal
         /\ of' = [of EXCEPT ![c] = r]
    /\ pc' = [pc EXCEPT ![c] = "claiming"]
    /\ UNCHANGED <<rowVars, docVars, lock, mine, told, lateVars>>

\* No row, an expired one, another scope, a policy, or no storage.
FetchRefused(c) ==
    /\ pc[c] = "start"
    /\ Refuse(c, "done")
    /\ UNCHANGED <<rowVars, docVars, lock>>

Claimable(r) == \/ state[r] = "issued"
                \/ state[r] = "applying" /\ leaseOver[r]

\* One UPDATE.  Its clock was read before it, so the receipt may meanwhile
\* have expired.
Claim(c) ==
    LET r == of[c] IN
    /\ pc[c] = "claiming" /\ Claimable(r)
    /\ state' = [state EXCEPT ![r] = "applying"]
    /\ fence' = [fence EXCEPT ![r] = @ + 1]
    /\ leaseOver' = [leaseOver EXCEPT ![r] = FALSE]
    /\ mine' = [mine EXCEPT ![c] = fence[r] + 1]
    /\ pc' = [pc EXCEPT ![c] = "claimed"]
    /\ UNCHANGED <<expired, docVars, lock, of, told, lateVars>>

\* The UPDATE finds no row to claim: the row is read again.
ClaimRefused(c) ==
    /\ pc[c] = "claiming"
    /\ state[of[c]] # "issued" \/ expired[of[c]]
    /\ Goto(c, "refused")
    /\ UNCHANGED <<rowVars, docVars, lock, told>>

ClaimUnavailable(c) ==
    /\ pc[c] = "claiming"
    /\ Refuse(c, "done")
    /\ UNCHANGED <<rowVars, docVars, lock>>

\* A terminal row answers as it did before; the others are busy or gone.
Replay(c) ==
    /\ pc[c] = "refused"
    /\ Goto(c, "done")
    /\ Answer(c, IF state[of[c]] = "applied" THEN "replayed" ELSE "refused")
    /\ UNCHANGED <<rowVars, docVars, lock>>

-----------------------------------------------------------------------------
(* The claimed receipt, under the mutation lock.                            *)

Recovery(c) == mine[c] > 1

TakeLock(c) ==
    /\ pc[c] = "claimed" /\ lock = Nobody
    /\ lock' = c
    /\ Goto(c, "locked")
    /\ UNCHANGED <<rowVars, docVars, told>>

\* Broken: a recovery resumes whatever it sees.
BrokenResumable(c) == Recovery(c) \/ Seen(of[c]) = "before"

\* The document is as the preview saw it, or a rehome is to be completed.
Resumable(c) ==
    \/ Seen(of[c]) = "before"
    \/ Recovery(c) /\ Seen(of[c]) = "partial" /\ of[c] \in Composite

\* The change had been made before the claimant that made it could say so.
Reconciles(c) == Recovery(c) /\ Seen(of[c]) = "after"

Recheck(c) ==
    /\ pc[c] = "locked"
    /\ \/ Goto(c, "failing") /\ UNCHANGED told        \* denied meanwhile
       \/ Reconciles(c) /\ Goto(c, "reconciled") /\ UNCHANGED told
       \/ /\ ~Reconciles(c) /\ Resumable(c)
          /\ Goto(c, IF doc = "partial" THEN "completing" ELSE "executing")
          /\ UNCHANGED told
       \/ /\ ~Reconciles(c) /\ ~Resumable(c)
          /\ IF Recovery(c) THEN Refuse(c, "leaving")
                            ELSE Goto(c, "failing") /\ UNCHANGED told
    /\ UNCHANGED <<rowVars, docVars, lock>>

\* Whoever completes a change has not begun it.
Starts(c) == started' = IF pc[c] = "executing" THEN started + 1 ELSE started

Executing == {"executing", "completing"}

Completes(c) ==
    /\ pc[c] \in Executing
    /\ doc' = "after" /\ by' = of[c] /\ Starts(c)
    /\ Goto(c, "observing")
    /\ UNCHANGED <<rowVars, restored, edits, lateChanges, lock, told>>

\* The first half of a rehome.
Halves(c) ==
    /\ pc[c] = "executing" /\ of[c] \in Composite
    /\ doc' = "partial" /\ by' = of[c] /\ Starts(c)
    /\ Goto(c, "completing")
    /\ UNCHANGED <<rowVars, restored, edits, lateChanges, lock, told>>

\* The document becomes neither half of a change nor what was previewed: by
\* an edit that had another effect, or because the document has changed under
\* the call.
Unforeseen(c) == /\ of[c] \notin Composite \/ ~Resumable(c)
                 /\ doc' = "other" /\ by' = Nobody

Differs(c) ==
    /\ pc[c] \in Executing
    /\ Unforeseen(c) /\ Starts(c)
    /\ Goto(c, "observing")
    /\ UNCHANGED <<rowVars, restored, edits, lateChanges, lock, told>>

Guarded == {"claimed", "locked", "observing"} \cup Executing

\* Broken: the lock is kept.
BrokenRaises(c) ==
    /\ pc[c] \in Guarded
    /\ Refuse(c, "done")
    /\ UNCHANGED <<rowVars, docVars, lock>>

\* A step fails: nothing is recorded, a later claim recovers.
Raises(c) ==
    /\ pc[c] \in Guarded
    /\ Refuse(c, IF pc[c] = "claimed" THEN "done" ELSE "leaving")
    /\ UNCHANGED <<rowVars, docVars, lock>>

\* PermissionError or WriteBarrierError leaves the lock before the failure is
\* recorded.
Denied(c) ==
    /\ pc[c] \in Guarded
    /\ lock' = IF lock = c THEN Nobody ELSE lock
    /\ Goto(c, "denied")
    /\ UNCHANGED <<rowVars, docVars, told>>

\* Broken: the result is not compared with the preview.
BrokenObserve(c) ==
    /\ pc[c] = "observing"
    /\ Goto(c, "succeeding")
    /\ UNCHANGED <<rowVars, docVars, lock, told>>

Observe(c) ==
    /\ pc[c] = "observing"
    /\ Goto(c, IF Seen(of[c]) = "after" THEN "succeeding" ELSE "failing")
    /\ UNCHANGED <<rowVars, docVars, lock, told>>

-----------------------------------------------------------------------------
(* The verdict.                                                             *)

\* Broken: the UPDATE names the receipt only.
BrokenOwns(c) == state[of[c]] # "deleted"

Owns(c) == state[of[c]] = "applying" /\ fence[of[c]] = mine[c]

Decide(c, verdict) ==
    /\ Owns(c)
    /\ state' = [state EXCEPT ![of[c]] = verdict]
    /\ leaseOver' = [leaseOver EXCEPT ![of[c]] = FALSE]
    /\ UNCHANGED <<fence, expired>>

Success(c) == IF pc[c] = "reconciled" THEN "replayed" ELSE "applied"

FinalizeSuccess(c) ==
    /\ pc[c] \in {"reconciled", "succeeding"}
    /\ Decide(c, "applied")
    /\ Goto(c, "leaving") /\ Answer(c, Success(c))
    /\ UNCHANGED <<docVars, lock>>

FinalizeFailure(c) ==
    /\ pc[c] \in {"failing", "denied"}
    /\ Decide(c, "failed")
    /\ Refuse(c, IF pc[c] = "denied" THEN "done" ELSE "leaving")
    /\ UNCHANGED <<docVars, lock>>

\* The claim has been lost (LookupError), or there is no storage.
FinalizeRefused(c) ==
    /\ pc[c] \in {"reconciled", "succeeding", "failing", "denied"}
    /\ Refuse(c, IF pc[c] = "denied" THEN "done" ELSE "leaving")
    /\ UNCHANGED <<rowVars, docVars, lock>>

Leave(c) ==
    /\ pc[c] = "leaving"
    /\ lock' = Nobody
    /\ Goto(c, "done")
    /\ UNCHANGED <<rowVars, docVars, told>>

\* The process dies.
Crash(c) ==
    /\ pc[c] \notin {"start", "done"}
    /\ lock' = IF lock = c THEN Nobody ELSE lock
    /\ pc' = [pc EXCEPT ![c] = "done"]
    /\ UNCHANGED <<rowVars, docVars, of, mine, told, lateVars>>

-----------------------------------------------------------------------------
(* A cancelled call.                                                        *)

\* What the thread of a call may be about when the call is cancelled.
Pending(c) ==
    {"none"} \cup CASE pc[c] = "executing" -> {"change"}
                   [] pc[c] = "completing" -> {"rest"}
                   [] pc[c] \in {"reconciled", "succeeding"} -> {"applied"}
                   [] pc[c] = "failing" -> {"failed"}
                   [] OTHER -> {}

\* CancelledError is not an Exception: nothing is recorded and the lock is
\* dropped.
Cancel(c) ==
    /\ c \in Cancelled /\ pc[c] \notin {"start", "done"}
    /\ lock' = IF lock = c THEN Nobody ELSE lock
    /\ pc' = [pc EXCEPT ![c] = "done"]
    /\ \E job \in Pending(c) : left' = [left EXCEPT ![c] = job]
    /\ UNCHANGED <<rowVars, docVars, of, mine, told, lateVerdict>>

\* The thread makes its part of the change, whoever has the lock.
ChangesLate(c) ==
    /\ left[c] \in {"change", "rest"}
    /\ \/ doc' = "after" /\ by' = of[c]
       \/ /\ left[c] = "change" /\ of[c] \in Composite
          /\ doc' = "partial" /\ by' = of[c]
       \/ Unforeseen(c)
    /\ started' = IF left[c] = "change" THEN started + 1 ELSE started
    /\ lateChanges' = lateChanges + 1
    /\ left' = [left EXCEPT ![c] = "none"]
    /\ UNCHANGED <<rowVars, restored, edits, lock, callVars, lateVerdict>>

\* The thread records the verdict, whatever the document has become.
DecidesLate(c) ==
    /\ left[c] \in Terminal /\ Decide(c, left[c])
    /\ lateVerdict' = TRUE
    /\ left' = [left EXCEPT ![c] = "none"]
    /\ UNCHANGED <<docVars, lock, callVars>>

\* The claim has been lost, the step fails or the process dies.
EndsLate(c) ==
    /\ left[c] # "none"
    /\ left' = [left EXCEPT ![c] = "none"]
    /\ UNCHANGED <<rowVars, docVars, lock, callVars, lateVerdict>>

Init ==
    /\ state = [r \in Receipt |-> "none"] /\ fence = [r \in Receipt |-> 0]
    /\ leaseOver = [r \in Receipt |-> FALSE]
    /\ expired = [r \in Receipt |-> FALSE]
    /\ doc = "before" /\ by = Nobody /\ lock = Nobody
    /\ pc = [c \in Call |-> "start"] /\ of = [c \in Call |-> Nobody]
    /\ mine = [c \in Call |-> 0] /\ told = [c \in Call |-> "none"]
    /\ started = 0 /\ restored = 0 /\ edits = 0
    /\ left = [c \in Call |-> "none"]
    /\ lateChanges = 0 /\ lateVerdict = FALSE

Execute(c) == Completes(c) \/ Halves(c) \/ Differs(c)

Fails(c) == Raises(c) \/ Denied(c)

Finalize(c) == FinalizeSuccess(c) \/ FinalizeFailure(c) \/ FinalizeRefused(c)

Late(c) == ChangesLate(c) \/ DecidesLate(c) \/ EndsLate(c)

\* The steps of a call that has begun.
Proceeds(c) == \/ Claim(c) \/ ClaimRefused(c) \/ ClaimUnavailable(c)
               \/ Replay(c)
               \/ TakeLock(c) \/ Recheck(c) \/ Execute(c) \/ Observe(c)
               \/ Finalize(c) \/ Leave(c)

Next == \/ \E r \in Receipt : Issue(r) \/ Expire(r) \/ LeaseEnds(r)
        \/ Cleanup \/ Edit
        \/ \E c \in Call : \/ Fetch(c) \/ FetchRefused(c)
                           \/ Proceeds(c) \/ Fails(c) \/ Crash(c)
                           \/ Cancel(c) \/ Late(c)

Spec == Init /\ [][Next]_vars

\* A call that has begun runs to its end, and a lock that is free goes to a
\* call that waits for it.
FairSpec == Spec /\ \A c \in Call : WF_vars(Proceeds(c))

-----------------------------------------------------------------------------

TypeOK ==
    /\ state \in [Receipt -> {"none", "issued", "applying", "applied",
                              "failed", "deleted"}]
    /\ fence \in [Receipt -> Nat]
    /\ leaseOver \in [Receipt -> BOOLEAN] /\ expired \in [Receipt -> BOOLEAN]
    /\ doc \in {"before", "partial", "after", "other"}
    /\ by \in Receipt \cup {Nobody} /\ lock \in Call \cup {Nobody}
    /\ pc \in [Call -> Held \cup {"start", "claiming", "refused", "claimed",
                                  "denied", "done"}]
    /\ of \in [Call -> Receipt \cup {Nobody}] /\ mine \in [Call -> Nat]
    /\ told \in [Call -> {"none", "applied", "replayed", "refused"}]
    /\ left \in [Call -> {"none", "change", "rest"} \cup Terminal]
    /\ started \in Nat /\ restored \in Nat /\ edits \in 0..MaxEdits
    /\ lateChanges \in Nat /\ lateVerdict \in BOOLEAN

\* The change of a receipt is made on the document the preview saw: at most
\* one of all receipts is executed, once, for each time the document was as
\* it had been then; whatever is claimed, lost, recovered or crashes.  Only
\* the change that the thread of a cancelled call makes after its lock was
\* dropped comes on top.
ExecutedOnce == started <= 1 + restored + lateChanges

\* A call that reports success has a receipt that was applied, and one call
\* only reports that it applied it.
AnswersTrue ==
    /\ \A c \in Call : told[c] \in {"applied", "replayed"} =>
                         state[of[c]] \in {"applied", "deleted"}
    /\ \A c, d \in Call : /\ told[c] = "applied" /\ told[d] = "applied"
                          /\ of[c] = of[d]
                          => c = d

\* A receipt gets one verdict, and is declared applied only while the
\* document has the previewed content, until the thread of a cancelled call
\* changes the document or records a verdict without the lock.
Verdict == [r \in Receipt |-> IF state[r] \in {"issued", "applying"}
                              THEN "open" ELSE state[r]]
Beside == lateChanges > 0 \/ lateVerdict
Intent == INSTANCE RetainedIntent WITH verdict <- Verdict, beside <- Beside
KeepsIntent == Intent!Spec

\* Every call ends, also those that wait for the lock of a call that fails,
\* is cancelled or dies.
CallsEnd == \A c \in Call : pc[c] # "start" ~> pc[c] = "done"
=============================================================================

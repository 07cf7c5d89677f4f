-------------------------- MODULE ApplyReceipt_proofs --------------------------
(***************************************************************************)
(* What holds of ApplyReceipt for every set of receipts and calls and any  *)
(* number of edits: the previewed change is executed once, the answers are *)
(* true, and each receipt gets one verdict, as RetainedIntent says.        *)
(***************************************************************************)
EXTENDS ApplyReceipt, TLAPS

USE ConstantsAssumption, BoundsAssumption

\* The lock is with the call that is at a step under it.
Locked == \A c \in Call : lock = c <=> pc[c] \in Held

\* A call on its way has a receipt, and no answer until it leaves.
Underway == \A c \in Call :
    /\ pc[c] \notin {"start", "done"} => of[c] \in Receipt
    /\ pc[c] \notin {"leaving", "done"} => told[c] = "none"
    /\ told[c] \in {"applied", "replayed"} => of[c] \in Receipt

\* A call that has been cancelled left its receipt and its work.
Leftover == \A c \in Call : left[c] # "none" => pc[c] = "done" /\ of[c] \in Receipt

\* The changes begun so far, when one more may be.
Unspent == started <= restored + lateChanges

\* What a call under the lock has seen of the document is still so: what it
\* begins has not been begun, and what it declares applied is there unless
\* somebody has worked beside it.
SeenTrue == \A c \in Call :
    /\ pc[c] = "executing" => Unspent
    /\ pc[c] \in {"reconciled", "succeeding"} =>
         Beside \/ (doc = "after" /\ by = of[c])

\* A document that is as it was before can be changed once more.
Spendable == doc = "before" => Unspent

IInv == /\ TypeOK /\ Locked /\ Underway /\ Leftover /\ SeenTrue
        /\ ExecutedOnce /\ Spendable /\ AnswersTrue

-----------------------------------------------------------------------------

LEMMA InitInv == Init => IInv
<1> SUFFICES ASSUME Init PROVE IInv
  OBVIOUS
<1>1. lateVerdict \in BOOLEAN
  BY Zenon DEF Init
<1>2. TypeOK
  BY <1>1 DEF Init, TypeOK, Terminal
<1>3. Locked /\ Underway /\ Leftover /\ SeenTrue
  BY DEF Init, Locked, Underway, Leftover, SeenTrue, Held
<1>4. ExecutedOnce /\ Spendable /\ AnswersTrue
  BY DEF Init, ExecutedOnce, Spendable, Unspent, AnswersTrue
<1>5. QED  BY <1>2, <1>3, <1>4 DEF IInv

\* The steps that change neither a call nor the document.
LEMMA RowInv ==
  ASSUME IInv, UNCHANGED <<docVars, lock, callVars, lateVars>>, TypeOK',
         \A r \in Receipt : state[r] \in {"applied", "deleted"}
                              => state'[r] \in {"applied", "deleted"}
  PROVE  IInv'
<1>1. /\ Locked' /\ Underway' /\ Leftover' /\ SeenTrue' /\ ExecutedOnce'
      /\ Spendable'
  BY DEF IInv, Locked, Underway, Leftover, SeenTrue, ExecutedOnce, Spendable,
         Unspent, Beside, docVars, callVars, lateVars, Held
<1>2. AnswersTrue'
  <2>1. \A c \in Call : told[c] \in {"applied", "replayed"} =>
                          of[c] \in Receipt
    BY DEF IInv, Underway
  <2>2. QED  BY <2>1 DEF IInv, AnswersTrue, callVars
<1>3. QED  BY <1>1, <1>2 DEF IInv

\* A step of a call that changes neither a row nor the document.
LEMMA CallInv ==
  ASSUME IInv, NEW c \in Call,
         UNCHANGED <<rowVars, docVars, of, mine, lateVerdict>>,
         left' \in [Call -> {"none", "change", "rest"} \cup Terminal],
         \A d \in Call : \/ left'[d] \in {left[d], "none"}
                         \/ d = c /\ pc[c] # "start" /\ pc'[c] = "done",
         pc' \in [Call -> Held \cup {"start", "claiming", "refused", "claimed",
                                    "denied", "done"}],
         told' \in [Call -> {"none", "applied", "replayed", "refused"}],
         lock' \in Call \cup {Nobody},
         \A d \in Call : d # c => pc'[d] = pc[d] /\ told'[d] = told[d],
         pc[c] # "start" \/ pc'[c] = "done",
         lock' = IF pc'[c] \in Held THEN c
                 ELSE IF lock = c THEN Nobody ELSE lock,
         lock \in {c, Nobody} \/ pc'[c] \notin Held,
         pc[c] # "done",
         pc'[c] = "executing" => doc = "before",
         pc'[c] \in {"reconciled", "succeeding"} => doc = "after" /\ by = of[c],
         pc'[c] \notin {"leaving", "done"} => told'[c] = "none",
         told'[c] = "applied" => told[c] = "applied",
         told'[c] = "replayed" => \/ told[c] = "replayed"
                                 \/ /\ of[c] \in Receipt
                                    /\ state[of[c]] \in {"applied", "deleted"}
  PROVE  IInv'
<1>1. TypeOK'
  BY DEF IInv, TypeOK, rowVars, docVars
<1>2. Locked'
  <2>1. SUFFICES ASSUME NEW d \in Call
                 PROVE  (lock = d <=> pc[d] \in Held)'
    BY DEF Locked
  <2>2. lock = d <=> pc[d] \in Held
    BY DEF IInv, Locked
  <2>3. CASE d = c
    BY <2>3
  <2>4. CASE d # c
    BY <2>2, <2>4 DEF Held
  <2>5. QED  BY <2>3, <2>4
<1>3. Underway'
  BY DEF IInv, Underway
<1>4. SeenTrue'
  BY DEF IInv, SeenTrue, Spendable, Unspent, Beside, docVars
<1>5. ExecutedOnce' /\ Spendable'
  BY DEF IInv, ExecutedOnce, Spendable, Unspent, docVars
<1>8. Leftover'
  BY DEF IInv, TypeOK, Underway, Leftover
<1>6. AnswersTrue'
  <2>1. \A d \in Call : told'[d] \in {"applied", "replayed"} =>
                           state[of[d]] \in {"applied", "deleted"}
    BY DEF IInv, AnswersTrue
  <2>2. \A d \in Call : told'[d] = "applied" => told[d] = "applied"
    OBVIOUS
  <2>3. state' = state /\ of' = of
    BY DEF rowVars
  <2>4. QED  BY <2>1, <2>2, <2>3 DEF IInv, AnswersTrue
<1>7. QED  BY <1>1, <1>2, <1>3, <1>4, <1>5, <1>6, <1>8 DEF IInv

\* A call reads the row of its receipt.
LEMMA FetchInv ==
  ASSUME IInv, NEW c \in Call, Fetch(c)
  PROVE  IInv'
<1>1. PICK r \in Receipt : of' = [of EXCEPT ![c] = r]
  BY DEF Fetch
<1>2. /\ pc[c] = "start" /\ pc' = [pc EXCEPT ![c] = "claiming"]
      /\ UNCHANGED <<rowVars, docVars, lock, mine, told, lateVars>>
      /\ TypeOK /\ told[c] = "none"
  BY DEF Fetch, IInv, Underway
<1>3. TypeOK'
  BY <1>1, <1>2 DEF TypeOK, rowVars, docVars, lateVars
<1>4. Locked'
  BY <1>2 DEF IInv, Locked, TypeOK, Held
<1>5. Underway'
  BY <1>1, <1>2 DEF IInv, Underway, TypeOK
<1>6. SeenTrue'
  BY <1>1, <1>2 DEF IInv, SeenTrue, Unspent, Beside, TypeOK, docVars, lateVars
<1>7. ExecutedOnce' /\ Spendable'
  BY <1>2 DEF IInv, ExecutedOnce, Spendable, Unspent, docVars
<1>8. AnswersTrue'
  <2>1. \A d \in Call : d # c => of'[d] = of[d]
    BY <1>1, <1>2 DEF TypeOK
  <2>2. QED  BY <1>2, <2>1 DEF IInv, AnswersTrue, rowVars
<1>9. Leftover'
  BY <1>1, <1>2 DEF IInv, Leftover, TypeOK, lateVars
<1>10. QED  BY <1>3, <1>4, <1>5, <1>6, <1>7, <1>8, <1>9 DEF IInv

\* A claim starts a fence of its own.
LEMMA ClaimInv ==
  ASSUME IInv, NEW c \in Call, Claim(c)
  PROVE  IInv'
<1>1. /\ pc[c] = "claiming" /\ pc' = [pc EXCEPT ![c] = "claimed"]
      /\ state[of[c]] \in {"issued", "applying"} /\ of[c] \in Receipt
      /\ state' = [state EXCEPT ![of[c]] = "applying"]
      /\ fence' = [fence EXCEPT ![of[c]] = @ + 1]
      /\ leaseOver' = [leaseOver EXCEPT ![of[c]] = FALSE]
      /\ mine' = [mine EXCEPT ![c] = fence[of[c]] + 1]
      /\ UNCHANGED <<expired, docVars, lock, of, told, lateVars>>
      /\ TypeOK
  BY DEF Claim, Claimable, IInv, Underway
<1>2. TypeOK'
  <2>1. fence' \in [Receipt -> Nat] /\ mine' \in [Call -> Nat]
    BY <1>1 DEF TypeOK
  <2>2. leaseOver' \in [Receipt -> BOOLEAN]
    BY <1>1 DEF TypeOK
  <2>3. state' \in [Receipt -> {"none", "issued", "applying", "applied",
                               "failed", "deleted"}]
    BY <1>1 DEF TypeOK
  <2>4. QED  BY <1>1, <2>1, <2>2, <2>3 DEF TypeOK, docVars, lateVars
<1>3. Locked'
  BY <1>1 DEF IInv, Locked, TypeOK, Held
<1>4. Underway'
  BY <1>1 DEF IInv, Underway, TypeOK
<1>5. SeenTrue'
  BY <1>1 DEF IInv, SeenTrue, Unspent, Beside, TypeOK, docVars, lateVars
<1>6. ExecutedOnce' /\ Spendable'
  BY <1>1 DEF IInv, ExecutedOnce, Spendable, Unspent, docVars
<1>7. AnswersTrue'
  <2>1. \A d \in Call : told[d] \in {"applied", "replayed"} =>
                           of[d] # of[c] /\ of[d] \in Receipt
    BY <1>1 DEF IInv, AnswersTrue, Underway
  <2>2. QED  BY <1>1, <2>1 DEF IInv, AnswersTrue, TypeOK
<1>8. Leftover'
  BY <1>1 DEF IInv, Leftover, TypeOK, lateVars
<1>9. QED  BY <1>2, <1>3, <1>4, <1>5, <1>6, <1>7, <1>8 DEF IInv

\* The call under the lock changes the document: no other call is there.
LEMMA ExecuteInv ==
  ASSUME IInv, NEW c \in Call, Execute(c)
  PROVE  IInv'
<1>1. /\ pc[c] \in Executing /\ of[c] \in Receipt
      /\ pc[c] = "executing" => Unspent
      /\ UNCHANGED <<rowVars, restored, edits, lateChanges, lock, of, mine, told,
                     lateVars>>
      /\ Starts(c) /\ TypeOK
      /\ doc' \in {"partial", "after", "other"} /\ by' \in Receipt \cup {Nobody}
  BY DEF Execute, Completes, Halves, Differs, Unforeseen, Goto, IInv, SeenTrue,
         Underway, Executing
<1>2. \E l \in {"observing", "completing"} : pc' = [pc EXCEPT ![c] = l]
  BY DEF Execute, Completes, Halves, Differs, Goto
<1>3. /\ pc'[c] \in {"observing", "completing"}
      /\ \A d \in Call : d # c => pc[d] \notin Held /\ pc'[d] = pc[d]
      /\ pc' \in [Call -> Held \cup {"start", "claiming", "refused", "claimed",
                                     "denied", "done"}]
  BY <1>1, <1>2 DEF IInv, Locked, Held, TypeOK, Executing
<1>4. started' \in Nat /\ started' <= 1 + restored + lateChanges
  BY <1>1 DEF Starts, IInv, TypeOK, Unspent, ExecutedOnce
<1>5. TypeOK'
  BY <1>1, <1>3, <1>4 DEF TypeOK, rowVars, lateVars
<1>6. Locked'
  BY <1>1, <1>3 DEF IInv, Locked, Held, Executing
<1>7. Underway' /\ Leftover'
  BY <1>1, <1>3 DEF IInv, Underway, Leftover, lateVars, Executing
<1>8. SeenTrue'
  BY <1>3 DEF SeenTrue, Held
<1>9. ExecutedOnce' /\ Spendable'
  BY <1>1, <1>4 DEF ExecutedOnce, Spendable
<1>10. AnswersTrue'
  BY <1>1 DEF IInv, AnswersTrue, rowVars
<1>11. QED  BY <1>5, <1>6, <1>7, <1>8, <1>9, <1>10 DEF IInv

\* The thread of a cancelled call changes the document beside everybody.
LEMMA ChangesLateInv ==
  ASSUME IInv, NEW c \in Call, ChangesLate(c)
  PROVE  IInv'
<1>1. /\ of[c] \in Receipt /\ TypeOK
      /\ UNCHANGED <<rowVars, restored, edits, lock, callVars, lateVerdict>>
      /\ left' = [left EXCEPT ![c] = "none"]
      /\ doc' \in {"partial", "after", "other"} /\ by' \in Receipt \cup {Nobody}
      /\ started' \in {started, started + 1} /\ lateChanges' = lateChanges + 1
  BY DEF ChangesLate, Unforeseen, IInv, Leftover
<1>2. TypeOK'
  BY <1>1 DEF TypeOK, rowVars, callVars
<1>3. Locked' /\ Underway' /\ AnswersTrue'
  BY <1>1 DEF IInv, Locked, Underway, AnswersTrue, rowVars, callVars
<1>4. Leftover'
  BY <1>1 DEF IInv, Leftover, TypeOK, callVars
<1>5. Beside' /\ (Unspent => Unspent')
  BY <1>1 DEF Beside, Unspent, TypeOK
<1>6. SeenTrue'
  BY <1>1, <1>5 DEF IInv, SeenTrue, callVars
<1>7. ExecutedOnce' /\ Spendable'
  BY <1>1 DEF IInv, ExecutedOnce, Spendable, TypeOK
<1>8. QED  BY <1>2, <1>3, <1>4, <1>6, <1>7 DEF IInv

\* It ends without a trace.
LEMMA EndsLateInv ==
  ASSUME IInv, NEW c \in Call, EndsLate(c)
  PROVE  IInv'
<1>1. /\ UNCHANGED <<rowVars, docVars, lock, callVars, lateVerdict>>
      /\ left' = [left EXCEPT ![c] = "none"] /\ TypeOK
  BY DEF EndsLate, IInv
<1>2. TypeOK'
  BY <1>1 DEF TypeOK, rowVars, docVars, callVars
<1>3. Locked' /\ Underway' /\ AnswersTrue' /\ Leftover'
  BY <1>1 DEF IInv, Locked, Underway, AnswersTrue, Leftover, TypeOK, rowVars,
              callVars
<1>4. SeenTrue' /\ ExecutedOnce' /\ Spendable'
  BY <1>1 DEF IInv, SeenTrue, ExecutedOnce, Spendable, Unspent, Beside, docVars,
              callVars
<1>5. QED  BY <1>2, <1>3, <1>4 DEF IInv

\* The owner of the claim gives the verdict: no call has had an answer yet.
LEMMA FinalizeInv ==
  ASSUME IInv, NEW c \in Call, FinalizeSuccess(c) \/ FinalizeFailure(c)
  PROVE  IInv'
<1>1. /\ pc[c] \in {"reconciled", "succeeding", "failing", "denied"}
      /\ of[c] \in Receipt /\ state[of[c]] = "applying" /\ TypeOK
      /\ \E v \in Terminal : state' = [state EXCEPT ![of[c]] = v]
      /\ leaseOver' = [leaseOver EXCEPT ![of[c]] = FALSE]
      /\ UNCHANGED <<fence, expired, docVars, lock, of, mine, lateVars>>
  BY DEF FinalizeSuccess, FinalizeFailure, Decide, Owns, Goto, Refuse,
         Terminal, IInv, Underway
<1>2. /\ \E l \in {"leaving", "done"} :
           pc' = [pc EXCEPT ![c] = l] /\ (l = "done" <=> pc[c] = "denied")
      /\ \E a \in {"applied", "replayed", "refused"} :
           /\ told' = [told EXCEPT ![c] = a]
           /\ a # "refused" => state'[of[c]] = "applied"
  BY <1>1 DEF FinalizeSuccess, FinalizeFailure, Decide, Goto, Refuse, Answer,
              Success, TypeOK
<1>3. /\ \A d \in Call : d # c => pc'[d] = pc[d] /\ told'[d] = told[d]
      /\ pc'[c] = IF pc[c] = "denied" THEN "done" ELSE "leaving"
      /\ pc' \in [Call -> Held \cup {"start", "claiming", "refused", "claimed",
                                     "denied", "done"}]
      /\ told' \in [Call -> {"none", "applied", "replayed", "refused"}]
      /\ told'[c] # "refused" => state'[of[c]] = "applied"
  <2>1. PICK l \in {"leaving", "done"} :
          pc' = [pc EXCEPT ![c] = l] /\ (l = "done" <=> pc[c] = "denied")
    BY <1>2
  <2>2. PICK a \in {"applied", "replayed", "refused"} :
          /\ told' = [told EXCEPT ![c] = a]
          /\ a # "refused" => state'[of[c]] = "applied"
    BY <1>2
  <2>3. \A d \in Call : d # c => pc'[d] = pc[d] /\ told'[d] = told[d]
    BY <1>1, <2>1, <2>2 DEF TypeOK
  <2>4. pc'[c] = l /\ told'[c] = a
    BY <1>1, <2>1, <2>2 DEF TypeOK
  <2>5. QED  BY <1>1, <2>1, <2>2, <2>3, <2>4 DEF TypeOK, Held
<1>4. TypeOK'
  <2>1. state' \in [Receipt -> {"none", "issued", "applying", "applied",
                               "failed", "deleted"}]
    BY <1>1 DEF TypeOK, Terminal
  <2>2. leaseOver' \in [Receipt -> BOOLEAN]
    BY <1>1 DEF TypeOK
  <2>3. QED  BY <1>1, <1>3, <2>1, <2>2 DEF TypeOK, docVars, lateVars
<1>5. Locked'
  BY <1>1, <1>3 DEF IInv, Locked, Held
<1>6. Underway'
  BY <1>1, <1>3 DEF IInv, Underway
<1>7. SeenTrue'
  BY <1>1, <1>3 DEF IInv, SeenTrue, Unspent, Beside, docVars, lateVars
<1>8. ExecutedOnce' /\ Spendable'
  BY <1>1 DEF IInv, ExecutedOnce, Spendable, Unspent, docVars
<1>9. AnswersTrue'
  <2>1. \A d \in Call : told[d] \in {"applied", "replayed"} =>
          of[d] # of[c] /\ of[d] \in Receipt
    BY <1>1 DEF IInv, AnswersTrue, Underway
  <2>2. \A r \in Receipt : r # of[c] => state'[r] = state[r]
    BY <1>1 DEF TypeOK
  <2>3. QED  BY <1>1, <1>3, <2>1, <2>2 DEF IInv, AnswersTrue
<1>10. Leftover'
  BY <1>1, <1>3 DEF IInv, Leftover, lateVars
<1>11. QED  BY <1>4, <1>5, <1>6, <1>7, <1>8, <1>9, <1>10 DEF IInv

\* The thread of a cancelled call gives the verdict: nobody has had an answer
\* that says otherwise.
LEMMA DecidesLateInv ==
  ASSUME IInv, NEW c \in Call, DecidesLate(c)
  PROVE  IInv'
<1>1. /\ of[c] \in Receipt /\ state[of[c]] = "applying" /\ TypeOK
      /\ \E v \in Terminal : state' = [state EXCEPT ![of[c]] = v]
      /\ leaseOver' = [leaseOver EXCEPT ![of[c]] = FALSE]
      /\ left' = [left EXCEPT ![c] = "none"] /\ lateVerdict' = TRUE
      /\ UNCHANGED <<fence, expired, docVars, lock, callVars>>
  BY DEF DecidesLate, Decide, Owns, Terminal, IInv, Leftover
<1>2. TypeOK'
  <2>1. state' \in [Receipt -> {"none", "issued", "applying", "applied",
                               "failed", "deleted"}]
    BY <1>1 DEF TypeOK, Terminal
  <2>2. /\ leaseOver' \in [Receipt -> BOOLEAN]
        /\ left' \in [Call -> {"none", "change", "rest"} \cup Terminal]
    BY <1>1 DEF TypeOK
  <2>3. QED  BY <1>1, <2>1, <2>2 DEF TypeOK, docVars, callVars, lateVars
<1>3. Locked' /\ Underway' /\ Leftover'
  BY <1>1 DEF IInv, Locked, Underway, Leftover, TypeOK, callVars
<1>4. Beside'
  BY <1>1 DEF Beside
<1>5. SeenTrue' /\ ExecutedOnce' /\ Spendable'
  BY <1>1, <1>4 DEF IInv, SeenTrue, ExecutedOnce, Spendable, Unspent, docVars,
                    callVars
<1>6. AnswersTrue'
  <2>1. \A d \in Call : told[d] \in {"applied", "replayed"} =>
          of[d] # of[c] /\ of[d] \in Receipt
    BY <1>1 DEF IInv, AnswersTrue, Underway
  <2>2. \A r \in Receipt : r # of[c] => state'[r] = state[r]
    BY <1>1 DEF TypeOK
  <2>3. QED  BY <1>1, <2>1, <2>2 DEF IInv, AnswersTrue, callVars
<1>7. QED  BY <1>2, <1>3, <1>5, <1>6 DEF IInv

\* An edit finds nobody under the lock.
LEMMA EditInv ==
  ASSUME IInv, Edit
  PROVE  IInv'
<1>1. /\ UNCHANGED <<started, lateChanges, rowVars, lock, callVars, lateVars>>
      /\ lock = Nobody
      /\ TypeOK /\ edits' \in 0..MaxEdits
      /\ doc' \in {"before", "other", "after"} /\ by' \in Receipt \cup {Nobody}
      /\ \/ doc' = "before" /\ restored' = restored + 1
         \/ doc' # "before" /\ restored' = restored
  BY DEF Edit, IInv, TypeOK
<1>2. TypeOK'
  BY <1>1 DEF TypeOK, rowVars, callVars, lateVars
<1>3. \A c \in Call : pc'[c] \notin Held
  BY <1>1 DEF IInv, Locked, callVars
<1>4. Locked' /\ Underway' /\ SeenTrue' /\ Leftover'
  BY <1>1, <1>3 DEF IInv, Locked, Underway, SeenTrue, Leftover, callVars,
                    lateVars, Held
<1>5. ExecutedOnce' /\ Spendable'
  BY <1>1 DEF IInv, ExecutedOnce, Spendable, Unspent, TypeOK
<1>6. AnswersTrue'
  BY <1>1 DEF IInv, AnswersTrue, rowVars, callVars
<1>7. QED  BY <1>2, <1>4, <1>5, <1>6 DEF IInv

-----------------------------------------------------------------------------

\* The steps of a call that CallInv covers.
LEMMA QuietCallInv ==
  ASSUME IInv, NEW c \in Call,
         \/ FetchRefused(c) \/ ClaimRefused(c) \/ ClaimUnavailable(c)
         \/ Replay(c) \/ TakeLock(c) \/ Recheck(c) \/ Fails(c)
         \/ Observe(c) \/ FinalizeRefused(c) \/ Leave(c) \/ Crash(c)
         \/ Cancel(c)
  PROVE  IInv'
<1>1. /\ TypeOK /\ Locked /\ Underway /\ SeenTrue /\ AnswersTrue
      /\ lock \in Call \cup {Nobody}
      /\ left \in [Call -> {"none", "change", "rest"} \cup Terminal]
  BY DEF IInv, TypeOK
<1>2. ASSUME FetchRefused(c) \/ ClaimRefused(c) \/ ClaimUnavailable(c) \/ Replay(c)
      PROVE  IInv'
  BY <1>1, <1>2, CallInv
     DEF FetchRefused, ClaimRefused, ClaimUnavailable, Replay, Refuse, Answer,
         Goto, lateVars, TypeOK, Locked, Underway, Held
<1>3. ASSUME TakeLock(c)  PROVE  IInv'
  BY <1>1, <1>3, CallInv DEF TakeLock, Goto, lateVars, TypeOK, Locked, Underway, Held
<1>4. ASSUME Recheck(c)  PROVE  IInv'
  BY <1>1, <1>4, CallInv
     DEF Recheck, Reconciles, Resumable, Seen, Refuse, Answer, Goto, lateVars,
         TypeOK, Locked, Underway, Held
<1>5. ASSUME Fails(c)  PROVE  IInv'
  BY <1>1, <1>5, CallInv
     DEF Fails, Raises, Denied, Guarded, Executing, Refuse, Answer, Goto, lateVars,
         TypeOK, Locked, Underway, Held
<1>6. ASSUME Observe(c)  PROVE  IInv'
  BY <1>1, <1>6, CallInv
     DEF Observe, Seen, Goto, lateVars, TypeOK, Locked, Underway, Held
<1>7. ASSUME FinalizeRefused(c)  PROVE  IInv'
  BY <1>1, <1>7, CallInv
     DEF FinalizeRefused, Refuse, Answer, Goto, lateVars, TypeOK, Locked, Underway, Held
<1>8. ASSUME Leave(c)  PROVE  IInv'
  BY <1>1, <1>8, CallInv DEF Leave, Goto, lateVars, TypeOK, Locked, Underway, Held
<1>9. ASSUME Crash(c)  PROVE  IInv'
  BY <1>1, <1>9, CallInv DEF Crash, lateVars, TypeOK, Locked, Underway, Held
<1>10. ASSUME Cancel(c)  PROVE  IInv'
  <2>1. PICK job \in Pending(c) : left' = [left EXCEPT ![c] = job]
    BY <1>10 DEF Cancel
  <2>2. job \in {"none", "change", "rest"} \cup Terminal
    BY <2>1 DEF Pending, Terminal
  <2>3. /\ left' \in [Call -> {"none", "change", "rest"} \cup Terminal]
        /\ \A d \in Call : d # c => left'[d] = left[d]
    BY <1>1, <2>1, <2>2
  <2>4. QED
    BY <1>1, <1>10, <2>3, CallInv DEF Cancel, TypeOK, Locked, Underway, Held
<1>11. QED  BY <1>2, <1>3, <1>4, <1>5, <1>6, <1>7, <1>8, <1>9, <1>10

\* The steps of a row alone.
LEMMA QuietRowInv ==
  ASSUME IInv,
         Cleanup \/ \E r \in Receipt : Issue(r) \/ Expire(r) \/ LeaseEnds(r)
  PROVE  IInv'
<1>1. TypeOK
  BY DEF IInv
<1>2. ASSUME NEW r \in Receipt, Issue(r)  PROVE  IInv'
  BY <1>1, <1>2, RowInv DEF Issue, TypeOK, docVars, callVars, lateVars
<1>3. ASSUME NEW r \in Receipt, Expire(r)  PROVE  IInv'
  BY <1>1, <1>3, RowInv DEF Expire, TypeOK, docVars, callVars, lateVars
<1>4. ASSUME NEW r \in Receipt, LeaseEnds(r)  PROVE  IInv'
  BY <1>1, <1>4, RowInv DEF LeaseEnds, TypeOK, docVars, callVars, lateVars
<1>5. ASSUME Cleanup  PROVE  IInv'
  BY <1>1, <1>5, RowInv DEF Cleanup, Old, TypeOK, docVars, callVars, lateVars
<1>6. QED  BY <1>2, <1>3, <1>4, <1>5

LEMMA NextInv == IInv /\ [Next]_vars => IInv'
<1> SUFFICES ASSUME IInv, [Next]_vars  PROVE  IInv'
  OBVIOUS
<1>1. CASE UNCHANGED vars
  BY <1>1 DEF vars, rowVars, docVars, callVars, lateVars, IInv, TypeOK, Locked,
              Underway, Leftover, SeenTrue, ExecutedOnce, Spendable, Unspent,
              Beside, AnswersTrue
<1>2. CASE Cleanup \/ \E r \in Receipt : Issue(r) \/ Expire(r) \/ LeaseEnds(r)
  BY <1>2, QuietRowInv
<1>3. CASE Edit
  BY <1>3, EditInv
<1>4. ASSUME NEW c \in Call,
             \/ Fetch(c) \/ FetchRefused(c) \/ Proceeds(c) \/ Fails(c)
             \/ Crash(c) \/ Cancel(c) \/ Late(c)
      PROVE  IInv'
  BY <1>4, FetchInv, ClaimInv, ExecuteInv, FinalizeInv, QuietCallInv,
     ChangesLateInv, DecidesLateInv, EndsLateInv
     DEF Proceeds, Finalize, Late
<1>5. QED  BY <1>1, <1>2, <1>3, <1>4 DEF Next

LEMMA Invariance == Spec => []IInv
  BY InitInv, NextInv, PTL DEF Spec

\* Every variable keeps its type.
THEOREM TypeCorrect == Spec => []TypeOK
<1>1. IInv => TypeOK
  BY DEF IInv
<1>2. QED  BY Invariance, <1>1, PTL

\* The changes of all receipts of a preview are executed once for each time
\* the document was as the preview saw it (apply, execute_retained_intent).
THEOREM OneExecution == Spec => []ExecutedOnce
<1>1. IInv => ExecutedOnce
  BY DEF IInv
<1>2. QED  BY Invariance, <1>1, PTL

\* Success is reported for applied receipts only, and "applied" once
\* (_finalize_success, _terminal_replay).
THEOREM TrueAnswers == Spec => []AnswersTrue
<1>1. IInv => AnswersTrue
  BY DEF IInv
<1>2. QED  BY Invariance, <1>1, PTL

-----------------------------------------------------------------------------
(* The verdict of each receipt.                                             *)

LEMMA InitIntent == Init => Intent!Init
  BY DEF Init, Intent!Init, Verdict, Beside

\* What has been done beside the lock stays done.
LEMMA BesideStays ==
  ASSUME IInv, [Next]_vars
  PROVE  Beside' \in BOOLEAN /\ (Beside => Beside')
<1>1. lateChanges \in Nat
  BY DEF IInv, TypeOK
<1>2. lateChanges' \in {lateChanges, lateChanges + 1} /\ (lateVerdict => lateVerdict')
  <2>1. ASSUME NEW c \in Call, Late(c) \/ Cancel(c)
        PROVE  lateChanges' \in {lateChanges, lateChanges + 1} /\ (lateVerdict => lateVerdict')
    BY <2>1 DEF Late, Cancel, ChangesLate, DecidesLate, EndsLate, docVars
  <2>2. ASSUME NEW c \in Call,
               Fetch(c) \/ FetchRefused(c) \/ Proceeds(c) \/ Fails(c) \/ Crash(c)
        PROVE  UNCHANGED <<lateChanges, lateVerdict>>
    BY <2>2 DEF Fetch, FetchRefused, Proceeds, Claim, ClaimRefused,
                ClaimUnavailable, Replay, TakeLock, Recheck, Execute, Completes,
                Halves, Differs, Observe, Finalize, FinalizeSuccess,
                FinalizeFailure, FinalizeRefused, Leave, Fails, Raises, Denied,
                Crash, Goto, Refuse, docVars, lateVars
  <2>3. ASSUME NEW r \in Receipt, Issue(r) \/ Expire(r) \/ LeaseEnds(r)
        PROVE  UNCHANGED <<lateChanges, lateVerdict>>
    BY <2>3 DEF Issue, Expire, LeaseEnds, docVars, lateVars
  <2>4. CASE Cleanup \/ Edit \/ UNCHANGED vars
    BY <2>4 DEF Cleanup, Edit, vars, docVars, lateVars
  <2>5. QED  BY <2>1, <2>2, <2>3, <2>4 DEF Next
<1>3. QED  BY <1>1, <1>2 DEF Beside

\* A claim, and the end of a lifetime or a lease, leave the receipt open.
LEMMA SameVerdict ==
  ASSUME UNCHANGED <<doc, by>>,
         \A r \in Receipt : \/ state'[r] = state[r]
                            \/ {state[r], state'[r]} \subseteq {"issued", "applying"}
  PROVE  UNCHANGED <<Verdict, doc, by>>
  BY DEF Verdict

\* A row that changes its verdict changes it alone.
LEMMA OneVerdict ==
  ASSUME NEW r \in Receipt, NEW s, TypeOK, UNCHANGED <<doc, by>>,
         state' = [state EXCEPT ![r] = s]
  PROVE  Intent!Becomes(r, IF s \in {"issued", "applying"} THEN "open" ELSE s)
<1>1. \A q \in Receipt : state'[q] = IF q = r THEN s ELSE state[q]
  BY DEF TypeOK
<1>2. Verdict' = [Verdict EXCEPT ![r] = IF s \in {"issued", "applying"}
                                       THEN "open" ELSE s]
  BY <1>1 DEF Verdict
<1>3. QED  BY <1>2 DEF Intent!Becomes

\* A verdict is given by a call under the lock that has seen the content, or
\* by the thread of a cancelled one.
LEMMA DecideIntent ==
  ASSUME IInv, NEW c \in Call,
         FinalizeSuccess(c) \/ FinalizeFailure(c) \/ DecidesLate(c)
  PROVE  \E r \in Receipt : Intent!Apply(r) \/ Intent!Fail(r)
<1>1. /\ of[c] \in Receipt /\ TypeOK /\ state[of[c]] = "applying"
      /\ UNCHANGED <<doc, by>>
  BY DEF IInv, Underway, Leftover, FinalizeSuccess, FinalizeFailure, DecidesLate,
         Decide, Owns, docVars, Terminal
<1>2. Verdict[of[c]] = "open"
  BY <1>1 DEF Verdict
<1>3. CASE state' = [state EXCEPT ![of[c]] = "failed"]
  <2>1. Intent!Becomes(of[c], "failed")
    BY <1>1, <1>3, OneVerdict
  <2>2. QED  BY <1>1, <1>2, <2>1 DEF Intent!Fail
<1>4. CASE /\ state' = [state EXCEPT ![of[c]] = "applied"]
           /\ (doc = "after" /\ by = of[c]) \/ Beside'
  <2>1. Intent!Becomes(of[c], "applied")
    BY <1>1, <1>4, OneVerdict
  <2>2. QED  BY <1>1, <1>2, <1>4, <2>1 DEF Intent!Apply
<1>5. ASSUME FinalizeSuccess(c)
      PROVE  /\ state' = [state EXCEPT ![of[c]] = "applied"]
             /\ (doc = "after" /\ by = of[c]) \/ Beside'
  <2>1. (doc = "after" /\ by = of[c]) \/ Beside
    BY <1>5 DEF FinalizeSuccess, IInv, SeenTrue
  <2>2. Beside' = Beside
    BY <1>5 DEF FinalizeSuccess, Goto, docVars, lateVars, Beside
  <2>3. QED  BY <1>5, <2>1, <2>2 DEF FinalizeSuccess, Decide
<1>6. ASSUME DecidesLate(c)
      PROVE  /\ state' = [state EXCEPT ![of[c]] = left[c]]
             /\ left[c] \in Terminal /\ Beside'
  BY <1>6 DEF DecidesLate, Decide, Beside
<1>7. ASSUME FinalizeFailure(c)
      PROVE  state' = [state EXCEPT ![of[c]] = "failed"]
  BY <1>7 DEF FinalizeFailure, Decide
<1>8. QED  BY <1>3, <1>4, <1>5, <1>6, <1>7 DEF Terminal

LEMMA StepIntent ==
  ASSUME IInv, [Next]_vars
  PROVE  [Intent!Next]_(Intent!intentVars)
<1>1. TypeOK /\ TypeOK' /\ Beside' \in BOOLEAN /\ (Beside => Beside')
  BY NextInv, BesideStays DEF IInv
<1>2. ASSUME UNCHANGED <<Verdict, doc, by>>
      PROVE  Intent!Change
  BY <1>1, <1>2 DEF Intent!Change, TypeOK
<1>3. CASE UNCHANGED vars
  <2>1. UNCHANGED <<Verdict, doc, by, Beside>>
    BY <1>3 DEF vars, rowVars, docVars, lateVars, Verdict, Beside
  <2>2. QED  BY <2>1 DEF Intent!intentVars
<1>4. ASSUME NEW r \in Receipt, Issue(r)
      PROVE  Intent!Issue(r)
  <2>1. Intent!Becomes(r, "open")
    BY <1>1, <1>4, OneVerdict DEF Issue, docVars
  <2>2. Verdict[r] = "none"
    BY <1>4 DEF Issue, Verdict
  <2>3. QED  BY <2>1, <2>2 DEF Intent!Issue
<1>5. ASSUME Cleanup
      PROVE  Intent!Forget
  <2>1. /\ \A r \in Old : state[r] # "none"
        /\ Old \subseteq Receipt /\ UNCHANGED <<doc, by>>
        /\ state' = [r \in Receipt |-> IF r \in Old THEN "deleted" ELSE state[r]]
    BY <1>5 DEF Cleanup, Old, Terminal, docVars
  <2>2. \A r \in Receipt : state'[r] = IF r \in Old THEN "deleted" ELSE state[r]
    BY <2>1
  <2>3. Verdict' = [r \in Receipt |-> IF r \in Old THEN "deleted" ELSE Verdict[r]]
    BY <2>2 DEF Verdict
  <2>4. Old \in SUBSET {r \in Receipt : Verdict[r] # "none"}
    BY <2>1 DEF Verdict
  <2>5. QED  BY <2>1, <2>3, <2>4 DEF Intent!Forget
<1>6. ASSUME Edit \/ \E c \in Call : Execute(c) \/ ChangesLate(c)
      PROVE  Intent!Change
  <2>1. state' = state
    BY <1>6 DEF Edit, Execute, Completes, Halves, Differs, ChangesLate, rowVars
  <2>2. Verdict' = Verdict
    BY <2>1 DEF Verdict
  <2>3. /\ doc' \in {"before", "partial", "after", "other"}
        /\ by' \in Receipt \cup {Nobody}
    BY <1>1 DEF TypeOK
  <2>4. QED  BY <2>2, <2>3 DEF Intent!Change
<1>7. ASSUME NEW c \in Call, Claim(c)
      PROVE  Intent!Change
  <2>1. /\ UNCHANGED <<doc, by>> /\ state[of[c]] \in {"issued", "applying"}
        /\ of[c] \in Receipt /\ state' = [state EXCEPT ![of[c]] = "applying"]
    BY <1>7 DEF Claim, Claimable, docVars, IInv, Underway
  <2>2. \A r \in Receipt : state'[r] = IF r = of[c] THEN "applying" ELSE state[r]
    BY <1>1, <2>1 DEF TypeOK
  <2>3. UNCHANGED <<Verdict, doc, by>>
    BY <2>1, <2>2, SameVerdict
  <2>4. QED  BY <1>2, <2>3
<1>8. ASSUME UNCHANGED <<state, docVars>>
      PROVE  Intent!Change
  BY <1>2, <1>8, SameVerdict DEF docVars
<1>9. ASSUME NEW r \in Receipt, Expire(r) \/ LeaseEnds(r)
      PROVE  UNCHANGED <<state, docVars>>
  BY <1>9 DEF Expire, LeaseEnds
<1>10. ASSUME NEW c \in Call,
              \/ Fetch(c) \/ FetchRefused(c) \/ ClaimRefused(c)
              \/ ClaimUnavailable(c) \/ Replay(c) \/ TakeLock(c) \/ Recheck(c)
              \/ Observe(c) \/ FinalizeRefused(c) \/ Leave(c) \/ Fails(c)
              \/ Crash(c) \/ Cancel(c) \/ EndsLate(c)
       PROVE  UNCHANGED <<state, docVars>>
  BY <1>10 DEF Fetch, FetchRefused, ClaimRefused, ClaimUnavailable, Replay,
               TakeLock, Recheck, Observe, FinalizeRefused, Leave, Fails,
               Raises, Denied, Crash, Cancel, EndsLate, rowVars
<1>11. ASSUME NEW c \in Call,
              \/ Fetch(c) \/ FetchRefused(c) \/ Proceeds(c) \/ Fails(c)
              \/ Crash(c) \/ Cancel(c) \/ Late(c)
       PROVE  \/ Intent!Change
              \/ \E r \in Receipt : Intent!Apply(r) \/ Intent!Fail(r)
  BY <1>6, <1>7, <1>8, <1>10, <1>11, DecideIntent DEF Proceeds, Finalize, Late
<1>12. ASSUME NEW r \in Receipt, Issue(r) \/ Expire(r) \/ LeaseEnds(r)
       PROVE  Intent!Change \/ Intent!Issue(r)
  BY <1>4, <1>8, <1>9, <1>12
<1>13. QED  BY <1>1, <1>3, <1>5, <1>6, <1>11, <1>12 DEF Next, Intent!Next

\* ApplyReceipt implements RetainedIntent: one verdict for each receipt, and
\* "applied" only while the document has the previewed content (finalize,
\* under the mutation lock).
THEOREM ImplementsIntent == Spec => KeepsIntent
<1>1. IInv /\ [Next]_vars => [Intent!Next]_(Intent!intentVars)
  BY StepIntent
<1>2. QED  BY Invariance, InitIntent, <1>1, PTL DEF Spec, KeepsIntent, Intent!Spec
=============================================================================

---------------------------- MODULE RetainedIntent ----------------------------
(***************************************************************************)
(* What a receipt for a previewed change promises: it gets one verdict,    *)
(* and is declared applied only while the document has the content that    *)
(* was previewed for it.  The second half is promised as long as nothing   *)
(* works on the document or the receipt beside the one who holds the lock. *)
(***************************************************************************)
CONSTANTS Receipt, Nobody

VARIABLES verdict,  \* "none", "open", "applied", "failed" or "deleted"
          doc,      \* "before", "partial", "after" or "other"
          by,       \* the receipt whose change the document has, if any
          beside    \* somebody has worked beside the holder of the lock

intentVars == <<verdict, doc, by, beside>>

Init == /\ verdict = [r \in Receipt |-> "none"]
        /\ doc = "before" /\ by = Nobody /\ beside = FALSE

Becomes(r, v) == verdict' = [verdict EXCEPT ![r] = v] /\ UNCHANGED <<doc, by>>

Issue(r) == verdict[r] = "none" /\ Becomes(r, "open")

Apply(r) == /\ verdict[r] = "open" /\ ((doc = "after" /\ by = r) \/ beside')
            /\ Becomes(r, "applied")

Fail(r) == verdict[r] = "open" /\ Becomes(r, "failed")

Forget == \E S \in SUBSET {r \in Receipt : verdict[r] # "none"} :
            /\ verdict' = [r \in Receipt |-> IF r \in S THEN "deleted"
                                                        ELSE verdict[r]]
            /\ UNCHANGED <<doc, by>>

Change == /\ doc' \in {"before", "partial", "after", "other"}
          /\ by' \in Receipt \cup {Nobody}
          /\ UNCHANGED verdict

Next == /\ Forget \/ Change \/ \E r \in Receipt : Issue(r) \/ Apply(r) \/ Fail(r)
        /\ beside' \in BOOLEAN /\ (beside => beside')

Spec == Init /\ [][Next]_intentVars
===============================================================================

----------------------------- MODULE SerialEdits -----------------------------
(***************************************************************************)
(* What managed documents promise their callers, without locks, threads,   *)
(* temporary files or rollbacks.  A document is the set of the changes in  *)
(* it.  A call changes it in one step and only while every other change in *)
(* it has been answered for; it succeeds only with its change in place, is *)
(* declined only without; it may take its change back as it fails; and     *)
(* once it is answered nobody touches its change again.                    *)
(***************************************************************************)
CONSTANTS Call, Doc,
          Document   \* the document a call changes

VARIABLES text,      \* the changes in a document
          answer     \* what a call was answered, or "none"

editVars == <<text, answer>>

Init == /\ text = [d \in Doc |-> {}]
        /\ answer = [c \in Call |-> "none"]

Changed(c) == c \in text[Document[c]]

\* Every change in the document but the call's own has been answered for.
Alone(c) == \A x \in text[Document[c]] : answer[x] = "none" => x = c

Change(c) == /\ answer[c] = "none" /\ Alone(c) /\ ~Changed(c)
             /\ text' = [text EXCEPT ![Document[c]] = @ \cup {c}]
             /\ UNCHANGED answer

Answers(C, a) == /\ \A c \in C : answer[c] = "none"
                 /\ answer' = [c \in Call |-> IF c \in C THEN a ELSE answer[c]]

Succeed(c) == Changed(c) /\ Answers({c}, "ok") /\ UNCHANGED text

Decline(c) == /\ ~Changed(c) /\ UNCHANGED text
              /\ Answers({c}, "denied") \/ Answers({c}, "refused")

Fail(c) == /\ Answers({c}, "failed")
           /\ \/ UNCHANGED text
              \/ Alone(c) /\ text' = [text EXCEPT ![Document[c]] = @ \ {c}]

\* Calls are stopped as they are, with or without their changes.
Stop(C) == UNCHANGED text /\ (Answers(C, "cancelled") \/ Answers(C, "crashed"))

Next == \/ \E c \in Call : Change(c) \/ Succeed(c) \/ Decline(c) \/ Fail(c)
        \/ \E C \in SUBSET Call : Stop(C)

Spec == Init /\ [][Next]_editVars
==============================================================================

------------------------------ MODULE EntryLedger ------------------------------
(***************************************************************************)
(* What storage promises of entries: an entry and its part of the          *)
(* project's metrics are stored in one step, once for each time the entry  *)
(* is new, and retention removes entries without touching the metrics.     *)
(***************************************************************************)
EXTENDS Naturals

CONSTANT Entry

VARIABLES entries,   \* rows of scribe_entries
          total      \* total_entries of the project's row of scribe_metrics

Init == entries = {} /\ total = 0

Append(e) == /\ e \notin entries
             /\ entries' = entries \cup {e}
             /\ total' = total + 1

Purge(S) == /\ S \subseteq entries
            /\ entries' = entries \ S
            /\ UNCHANGED total

Next == (\E e \in Entry : Append(e)) \/ (\E S \in SUBSET Entry : Purge(S))

Spec == Init /\ [][Next]_<<entries, total>>
=============================================================================

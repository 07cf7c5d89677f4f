--------------------------- MODULE ConnectionSlots ---------------------------
(***************************************************************************)
(* What a connection pool promises its callers: no more than Slots of them *)
(* hold a connection, each of them one, and none begins to hold one after  *)
(* the pool is closed.                                                     *)
(***************************************************************************)
EXTENDS Naturals, FiniteSets

CONSTANTS Caller, Slots

VARIABLES holders,  \* callers that hold a connection or are being given one
          closed

slotVars == <<holders, closed>>

Init == holders = {} /\ closed = FALSE

Lend(t) == /\ ~closed /\ t \notin holders
           /\ Cardinality(holders) < Slots
           /\ holders' = holders \cup {t}
           /\ UNCHANGED closed

Return(t) == /\ t \in holders
             /\ holders' = holders \ {t}
             /\ UNCHANGED closed

Close == closed' = TRUE /\ UNCHANGED holders

Next == Close \/ \E t \in Caller : Lend(t) \/ Return(t)

Spec == Init /\ [][Next]_slotVars
===============================================================================

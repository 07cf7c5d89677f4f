------------------------------ MODULE RotatedLog ------------------------------
(***************************************************************************)
(* What a log with rotation promises: an acknowledged line goes to the     *)
(* current log, a rotation moves the current lines into the archives, and  *)
(* nothing else happens to a line.                                         *)
(***************************************************************************)
CONSTANT Line

VARIABLES current,   \* lines of the log
          archives,  \* lines of the archived logs
          acked      \* lines whose append returned

logVars == <<current, archives, acked>>

Init == current = {} /\ archives = {} /\ acked = {}

Append(l) == /\ l \notin acked
             /\ acked' = acked \cup {l}
             /\ current' = current \cup {l}
             /\ UNCHANGED archives

Rotate == /\ archives' = archives \cup current
          /\ current' = {}
          /\ UNCHANGED acked

Next == Rotate \/ \E l \in Line : Append(l)

Spec == Init /\ [][Next]_logVars
===============================================================================

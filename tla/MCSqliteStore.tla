---------------------------- MODULE MCSqliteStore ----------------------------
EXTENDS SqliteStore, TLC

CONSTANTS p1, p2, t1, t2, u1, e1, e2

\* Two calls at a time in one process, one in the other.
TwoAndOne == t1 :> p1 @@ t2 :> p1 @@ u1 :> p2

=============================================================================

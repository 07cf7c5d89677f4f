---------------------------- MODULE MCLogRotation ----------------------------
(* Instances of LogRotation: one rotator, or two of a process and a third. *)
EXTENDS LogRotation, TLC

CONSTANTS p1, p2, r1, r2, r3, archive

OneAlone == r1 :> p1

TwoAndOne == r1 :> p1 @@ r2 :> p1 @@ r3 :> p2

\* The suffix of rotate_log defaults to None.
SameName == [r \in Rotator |-> archive]
=============================================================================

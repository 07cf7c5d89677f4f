----------------------------- MODULE MCScribeWal -----------------------------
(* Instances of ScribeWal: two threads of one process beside another.      *)
EXTENDS ScribeWal, TLC

CONSTANTS p1, p2, t1, t2, o1, o2, o3

\* Two writing threads of one process beside a process that only replays.
TwoInOne == [t \in Thread |-> p1]

\* Calls run in any order, so the clock may step back; o2 and o3 write the
\* same line in the same microsecond.
SameLine == o1 :> 1 @@ o2 :> 2 @@ o3 :> 2
SameLineDigest == o1 :> "a" @@ o2 :> "b" @@ o3 :> "b"

LikeThreadsAndLines == Permutations(Thread) \cup Permutations({o2, o3})

\* o1 and o2 differ in payload but not in identifier.
Clash == o1 :> 1 @@ o2 :> 1 @@ o3 :> 2
ClashDigest == o1 :> "a" @@ o2 :> "b" @@ o3 :> "c"
=============================================================================

-------------------------- MODULE MCSessionBinding --------------------------
EXTENDS SessionBinding, TLC

CONSTANTS c1, c2, a1, a2   \* connections and agents

\* Two actors on one connection, and one of them on a second connection.
MCCallers == {<<c1, a1>>, <<c1, a2>>, <<c2, a1>>}

\* Calls and projects are interchangeable.
MCSymmetry == Permutations(Calls) \cup Permutations(Projects)
=============================================================================

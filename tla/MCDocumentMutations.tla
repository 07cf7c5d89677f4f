------------------------ MODULE MCDocumentMutations ------------------------
EXTENDS DocumentMutations, TLC

CONSTANTS p1, p2, a, b, m

\* Two calls in one process, one in the other; or all three in one.
TwoAndOne == a :> p1 @@ b :> p1 @@ m :> p2
Together == [c \in {a, b, m} |-> p1]

\* All change document 1; two of them lock document 2 as well.
SameDocument == [c \in {a, b, m} |-> 1]
OneOrBoth == a :> {1} @@ b :> {1, 2} @@ m :> {1, 2}
OneLock == [c \in {a, b, m} |-> {1}]

=============================================================================

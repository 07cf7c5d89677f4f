--------------------------- MODULE MCCaseRegistry ---------------------------
EXTENDS CaseRegistry, TLC

CONSTANTS p1, p2, a, b, l, r, e, f

\* Two calls open a case, one in each process; one links a fix to the first
\* case, one reopens it and one completes its report; the last gives up the
\* case that is opened next.
Homes == a :> p1 @@ b :> p2 @@ l :> p1 @@ r :> p2 @@ e :> p2 @@ f :> p2
Tools == a :> "open" @@ b :> "open" @@ l :> "link" @@ r :> "reopen"
         @@ e :> "edit" @@ f :> "link"
Targets == [c \in Call |-> <<"BUG", IF c = f THEN 2 ELSE 1>>]
Lands == [c \in Call |-> IF c = f THEN "wontfix" ELSE "merged"]
Fronts == [c \in Call |-> IF c = e THEN "complete" ELSE "keep"]
Bugs == [c \in Call |-> "BUG"]
FirstOnly == {<<"BUG", 1>>}
=============================================================================

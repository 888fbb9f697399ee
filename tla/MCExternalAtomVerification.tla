----------------------- MODULE MCExternalAtomVerification -----------------------
EXTENDS ExternalAtomVerification

\* 1 and 2 are the two literals of one variable
TwoOfOneVariable ==
  [a \in {1, 2, 3, 5} |-> [var |-> IF a <= 2 THEN "x" ELSE IF a = 3 THEN "y" ELSE "z",
                           sign |-> a = 2]]

\* The masks overlap.  4 and 6 are no atoms of the program: 6 is the last of its mask, and
\* 4 comes before 5.
TwoMasks == [e \in 1 .. 2 |-> IF e = 1 THEN {1, 3, 6} ELSE {2, 3, 4, 5}]
SomeCorrect == [e \in 1 .. 2 |-> IF e = 1 THEN {{1, 3}, {}} ELSE {{2, 3}, {3, 5}, {5}}]
===============================================================================

--------------------------- MODULE MCLearnedNogoods ---------------------------
EXTENDS LearnedNogoods

\* 1 and 2 are ground; 3 is what 1 generalizes to, and 2 its instance; 4 is a
\* nonground nogood that is learned as it is and has a nonground instance
FourNogoods  == 1..4
TwoNonground == {3, 4}
OwnHash      == [ng \in Nogoods |-> ng]
Generalizes  == [ng \in Nogoods |-> IF ng = 1 THEN {3} ELSE {}]
Instantiates == [ng \in Nonground |-> IF ng = 3 THEN {2} ELSE {3}]
===============================================================================

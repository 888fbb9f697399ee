------------------------ MODULE MCSimpleNogoodContainer ------------------------
EXTENDS SimpleNogoodContainer

\* nogoods 1 and 2 collide, the others have a hash of their own
ThreeNogoods == 1..3
CollidingHash == [ng \in Nogoods |-> IF ng <= 2 THEN 1 ELSE ng]
===============================================================================

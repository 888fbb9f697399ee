------------------------- MODULE MCOnlineModelBuilder -------------------------
EXTENDS OnlineModelBuilder

\* sequences without repetition over 1..n
JoinOrders(n) ==
  {s \in UNION {[1..k -> 1..n] : k \in 0..n} : IsInjective(s)}

\* every graph of four units below the final one, which joins them all
GraphsOfFive ==
  {<<p1, p2, p3, p4, <<1, 2, 3, 4>>>> :
     p1 \in JoinOrders(0), p2 \in JoinOrders(1), p3 \in JoinOrders(2),
     p4 \in JoinOrders(3)}

\* those in which the fourth unit joins the second and the third, in either order
JoinsOfFive == {g \in GraphsOfFive : {2, 3} \subseteq Range(g[4])}

UpToTwoBelow == <<2, 2, 1, 1, 1>>
===============================================================================

----------------------------- MODULE MCCDNLSolver -----------------------------
EXTENDS CDNLSolver

LiteralsOver(n) == 1 .. n \cup -n .. -1
NogoodsOver(n, sizes) == {ng \in SUBSET LiteralsOver(n) : Consistent(ng) /\ Cardinality(ng) \in sizes}
Problem(nogoods, late, restarts) == [nogoods |-> nogoods, facts |-> {}, late |-> late, restarts |-> restarts]

\* sets of nogoods over two atoms, restarted under every set of assumptions
OverTwoAtoms ==
  {Problem(I, {}, 1) : I \in {J \in SUBSET NogoodsOver(2, 1 .. 2) : AtomsOf(J) = 1 .. 2}}

\* a nogood of two and one of three literals, and two nogoods that come later
LateNogoods ==
  {Problem({s, {1, 2, 3}}, {{-1, -2}, {3}}, 0) : s \in NogoodsOver(3, {2})}

\* 3 leads to a conflict at once, whatever was decided about 1 and 2
IndependentConflict == {{3, 4}, {3, -4}, {1, 2, 4}}
\* the four atoms are a coloring of a path
TwoColoring == {{1, 2}, {-1, -2}, {2, 3}, {-2, -3}, {3, 4}, {-3, -4}}
\* a problem without a model, with conflicts over several levels
NoneOfFour == {{1, 2}, {1, -2, 3}, {-1, 3, 4}, {-3, -4}, {-1, 2, -3, 4}, {-1, -2, -3, 4}, {-2, 3, -4}}
\* a fact, a nogood over the three other atoms, and two of two literals
ThreeAndAFact == {{I, {-1, 2}, {1, 2, 3}, {4}} : I \in NogoodsOver(3, {2})}

FourAtoms ==
  {Problem(I, {}, 0) : I \in {IndependentConflict, TwoColoring, NoneOfFour} \cup ThreeAndAFact}

AllProblems == OverTwoAtoms \cup LateNogoods \cup FourAtoms

\* what the theorem about the enumeration assumes of the problems
ASSUME FactsLeaveOpen
===============================================================================

----------------------- MODULE MCInternalGroundASPSolver -----------------------
EXTENDS InternalGroundASPSolver

Rule(head, pos, neg) == [head |-> head, pos |-> pos, neg |-> neg]
Prog(edb, rules, late) ==
  ProgramInstance([atoms |-> 4, edb |-> edb, rules |-> rules, late |-> late])

\* 1 and 2 support each other, and 3 and 4 exclude each other
Loop == <<Rule({1}, {2}, {}), Rule({2}, {1}, {})>>
Disjunction == <<Rule({3, 4}, {}, {})>>
EvenLoop == <<Rule({3}, {}, {4}), Rule({4}, {}, {3})>>

\* what the loop may depend on; one of the rules makes it larger, one is a constraint
External == Rule({1}, {3}, {})
Supports == {Rule({2}, {}, {3}), Rule({1}, {2, 3}, {}), Rule({3}, {1}, {}),
             Rule({2}, {4}, {1}), Rule({}, {1}, {3})}

\* every loop over the disjunction with one of these rules, every loop over the even
\* loop with two, the loop with a disjunctive rule, with a fact, and with nogoods
\* that come later
LoopPrograms ==
  {Prog({}, Loop \o Disjunction \o <<r>>, {}) : r \in Supports \cup {External}} \cup
  {Prog({}, Loop \o EvenLoop \o <<External, r>>, {}) : r \in Supports} \cup
  {Prog({}, Loop \o <<Rule({1, 4}, {}, {}), Rule({3}, {}, {4})>>, {}),
   Prog({4}, Loop \o <<External, Rule({3}, {4}, {2}), Rule({2}, {3, 4}, {})>>, {}),
   Prog({}, Loop \o EvenLoop \o <<External>>, {{2, 3}, {4}})}

\* 1 belongs to the loop and to a disjunctive head, and 4 has another rule
DisjunctiveLoop == {Prog({}, Loop \o Disjunction \o <<Rule({1, 4}, {}, {})>>, {})}

\* what the theorems assume of the programs
ASSUME ProblemsArePrograms
===============================================================================

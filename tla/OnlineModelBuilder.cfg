\* four units below the final one, the fourth joins the second and the third, in
\* every way the units can share predecessors and in every join order
SPECIFICATION Spec
CONSTANTS
  NumUnits = 5
  MaxOut <- UpToTwoBelow
  EvalGraphs <- JoinsOfFive
  RedundancyElimination = TRUE
  ConstantSpace = FALSE
INVARIANTS
  AssertionsHold
  GeneratorsStartOnce
  EnumerationComplete
  RefcountsExact
  InputStaysCurrent
  JoinsConsistent
PROPERTIES
  ImplementsEnumeration

\* 249 problems over two atoms with a restart, 12 over three atoms with nogoods that
\* come late, and 15 over four atoms
SPECIFICATION Spec
CONSTANTS
  Instances <- AllProblems
INVARIANTS
  WatchesExact
  CausesJustify
  LearnedAreImplied
PROPERTIES
  ImplementsEnumeration
  RequestAnswered

\* four atoms over three variables and two outside the program, two external atoms with
\* overlapping masks, of which one is evaluated whenever it can be
SPECIFICATION VerificationSpec
CONSTANTS
  Atoms = {1, 2, 3, 5}
  RegisteredAtoms = {1, 2, 3, 4, 5, 6}
  Variables = {"x", "y", "z"}
  hexToClasp <- TwoOfOneVariable
  ExternalAtoms = {1, 2}
  Mask <- TwoMasks
  Correct <- SomeCorrect
  AlwaysEvaluated = {1}
INVARIANTS
  CopyExact
  VerdictsCurrent
  CompatibilityRight
  EvaluatedOnceComplete

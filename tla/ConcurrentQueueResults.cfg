\* dlv: every output of up to three lines, successful and failing processes;
\* clingo: up to three models, or a failure
SPECIFICATION ResultsSpec
CONSTANTS
  MaxLines = 3
INVARIANTS
  InOrderWithoutGaps
  EndIsComplete
  FailureIsReported
PROPERTIES
  RequestAnswered
  DestructorReturns
  ImplementsEnumeration
\* a destroyed results object takes no step
CHECK_DEADLOCK FALSE

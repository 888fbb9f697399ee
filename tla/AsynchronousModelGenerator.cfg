\* a cache of two models in front of generators of zero to four models
SPECIFICATION Spec
CONSTANTS
  MaxModels = 2
  MaxGenerated = 4
INVARIANTS
  InOrderExactlyOnce
  NullMeansAllReturned
  BothAsleepOnlyInDestructor
PROPERTIES
  CallReturns
  ImplementsEnumeration
\* the destructor ends the protocol, and may block for ever
CHECK_DEADLOCK FALSE

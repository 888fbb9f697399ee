\* 14 programs over four atoms with a loop and choices, facts, constraints and nogoods
\* that come late
SPECIFICATION ASPSpec
CONSTANTS
  Instances <- LoopPrograms
INVARIANTS
  LearnedKeepAnswerSets
  SourcesWellFounded
PROPERTIES
  ImplementsAnswerSets
  RequestAnswered

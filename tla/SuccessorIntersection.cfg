\* all sets of up to four successors of three models
SPECIFICATION Spec
CONSTANTS
  Predecessors = 3
  MaxModel = 4
INVARIANTS
  FirstIntersectedElement
PROPERTIES
  WalkEnds

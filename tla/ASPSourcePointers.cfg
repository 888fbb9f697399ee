\* a disjunctive rule with an atom that belongs to a loop
SPECIFICATION ASPSpec
CONSTANTS
  Instances <- DisjunctiveLoop
INVARIANTS
  UnsourcedAreUnfounded

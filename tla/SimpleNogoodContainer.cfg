\* all operations; forgetting below a half instead of 5% keeps the counts small
SPECIFICATION Spec
CONSTANTS
  Nogoods <- ThreeNogoods
  HashOf <- CollidingHash
  ForgetFactor = 2
  MaxAdded = 3
  MaxCounts = 5
  Operations = {"addNogood", "removeNogood", "forgetLeastFrequentlyAdded", "clear"}
INVARIANTS
  IndexPointsToUsedSlots
  NothingIsLost
PROPERTIES
  SlotsStayExact

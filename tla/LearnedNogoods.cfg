\* every order of learning and updating, both ways to end an update; forgetting below a half instead of 5%
SPECIFICATION LearningSpec
CONSTANTS
  Nogoods <- FourNogoods
  Nonground <- TwoNonground
  HashOf <- OwnHash
  General <- Generalizes
  Instances <- Instantiates
  ForgetFactor = 2
  MaxLearned = 3
  MaxLearnedCounts = 5
PROPERTIES
  LearnedReachesSolver
  ClearedReachesCheckers
\* learning and updating stop at the bounds
CHECK_DEADLOCK FALSE

\* The least rewrite budget: every run comes to an end.
SPECIFICATION FairSpec
CONSTANTS
  Configs <- LoopsWorkflow
  MaxRewrites = 1
  MaxSteps = 12
  Texts = {1, 2, 3, 4, 5, 6, 7, 8, 9, 10, 11}
PROPERTY RunSettles
\* A chapter that is done stops.
CHECK_DEADLOCK FALSE

\* A text the Editor sent back is published without a correction.
SPECIFICATION Spec
CONSTANTS
  Configs <- FullWorkflow
  MaxRewrites = 1
  MaxSteps = 12
  Texts = {1, 2, 3, 4, 5, 6, 7, 8, 9, 10, 11}
PROPERTY RejectedNotPublished
\* A chapter that is done stops.
CHECK_DEADLOCK FALSE

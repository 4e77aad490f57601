\* One chapter under five workflows: failures, crashes, pauses, edits, resumes.
SPECIFICATION Spec
CONSTANTS
  Configs <- Workflows
  MaxRewrites = 2
  MaxSteps = 15
  Texts = {1, 2, 3, 4, 5, 6, 7, 8, 9, 10, 11}
INVARIANT TypeOK
INVARIANT ConvergesWithinLimit
INVARIANT NeverStepsBack
PROPERTY PublishedTextPassed
PROPERTY NewestTextPublished
PROPERTY ResumedDraftReviewed
\* A chapter that is done stops.
CHECK_DEADLOCK FALSE

SPECIFICATION FairSpec
CONSTANTS
  MaxFrames = 4
  Capacity = 2
INVARIANTS AnsweredExactly AnswersMatch BlockedOnlyLate
PROPERTIES CallsReturn
CHECK_DEADLOCK FALSE

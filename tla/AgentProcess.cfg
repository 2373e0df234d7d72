SPECIFICATION FairProcessSpec
CONSTANTS
  Word = 2
  MaxCount = 2
  MaxFrames = 2
  Capacity = 1
  GroupMax = 2
INVARIANTS HandledIsReplayed AnsweredInOrder
PROPERTIES ProcessEnds
CHECK_DEADLOCK FALSE

SPECIFICATION FairSpec
CONSTANTS
  Word = 3
  MaxCount = 1
  MaxFrames = 2
PROPERTIES CutIsFinal
CHECK_DEADLOCK FALSE

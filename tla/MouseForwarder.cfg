SPECIFICATION FairSpec
CONSTANTS
  Limit = 1
  Step = 1
  MaxSamples = 3
INVARIANTS MotionConserved OneAfterStop
PROPERTIES MotionLeaves StopEndsThreads
CHECK_DEADLOCK FALSE

SPECIFICATION FairSpec
CONSTANTS
  Producers = {p1, p2}
  MaxCalls = 3
  Capacity = 2
  GroupMax = 2
INVARIANT Conserved
PROPERTIES ImplementsQueue AcceptedIsReplayed CallsReturn
CHECK_DEADLOCK FALSE

SPECIFICATION Spec
CONSTANTS
  Hosts = {h1, h2}
  NoHost = NoHost
  QueueCap = 2
  MaxExits = 1
  Requests = {"Connect", "Disconnect", "Exit"}
SYMMETRY Symmetry
INVARIANTS
  OwnsHost
  BelievesTruth

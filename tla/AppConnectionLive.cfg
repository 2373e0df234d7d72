SPECIFICATION FairSpec
CONSTANTS
  Hosts = {h1}
  NoHost = NoHost
  QueueCap = 2
  MaxExits = 2
  Requests = {"Connect", "Disconnect", "Exit", "Other"}
INVARIANT
  CloseInOrder
PROPERTIES
  ConnectSettles
  DisconnectSettles
  ExitCompletes

SPECIFICATION FairSpec
CONSTANTS
  PipeClients = {c1}
  Foreigners = {f1}
  Nonces = {n1, n2}
  NoNonce = NoNonce
  NoClient = NoClient
  MaxRetries = 3
  MaxBuffered = 1
INVARIANTS
  FailClosed
  NoFalseSession
  NoAnswerBeforeAdmission
PROPERTIES
  ImplementsSession
  AlwaysListensAgain
  ConnectReturns

CONSTANTS
  c1 = c1
  c2 = c2
  c3 = c3
  small = small
  big = big
  n1 = n1
  x1 = x1
  x2 = x2
  None = None
  Clients <- MCClients
  Payloads <- MCPayloads
  TooLarge <- MCTooLarge
  Contexts <- MCContexts
  ContextOf <- MCContextOf
  Nonces <- MCNonces
  MaxGeneration = 3
  MaxLosses = 1
SPECIFICATION FairSpec
INVARIANTS Recoverable
PROPERTIES FailsClosed ImplementsRegister LockReleased

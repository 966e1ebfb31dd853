SPECIFICATION Spec
CONSTANTS
  c1 = c1
  c2 = c2
  h1 = h1
  h2 = h2
  Order <- OneService
  Clients = {c1, c2}
  Checks = {h1, h2}
  Threads = 1
  MaxCalls = 2
  Connect = 1
  Read = 2
  CheckTimeout = 1
  Retries = 1
PROPERTIES
  EveryRequestEnds
  Listens
  Recovers

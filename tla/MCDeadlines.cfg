SPECIFICATION DSpec
CONSTANTS
  c1 = c1
  h1 = h1
  Order <- BothServices
  Clients = {c1}
  Checks = {h1}
  Threads = 1
  MaxCalls = 2
  Connect = 1
  Read = 2
  CheckTimeout = 1
  Retries = 2
INVARIANTS
  TypeOK
  HoldTime
  FailureHasCause
  WaitIsBounded
  StartIsBounded
  CheckIsBounded
PROPERTIES
  HeldUpByOwnOutage
  FailureIsRecent

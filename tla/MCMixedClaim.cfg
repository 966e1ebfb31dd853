SPECIFICATION Spec
CONSTANTS
  null = null
  Offset = 3
  NonIds <- MCNonIds
  Native <- MCNative
  Requests <- MixedRequests
  MaxJobs = 1
INVARIANT
  OnlyNamed

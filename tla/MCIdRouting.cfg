\* Requests whose IDs all belong to one instance: one server, as far as Seerr sees.
SPECIFICATION Spec
CONSTANTS
  null = null
  Offset = 3
  NonIds <- MCNonIds
  Native <- MCNative
  Requests <- SoundRequests
  MaxJobs = 1
INVARIANTS
  TypeOK
  AskedOnce
PROPERTY
  ImplementsOneServer

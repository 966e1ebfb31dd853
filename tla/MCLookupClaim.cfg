SPECIFICATION Spec
CONSTANTS
  e1 = e1
  e2 = e2
  noext = noext
  null = null
  Offset = 5
  NonIds = {null}
  Externals = {e1, e2}
  NoExternal = noext
  Ids = {1, 4}
  Refs = {4}
  MaxChanges = 0
SYMMETRY Symmetric
INVARIANT
  UnseenIsNotAbsent

SPECIFICATION Spec
CONSTANTS
  r1 = r1
  r2 = r2
  null = null
  p1 = p1
  p2 = p2
  none = none
  l1 = l1
  l2 = l2
  Offset = 10
  NonIds = {null}
  NoPath = none
  Labels = {l1}
  Paths = {p1, p2}
  Keyword = {p1}
  Requests = {r1, r2}
  Payloads <- RoutingPayloads
  InitialFolders <- SomeFolders
  InitialTags <- NoTags
  MaxId = 2
  MaxUiChanges = 1
SYMMETRY Symmetric
INVARIANTS
  OwnershipSound
  OwnedPathRouted
  IdsKeepTheirMeaning
  UpdateHitsItsTitle

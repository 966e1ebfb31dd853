SPECIFICATION Spec
CONSTANTS
  InitEnvs <- ByHandOrImage
  Choices <- AllChoices
  MaxEdits = 2
INVARIANTS
  TypeOK
  UsableSettings
  NothingHalfConfigured
  StoredStaysTrue

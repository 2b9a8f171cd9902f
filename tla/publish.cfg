CONSTANTS
  Payload <- MCPayload
  Metadata <- MCMetadata
  Alias <- MCAlias
  Pointer <- MCPointer
  Content <- MCContent
  None <- MCNone
  DistOf <- MCDistOf
  ViewOf <- MCViewOf
  Order <- MCOrder
  Closure <- MCClosure
  Catalogue <- MCCatalogue
  Provider = "filesystem"
  InitialTTL = 0
  Rebinds <- MCNoRebind
  GraceFloor = 1
  GracePadding = 1
  MaxGeneration = 3
  MaxTime = 0
SPECIFICATION Spec
INVARIANTS
  PublicationSafe
  ResumeAdmitted
  RollForwardPossible
CHECK_DEADLOCK FALSE

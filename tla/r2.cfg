CONSTANTS
  Payload <- MCPayload
  Metadata <- MCMetadata
  Alias <- MCAlias
  Pointer <- MCPointer
  Content <- MCContent
  None <- MCNone
  DistOf <- MCDistOf
  ViewOf <- MCViewOf
  Order <- MCOrder
  Closure <- MCClosure
  Catalogue <- MCCatalogue
  Provider = "r2"
  InitialTTL = 0
  Rebinds <- Never
  GraceFloor = 1
  GracePadding = 0
  MaxGeneration = 3
  MaxTime = 2
SPECIFICATION Spec
INVARIANTS
  LiveInventoryExact
CHECK_DEADLOCK FALSE

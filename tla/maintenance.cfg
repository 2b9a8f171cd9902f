CONSTANTS
  Payload <- MCPayload
  Metadata <- MCMetadata
  Alias <- MCAlias
  Pointer <- MCPointer
  Content <- MCContent
  None <- MCNone
  DistOf <- MCDistOf
  ViewOf <- MCViewOf
  Order <- MCOrder
  Closure <- MCClosure
  Catalogue <- MCCatalogue
  Provider = "filesystem"
  InitialTTL = 0
  Rebinds <- Raise
  GraceFloor = 1
  GracePadding = 0
  MaxGeneration = 4
  MaxTime = 2
SPECIFICATION Spec
INVARIANTS
  CandidatesUnserved
  NothingUntracked
PROPERTIES
  ReaderContractKept
  GraceHonoured
CHECK_DEADLOCK FALSE

CONSTANTS
  Payload = {}
  Metadata = {"by-hash"}
  Alias = {}
  Pointer = {"Release"}
  Content <- MCContent
  None = None
  DistOf <- MCDistOf
  ViewOf <- MCViewOf
  Order <- MCOrder
  Closure <- MCClosure
  Catalogue <- MCCatalogue
  WithIndex = {v1}
  WithoutIndex = {w1, w2}
  Bytes = bytes
  Provider = "filesystem"
  InitialTTL = 0
  Rebinds <- Never
  GraceFloor = 1
  GracePadding = 0
  MaxGeneration = 3
  MaxTime = 2
SPECIFICATION FairSpec
PROPERTIES
  AttemptEnds
  GraceEnds
CHECK_DEADLOCK FALSE

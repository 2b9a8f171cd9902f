CONSTANTS
  Dist = {"el", "noble"}
  Package = {"a"}
  Signed = {"el"}
  MaxOps = 2
SPECIFICATION FairSpec
INVARIANTS
  DistSafe
  BuiltTreesKept
  DecidedRecoverable
PROPERTIES
  ContractKept
  DistEnds

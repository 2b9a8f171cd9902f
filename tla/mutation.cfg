CONSTANTS
  Dist = {"el", "noble"}
  Package = {1, 2}
  Editable = {"el"}
  MaxOps = 2
SPECIFICATION Spec
INVARIANTS
  MutationSafe
  RecoveryAdmitted
  ReportsHonest
PROPERTIES
  ContractKept
  PreviewExact

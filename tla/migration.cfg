SPECIFICATION FairSpec
CONSTANTS
  View = {"v1", "v2"}
  Alias = {"a1", "a2"}
  Grace = 2
  LongGrace = 3
  None = None
  MaxTime = 2
  MaxStops = 3
  MaxAborts = 2
INVARIANTS
  MigrationSafe
PROPERTIES
  ContractKept
  MigrationEnds

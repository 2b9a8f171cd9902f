SPECIFICATION FairSpec
CONSTANTS
  RPM = {"r1", "r2"}
  DEB = {"d1"}
  Dropped = {"r2"}
  Kind = {"primary", "other"}
  None = None
  MaxEdits = 2
  MaxStops = 1
INVARIANTS
  PlainSafe
PROPERTIES
  PrunedUnindexed
  Converges

CONSTANTS
  Payload = {"a", "b"}
  MaxGen = 3
  MaxStops = 1
  MaxKept = 1
SPECIFICATION FairSpec
INVARIANTS
  GCSafe
  Replayable
PROPERTIES
  Collected

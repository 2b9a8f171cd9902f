CONSTANTS
  Dist = {"el", "noble"}
  Package = {1}
  Editable = {"el"}
  MaxOps = 1
SPECIFICATION FairStatusSpec
PROPERTIES
  StatusTrue
  AppliedEnds

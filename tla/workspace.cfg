CONSTANTS
  Proc = {p1, p2}
  Repo = {"yum"}
  LateName = {"yum"}
  None = None
  MaxOps = 3
SPECIFICATION FairSpec
INVARIANTS
  WorkspaceSafe
  WorkersExclusive
PROPERTIES
  ClearedMeansDone
  JournalEnds

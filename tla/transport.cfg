CONSTANTS
  Key = {1, 2, 3, 4, 5}
  Present = {2, 3, 4, 5}
  Updates = {5}
  Large = {1}
  Watched = {5}
  Workers = 2
  PageSize = 3
  Attempts = 2
  MaxCacheTTL = 2
  Window = 1
  MaxBackoff = 2
  MaxFaults = 1
  MaxStops = 1
  MaxForeign = 1
SPECIFICATION FairSpec
INVARIANTS
  TransportSafe
PROPERTIES
  NeverClobbers
  InventoryExact
  StaleRefused
  Converges

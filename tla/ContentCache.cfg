SPECIFICATION CacheSpec
CONSTANTS
  ListedAt <- MCListedAt
  Chunks <- MCChunks
  Radius = 1
  MaxInFlight = 2
  Budget = 5
  DiskBudget = 6
  ContentMenus <- MCContentMenus
CHECK_DEADLOCK FALSE
INVARIANTS SlotsExact QuietIsComplete

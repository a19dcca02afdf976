SPECIFICATION FairSpec
CONSTANTS
  N = 2
  Daemon = 0
  Keys = {1, 2}
  Key <- OwnKeys
  Homes = {1}
  Inventories <- SomeInventories
  MaxEdits = 1
  MaxCuts = 2
  MaxStops = 1
  MaxRemovals = 2
INVARIANTS TypeOK ActiveIsInstalled AppliedProtects RemovedLeavesNothing
PROPERTY TargetsConverge

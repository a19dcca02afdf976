SPECIFICATION Spec
CONSTANTS
  N = 2
  Daemon = 0
  Keys = {1, 2}
  Key <- OwnKeys
  Homes = {1, 2}
  Inventories <- SomeInventories
  MaxEdits = 1
  MaxCuts = 0
  MaxStops = 0
  MaxRemovals = 0
INVARIANT ConfFollowsInventory

SPECIFICATION FairSpec
CONSTANTS
  N = 3
  RoleCount = 3
  Assigned <- MixedRoles
  OnlyRoles <- AllRoles
  MaxConcurrency = 2
  Commands = {"plan", "apply", "uninstall"}
  Flaky = {1, 2, 3}
  Hung = {1}
INVARIANTS TypeOK Bounded CleanExit TriesAll
PROPERTIES KeepsPromise Finishes
CHECK_DEADLOCK FALSE

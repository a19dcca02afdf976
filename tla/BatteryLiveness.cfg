CONSTANTS
  Names = {"nas", "gw"}
  Nodes <- TwoNodes
  Keys = {"nas", "gw"}
  Key <- OneKeyEach
  Threshold <- Staged
  Delayed = {"gw"}
  Procs = {"live", "test"}
  Live = "live"
  LogFile = TRUE
  Forms = {"integer"}
  MaxCharge = 1
  MaxOutages = 1
  MaxRestarts = 1
SPECIFICATION FairSpec
PROPERTIES
  DueIsFired
  MainsClearsLocks

CONSTANTS
  Names = {"nas", "gw"}
  Nodes <- TwoNodes
  Keys = {"nas", "gw"}
  Key <- OneKeyEach
  Threshold <- Staged
  Delayed = {"gw"}
  Procs = {"live", "test"}
  Live = "live"
  LogFile = TRUE
  Forms = {"integer"}
  MaxCharge = 2
  MaxOutages = 2
  MaxRestarts = 0
SPECIFICATION Spec
INVARIANT
  CrossedAreFired

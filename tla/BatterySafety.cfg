CONSTANTS
  Names = {"nas", "pve", "gw"}
  Nodes <- ThreeNodes
  Keys = {"nas", "pve", "gw"}
  Key <- OneKeyEach
  Threshold <- Staged
  Delayed = {"gw"}
  Procs = {"live"}
  Live = "live"
  LogFile = TRUE
  Forms = {"integer"}
  MaxCharge = 2
  MaxOutages = 2
  MaxRestarts = 1
SPECIFICATION Spec
INVARIANTS
  TypeOK
  AtMostOncePerBoot
  StagedOrder
  LockedMeansFired
  FiredOnlyBelowThreshold
PROPERTY
  KeepsPromise

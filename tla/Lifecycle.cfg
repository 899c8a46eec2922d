SPECIFICATION Spec
CONSTANTS
  CRs = {"ns/a"}
  Names = {"n"}
  Bodies = {"b1", "b2"}
  HeaderLists = {"none", "cache-control: no-cache"}
  Secrets = {}
  Texts = {"", "note"}
  Specs <- BodySpecs
  Owner = "me"
  Foreign = "other"
  Policy = "sync"
  SecretWatch = TRUE
  HashDesired <- InjectiveHash
  InitialStores <- NoMonitors
  NewestFirst = TRUE
  Outside = {"remove"}
  RetrySteps = 2
  MaxEdits = 2
  MaxFaults = 1
  MaxCrashes = 1
INVARIANTS TypeOK UniqueOwned NoOrphan FinalizerInv
PROPERTIES FinalizerBeforeMonitor DeletesOnlyDoomed KeepsContract
CHECK_DEADLOCK FALSE

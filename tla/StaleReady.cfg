SPECIFICATION Spec
CONSTANTS
  CRs = {"ns/a"}
  Names = {"n"}
  Bodies = {"b1", "b2"}
  HeaderLists = {"none", "cache-control: no-cache"}
  Secrets = {}
  Texts = {"", "note"}
  Specs <- BodySpecs
  Owner = "me"
  Foreign = "other"
  Policy = "sync"
  SecretWatch = TRUE
  HashDesired <- InjectiveHash
  InitialStores <- NoMonitors
  NewestFirst = TRUE
  Outside = {}
  RetrySteps = 2
  MaxEdits = 1
  MaxFaults = 0
  MaxCrashes = 0
INVARIANTS ReadyMeansApplied
CHECK_DEADLOCK FALSE

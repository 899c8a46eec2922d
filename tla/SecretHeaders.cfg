SPECIFICATION FairSpec
CONSTANTS
  CRs = {"ns/a"}
  Names = {"n"}
  Bodies = {"b1"}
  HeaderLists = {"none", "cache-control: no-cache"}
  Secrets = {"s"}
  Texts = {"", "note"}
  Specs <- HeaderSpecs
  Owner = "me"
  Foreign = "other"
  Policy = "sync"
  SecretWatch = TRUE
  HashDesired <- InjectiveHash
  InitialStores <- NoMonitors
  NewestFirst = TRUE
  Outside = {"headers"}
  RetrySteps = 2
  MaxEdits = 2
  MaxFaults = 0
  MaxCrashes = 0
PROPERTIES Settles ComesToRest
CHECK_DEADLOCK FALSE

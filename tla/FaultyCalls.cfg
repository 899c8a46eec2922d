SPECIFICATION FairSpec
CONSTANTS
  CRs = {"ns/a"}
  Names = {"n"}
  Bodies = {"b1", "b2"}
  HeaderLists = {"none", "cache-control: no-cache"}
  Secrets = {"s"}
  Texts = {"", "note"}
  Specs <- FaultSpecs
  Owner = "me"
  Foreign = "other"
  Policy = "sync"
  SecretWatch = FALSE
  HashDesired <- InjectiveHash
  InitialStores <- NoMonitors
  NewestFirst = TRUE
  Outside = {"body", "remove"}
  RetrySteps = 2
  MaxEdits = 1
  MaxFaults = 1
  MaxCrashes = 1
PROPERTIES Settles DeletionCompletes
CHECK_DEADLOCK FALSE

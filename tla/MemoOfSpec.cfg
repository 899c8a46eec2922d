SPECIFICATION FairSpec
CONSTANTS
  CRs = {"ns/a"}
  Names = {"n"}
  Bodies = {"b1", "b2"}
  HeaderLists = {"none", "cache-control: no-cache"}
  Secrets = {}
  Texts = {"", "note"}
  Specs <- MemoSpecs
  Owner = "me"
  Foreign = "other"
  Policy = "sync"
  SecretWatch = TRUE
  HashDesired <- InjectiveHash
  InitialStores <- NoMonitors
  NewestFirst = TRUE
  Outside = {}
  RetrySteps = 2
  MaxEdits = 1
  MaxFaults = 0
  MaxCrashes = 0
PROPERTIES MemoFollowsSpec
CHECK_DEADLOCK FALSE

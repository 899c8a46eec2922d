SPECIFICATION Spec
CONSTANTS
  CRs = {"ns/a", "ns/b"}
  Names = {"n"}
  Bodies = {"b1"}
  HeaderLists = {"none", "cache-control: no-cache"}
  Secrets = {}
  Texts = {""}
  Specs <- SameSpec
  Owner = "me"
  Foreign = "other"
  Policy = "sync"
  SecretWatch = TRUE
  HashDesired <- InjectiveHash
  InitialStores <- AnyOne
  NewestFirst = TRUE
  Outside = {"remove", "foreign"}
  RetrySteps = 2
  MaxEdits = 1
  MaxFaults = 1
  MaxCrashes = 0
INVARIANTS OwnershipInv ReleaseInv RecordedMonitorIsOwned
PROPERTIES LeavesOthersAlone KeepsContract
CHECK_DEADLOCK FALSE

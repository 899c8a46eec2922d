SPECIFICATION FairSpec
CONSTANTS
  CRs = {"ns/a"}
  Names = {"n", "m"}
  Bodies = {"b1", "b2"}
  HeaderLists = {"none", "cache-control: no-cache"}
  Secrets = {}
  Texts = {"", "note"}
  Specs <- BodySpecs
  Owner = "me"
  Foreign = "other"
  Policy = "upsert-only"
  SecretWatch = TRUE
  HashDesired <- CollidingHash
  InitialStores <- AnyOneOrTwo
  NewestFirst = TRUE
  Outside = {"body", "rename", "headers", "memo", "strip", "remove", "add", "foreign", "adopt"}
  RetrySteps = 2
  MaxEdits = 2
  MaxFaults = 0
  MaxCrashes = 0
PROPERTIES Settles DeletesOnlyDoomed OnlyAmbiguityBlocksDeletion
CHECK_DEADLOCK FALSE

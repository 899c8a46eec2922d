SPECIFICATION Spec
CONSTANTS
  MaxInt = 1000
  DefaultHeaders <- CacheControl
  Flags <- OnlyMe
  FirstSpecs <- OnlyLimit
  FirstWires = {{}}
  SpecEdits <- NoEdits
  WireEdits <- LimitEdits
  Pieces = {}
  TokenSize <- SmallSizes
  SpecLimit = 4
  MemoLimit = 6
  MaxEdits = 1
INVARIANTS UIChangesAreReverted
CHECK_DEADLOCK FALSE

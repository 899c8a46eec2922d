SPECIFICATION Spec
CONSTANTS
  MaxInt = 1000
  DefaultHeaders <- CacheControl
  Flags <- FlagSets
  FirstSpecs <- Specs
  FirstWires <- Wires
  SpecEdits <- UserEdits
  WireEdits <- UIEdits
  Pieces <- MemoPieces
  TokenSize <- SmallSizes
  SpecLimit = 4
  MemoLimit = 6
  MaxEdits = 2
INVARIANTS SyncTypeOK WriteSettles NoBlindSpot
PROPERTIES AdoptsOnlyEqual ReorderingIsQuiet MemoKept OwnedIsDeleted
CHECK_DEADLOCK FALSE

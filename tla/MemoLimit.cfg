SPECIFICATION Spec
CONSTANTS
  MaxInt = 1000
  DefaultHeaders <- CacheControl
  Flags <- OnlyMe
  FirstSpecs <- Specs
  FirstWires = {{}}
  SpecEdits <- MemoOnly
  WireEdits <- NoEdits
  Pieces = {}
  TokenSize <- RealSizes
  SpecLimit = 1900
  MemoLimit = 2048
  MaxEdits = 1
INVARIANTS MemoFits
CHECK_DEADLOCK FALSE

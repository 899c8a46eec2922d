SPECIFICATION Spec
CONSTANTS
  CRs = {"ns/a"}
  Secrets = {"s1", "s2"}
  Keys = {"k1", "k2"}
  Specs <- Lists
  MaxEdits = 3
  MaxFaults = 1
INVARIANTS HeadersTypeOK ResolvedSoFar OneVersionPerSecret NoPartialHeaders
PROPERTIES RotationArrives
CHECK_DEADLOCK FALSE

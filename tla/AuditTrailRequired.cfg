SPECIFICATION Spec
CONSTANTS
  p1 = p1
  p2 = p2
  none = none
  Procs = {p1, p2}
  NoProc = none
  Founder = p1
  Modes = {TRUE}
  Faults = {"read", "write", "torn", "sync", "hwm"}
  CanCrash = TRUE
  CanLosePower = TRUE
  Established = TRUE
  MaxRows = 3
INVARIANTS
  TypeOK
  SidecarNotAheadOfStorage
  AckedSurvives
  RunRowsInSequence
  TrailVerifies

SPECIFICATION Spec
CONSTANTS
  p1 = p1
  p2 = p2
  none = none
  Procs = {p1, p2}
  NoProc = none
  Founder = p1
  Modes = {TRUE}
  Faults = {}
  CanCrash = TRUE
  CanLosePower = FALSE
  Established = FALSE
  MaxRows = 2
INVARIANTS
  QuietTrailVerifies

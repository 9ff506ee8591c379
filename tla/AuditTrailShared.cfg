SPECIFICATION FairSpec
CONSTANTS
  p1 = p1
  p2 = p2
  none = none
  Procs = {p1, p2}
  NoProc = none
  Founder = p1
  Modes = {TRUE, FALSE}
  Faults = {"torn", "hwm", "unterminated"}
  CanCrash = TRUE
  CanLosePower = FALSE
  Established = TRUE
  MaxRows = 3
INVARIANTS
  ChainIntact
PROPERTIES
  RecordReturns

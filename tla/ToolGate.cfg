SPECIFICATION FairSpec
CONSTANTS
  a = a
  b = b
  Tools = {a, b}
  MayPin = {a}
  Observing = FALSE
  Defs = {"approved", "changed"}
  Cursors = {"c"}
  MaxLines = 3
  MaxChanges = 1
  MaxWire = 1
INVARIANTS
  TypeOK
  ApprovedWhenDispatched
  RowsAgree
PROPERTIES
  ShownCanBeCalled
  NoticesLand
CHECK_DEADLOCK FALSE

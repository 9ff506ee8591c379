SPECIFICATION Spec
CONSTANTS
  r1 = r1
  r2 = r2
  r3 = r3
  Reqs = {r1, r2, r3}
  Modes <- OnlyNameless
  SinkMayFail = FALSE
  MaxSeq = 3
INVARIANTS
  DecisionsReachTrail
CHECK_DEADLOCK FALSE

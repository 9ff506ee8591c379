SPECIFICATION Spec
CONSTANTS
  r1 = r1
  r2 = r2
  r3 = r3
  Reqs = {r1, r2, r3}
  Modes <- AllSessions
  SinkMayFail = TRUE
  MaxSeq = 3
INVARIANTS
  ResultsAreAudited
  DecisionsReachTrail
PROPERTIES
  NothingRetained
  ImplementsLog
CHECK_DEADLOCK FALSE

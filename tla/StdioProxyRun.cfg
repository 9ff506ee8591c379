SPECIFICATION FairSpec
CONSTANTS
  Ids = {1, 2}
  MaxSeq = 2
  MaxAnswers = 2
  EndsBusy = FALSE
  SinkMayFail = TRUE
INVARIANTS
  ForwardedIsDispatched
  RunNotBroken
  ClosedRunComplete
  NoUnauditedAnswer
PROPERTIES
  ShutdownEnds
CHECK_DEADLOCK FALSE

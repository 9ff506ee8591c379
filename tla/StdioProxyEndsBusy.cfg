SPECIFICATION Spec
CONSTANTS
  Ids = {1}
  MaxSeq = 1
  MaxAnswers = 1
  EndsBusy = TRUE
  SinkMayFail = FALSE
INVARIANTS
  RunNotBroken
CHECK_DEADLOCK FALSE

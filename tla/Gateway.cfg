SPECIFICATION SpecBoth
CONSTANTS
  Reqs = {1, 2, 3}
  Gates = {1, 2, 3}
  MayFail = TRUE
  Limit = 2
  AuthLimit = 2
  TTL = 2
  Unhosted = 2
  LF = LF
  CR = CR
  Result = Result
  Error = Error
  Comment = Comment
  BodyLimit = 6
  MaxLength = 7
INVARIANTS
  NothingOffRecord
  ToldSessionsAreReady
  NothingLeftBehind
  CutsDoNotMatter
PROPERTIES
  RefusalsJustified
CHECK_DEADLOCK FALSE

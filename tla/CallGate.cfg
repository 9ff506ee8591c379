SPECIFICATION SpecBoth
CONSTANTS
  s1 = s1
  s2 = s2
  read = read
  write = write
  drop = drop
  list = list
  none = none
  Sessions = {s1, s2}
  Tools = {read, write, drop}
  Methods = {list}
  NoName = none
  Policies <- AllPolicies
  Stored = {3100, 7900}
  Buffer = 1
  MaxCalls = 3
  MaxTime = 2
  PoolConfigs <- PoolFiles
  PoolSessions = {session}
  Roots = {root}
  NoId = nobody
  NoLabel = nobody
  MaxSteps = 7
INVARIANTS
  ForwardedIsCleared
  StopPostsAll
PROPERTIES
  BudgetsKept
CHECK_DEADLOCK FALSE

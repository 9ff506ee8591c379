SPECIFICATION SpecReadSide
SYMMETRY ReadersAlike
CONSTANTS
  s1 = s1
  c1 = c1
  c2 = c2
  a1 = a1
  none = none
  Sessions = {s1}
  NoSession = none
  Readers = {c1, c2}
  NoReader = none
  Scenes <- WallScenes
  Reverify = 1
  Forced = 2
  MaxBadges = 1
  MaxRows = 2
  MaxFence = 2
  MaxCalls = 2
  MaxTime = 2
  BuildTime = 0
  NoAction = none
  Actions = {a1}
  MaxStream = 6
  Now = 3
  Times = {2, 5}
INVARIANTS
  VerdictsAreTrue
  ViewsKeepUp
  ProofComplete
  LimitedMeansComplete
PROPERTIES
  BrokenForGood
CHECK_DEADLOCK FALSE

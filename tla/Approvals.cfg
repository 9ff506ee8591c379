SPECIFICATION SpecOfEither
CONSTANTS
  a1 = a1
  a2 = a2
  c1 = c1
  c2 = c2
  c3 = c3
  none = none
  g1 = g1
  g2 = g2
  Asks = {a1, a2}
  Conns = {c1, c2, c3}
  NoAsk = none
  Pollers = {g1, g2}
  MaxTaps = 2
INVARIANTS
  ToldIsHonored
  OnePoller
  RejectedTapsReported
PROPERTIES
  AskReturns
  AnswerDecides
  EitherImplementsGate
CHECK_DEADLOCK FALSE

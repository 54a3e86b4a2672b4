SPECIFICATION Spec
CONSTANTS
  w = w
  c = c
  p1 = p1
  p2 = p2
  None = None
  Ids = {p1, p2}
  Worker = w
  Callers = {c}
  Batches <- OldAndNew
  Nanos = {1, 2}
  RetryLimit = 2
  ArmedCounts = {1, 2}
  Periods = {0, 2}
  Budget <- TwoFlushes
CHECK_DEADLOCK FALSE
INVARIANT ExactlyArmed
INVARIANT PeriodExact
INVARIANT CounterShowsData
INVARIANT PeaksHold
INVARIANT Accounted
PROPERTY NeverRegresses

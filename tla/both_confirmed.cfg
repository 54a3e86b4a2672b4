SPECIFICATION Spec
CONSTANTS
  p1 = p1
  p2 = p2
  None = None
  Ids = {p1}
  Plain <- NoWrites
  Durable <- LargesA
  FlushMaxBatch = 1
  BufCapacity = 18
  Cuts = {1}
  U32 = 30
  Fsync = TRUE
  Inodes = {1, 2, 3, 4}
  Budget <- FailTwice
CHECK_DEADLOCK FALSE
INVARIANT TwiceConfirmedKept

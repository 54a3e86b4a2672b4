SPECIFICATION Spec
CONSTANTS
  p1 = p1
  p2 = p2
  None = None
  Ids = {p1, p2}
  Plain <- SmallA
  Durable <- LargeB
  FlushMaxBatch = 1
  BufCapacity = 18
  Cuts = {1}
  U32 = 30
  Fsync = TRUE
  Inodes = {1, 2, 3, 4}
  Budget <- ThreeAppends
CHECK_DEADLOCK FALSE
INVARIANT TypeOK
INVARIANT CheckpointedGone
INVARIANT FrameOnce
INVARIANT BytesAgree
INVARIANT SolidKept
INVARIANT KeptUntilPassed
PROPERTY JournalKept

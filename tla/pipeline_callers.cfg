SPECIFICATION Spec
CONSTANTS
  c1 = c1
  c2 = c2
  w = w
  p1 = p1
  p2 = p2
  None = None
  Callers = {c1, c2}
  Worker = w
  Ids = {p1}
  Plain <- PlainA
  Durable <- DurableA2
  RingCapacity = 2
  FlushMaxBatch = 1
  StoreRetryLimit = 2
  MaxStalled = 1
  Budget <- FailBothOnceFlush
INVARIANTS NoUpdateLost UndrainedFrameKept LsnsUnique

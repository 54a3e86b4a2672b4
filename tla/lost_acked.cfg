SPECIFICATION Spec
CONSTANTS
  c1 = c1
  c2 = c2
  w = w
  p1 = p1
  p2 = p2
  None = None
  Callers = {c1}
  Worker = w
  Ids = {p1, p2}
  Plain <- PlainA
  Durable <- DurableB
  RingCapacity = 2
  FlushMaxBatch = 1
  StoreRetryLimit = 1
  MaxStalled = 1
  Budget <- Nothing
INVARIANT AckedKept

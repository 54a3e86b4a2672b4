SPECIFICATION Spec
CONSTANTS
  p1 = p1
  p2 = p2
  c1 = c1
  c2 = c2
  o1 = o1
  x1 = x1
  x2 = x2
  x3 = x3
  x4 = x4
  None = None
  Producers = {p1, p2}
  Consumers = {c1}
  Observers = {}
  Items = {x1, x2}
  Capacity <- RoundedOne
  WeakCas = TRUE
INVARIANT SlotsMatchOwners

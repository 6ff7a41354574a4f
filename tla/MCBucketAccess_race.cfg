SPECIFICATION Spec
CONSTANTS
  p1 = p1
  b1 = b1
  b2 = b2
  r1 = r1
  r2 = r2
  q1 = q1
  q2 = q2
  w1 = w1
  w2 = w2
  Principals = {p1}
  Buckets = {b1, b2}
  Levels = {"rw"}
  NoLevel = NoLevel
  Ids = {r1, r2}
  KeyOf <- TwoBuckets
  Requests = {q1}
  Workers = {w1, w2}
  NoItem = NoItem
  Deletable = {p1}
  MaxCopies = 1
  MaxFaults = 0
SYMMETRY Symmetry
CHECK_DEADLOCK FALSE
INVARIANT Provenance
PROPERTY OnlyItsBucket

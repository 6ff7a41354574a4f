SPECIFICATION FairSpec
CONSTANTS
  p1 = p1
  b1 = b1
  b2 = b2
  r1 = r1
  r2 = r2
  q1 = q1
  q2 = q2
  w1 = w1
  w2 = w2
  Principals = {p1}
  Buckets = {b1}
  Levels = {"ro", "rw"}
  NoLevel = NoLevel
  Ids = {r1}
  KeyOf <- SameBucket
  Requests = {q1}
  Workers = {w1, w2}
  NoItem = NoItem
  Deletable = {}
  MaxCopies = 1
  MaxFaults = 1
INVARIANT GrantsConverge
CHECK_DEADLOCK FALSE
PROPERTY RevocationsLand

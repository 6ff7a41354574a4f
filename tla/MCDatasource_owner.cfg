SPECIFICATION FairSpec
CONSTANTS
  i1 = i1
  i2 = i2
  i3 = i3
  n1 = n1
  n2 = n2
  NoId = NoId
  w1 = w1
  w2 = w2
  Ids = {i1, i2}
  ApiIds = {i2}
  Names = {n1, n2}
  NameOf <- OneName
  Foreign = {}
  Workers = {w1, w2}
  MaxFaults = 3
INVARIANT OneOwner
PROPERTY ApiSettles
CHECK_DEADLOCK FALSE

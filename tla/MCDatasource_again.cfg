SPECIFICATION Spec
CONSTANTS
  i1 = i1
  i2 = i2
  i3 = i3
  n1 = n1
  n2 = n2
  NoId = NoId
  w1 = w1
  w2 = w2
  Ids = {i1}
  ApiIds = {i1}
  Names = {n1, n2}
  NameOf <- OneName
  Foreign = {}
  Workers = {w1}
  MaxFaults = 1
PROPERTY CreatedStays
CHECK_DEADLOCK FALSE

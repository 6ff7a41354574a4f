SPECIFICATION Spec
CONSTANTS
  Users = {u1}
  Requests = {r1, r2, r3}
  MaxFaults = 0
SYMMETRY Alike
INVARIANT DeletionsSucceed
CHECK_DEADLOCK FALSE

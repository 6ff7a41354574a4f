SPECIFICATION Spec
CONSTANTS
  Users = {u1, u2}
  Requests = {r1, r2, r3, r4}
  MaxFaults = 2
SYMMETRY Alike
PROPERTY AloneRepairs
CHECK_DEADLOCK FALSE

SPECIFICATION Spec
CONSTANTS
  e1 = e1
  e2 = e2
  r1 = r1
  r2 = r2
  r3 = r3
  k1 = k1
  k2 = k2
  l1 = l1
  l2 = l2
  w1 = w1
  w2 = w2
  Envs = {e1, e2}
  M2m = M2m
  Conns = {k1, k2}
  Email = k1
  Requests = {r1, r2, r3}
  Mixes <- MCMixes
  MaxMade = 2
  MaxFails = 1
  None = None
  RangeEnvs = {e1, e2}
  Lists = {l1, l2}
  Users = {r1, r2, r3}
  Hands = {w1, w2}
  MaxAsked = 3
  MaxVersion = 1
  MaxFaults = 1
  Forms = {r1, r2, r3}
  Repos = {e1, e2}
  Stores = {w1, w2}
  NoForm = NoForm
  MaxSetbacks = 1
SYMMETRY Symmetry
INVARIANTS
  AppsTypeOK
  AloneAgrees
  SecretsSettle
  RegisteredIsWhole
PROPERTY
  OthersSettingsKept
CHECK_DEADLOCK FALSE

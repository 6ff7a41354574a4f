SPECIFICATION PlatformSpec
CONSTANTS
  x1 = x1
  x2 = x2
  y1 = y1
  y2 = y2
  t1 = t1
  t2 = t2
  c1 = c1
  c2 = c2
  n1 = n1
  n2 = n2
  n3 = n3
  l1 = l1
  NoDep = NoDep
  NoTool = NoTool
  Broken = Broken
  NoParam = NoParam
  Deps = {x1, x2}
  Tools = {t1, t2}
  Charts = {c1, c2}
  ChartOf <- MCChartOf
  Workers = {y1, y2}
  MaxFaults = 1
  MaxGone = 1
  Tabs = {l1}
  Runners = {y1, y2}
  Releases = {x1, x2}
  Nothing = Nothing
  MaxAsks = 2
  MaxWire = 1
  MaxTurns = 1
  Arns = {x1, x2}
  Services = {t1, t2}
  Pages = {y1, y2}
  MaxRoleFaults = 1
  Tables = {n1, n2, n3}
  Links = {l1}
  TargetOf <- MCTargetOf
  Stewards = {x1, x2}
  MaxChanges = 5
  MaxCallFails = 1
  Keys = {x1, x2}
  MaxRounds = 2
  MaxVersions = 2
  MaxDeaths = 2
  Params = {n1, n2, n3}
  Names = {c1, c2}
  NameOf <- MCNameOf
  Writers = {y1, y2}
  MaxStoreFails = 1
  Addresses = {x1, x2, n1}
  Clerks = {y1, y2}
  PerPage = 1
  MaxOrders = 3
  MaxUpsets = 1
  Clients = {x1, x2}
  EnvOf <- MCEnvOf
  NoGroup = NoGroup
  MaxBroken = 1
SYMMETRY Symmetry
INVARIANTS
  PlatformTypeOK
  RowsTellReleases
  StatusesSettle
  RoleSettles
  GrantsUsable
  LatestKept
  StringsFollowRows
  PagesAreExact
PROPERTIES
  ClearUpSpares
CHECK_DEADLOCK FALSE

SPECIFICATION ConsoleSpec
CONSTANTS
  bucket = bucket
  foo = foo
  foobar = foobar
  x1 = x1
  x2 = x2
  y1 = y1
  y2 = y2
  n1 = n1
  n2 = n2
  Buckets = {bucket}
  Folders = {foo, foobar}
  Begins <- OneBegins
  Paths <- ThreePaths
  Segments = {"x", "y", "z"}
  NoGrant = NoGrant
  Tabs = {x1, x2}
  Datasources = {y1, y2}
  Guests = {n1}
  Staff = {n2}
  Analyses = {n1}
  MaxSubmits = 2
  MaxTrips = 1
  PageEnvs = {y1, y2}
  Admins = {x1, x2}
  Readers = {n1}
  MaxSettings = 2
  MaxHiccups = 1
  Users = {n1, n2}
  Sources = {n1}
  Apps = {n1}
  Creator = n1
  Threads = {x1, x2}
  Entities = {n1}
  AwsServices = {n1}
  SettingNames = {y1, y2}
  Roles = {foo, foobar}
  Regions = {bucket, foo}
  MaxCalls = 3
  MaxDenials = 1
SYMMETRY Symmetry
INVARIANTS
  ConsoleTypeOK
  ObjectsAsGranted
  FoldersListedAsGranted
  ConfirmedOnceAsShown
  SettingsPagesTrue
  ListedAsAllowed
  CallsAsConfigured
CHECK_DEADLOCK FALSE

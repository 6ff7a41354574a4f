SPECIFICATION Spec
CONSTANTS
  t1 = t1
  t2 = t2
  w1 = w1
  w2 = w2
  a1 = a1
  a2 = a2
  Tasks = {t1}
  AtomicTasks = {}
  AppTasks = {t1}
  Workers = {w1, w2}
  Admins = {a1, a2}
  MaxSends = 2
  MaxFaults = 1
  NoRow = NoRow
  NoMsg = NoMsg
  NoTask = NoTask
SYMMETRY Symmetry
CHECK_DEADLOCK FALSE
INVARIANT CompletedWasHandled
INVARIANT NoSilentLoss
INVARIANT WaitingIsLive
PROPERTY Promised
PROPERTY OnlyAdminsReopen

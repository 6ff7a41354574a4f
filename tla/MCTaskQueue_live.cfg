SPECIFICATION FairSpec
CONSTANTS
  t1 = t1
  t2 = t2
  w1 = w1
  w2 = w2
  a1 = a1
  a2 = a2
  Tasks = {t1, t2}
  AtomicTasks = {t2}
  AppTasks = {t2}
  Workers = {w1}
  Admins = {a1}
  MaxSends = 1
  MaxFaults = 1
  NoRow = NoRow
  NoMsg = NoMsg
  NoTask = NoTask
CHECK_DEADLOCK FALSE
PROPERTY EventuallyHandled
PROPERTY CancelDrains

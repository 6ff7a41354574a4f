SPECIFICATION Spec
CONSTANTS
  d1 = d1
  a1 = a1
  a2 = a2
  r1 = r1
  e1 = e1
  e2 = e2
  m1 = m1
  s1 = s1
  s2 = s2
  Boards = {d1}
  Admins = {a1, a2}
  Superusers = {r1}
  Emails = {e1, e2}
  DomainOf <- MCDomainOf
  Jobs = {s1, s2}
  MaxRows = 2
  MaxBegun = 6
  MaxMishaps = 1
  Slots = {s1, s2}
  MaxMadeAsks = 4
  MaxBreaks = 1
SYMMETRY Symmetry
INVARIANTS
  PeopleTypeOK
  ViewersHaveRole
  AccessStaysSound
  SinglesDeliver
PROPERTY
  OnlySetSuperadmin
CHECK_DEADLOCK FALSE

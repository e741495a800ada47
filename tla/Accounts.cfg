SPECIFICATION Spec
CONSTANTS
  j1 = j1
  j2 = j2
  k1 = k1
  d1 = d1
  d2 = d2
  r1 = r1
  r2 = r2
  r3 = r3
  Commands = {j1, j2}
  Keys = {k1}
  Databases = {d1, d2}
  Quota = 1
  MaxId = 4
  Missing = Missing
  Wishes <- MCWishes
  Nothing = Nothing
  Before <- MCBefore
  Requests = {r1, r2, r3}
  NoRequest = NoRequest
SYMMETRY AnyOrder
INVARIANTS
  TypeOK
  RowIsDatabase
PROPERTIES
  DoneAgrees
  RolledBackRestores
CHECK_DEADLOCK FALSE

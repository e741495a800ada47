SPECIFICATION Spec
CONSTANTS
  v1 = v1
  v2 = v2
  v3 = v3
  s1 = s1
  s2 = s2
  Versions = {v1, v2, v3}
  Default = v1
  Spare = {v2, v3}
  Sites = {s1, s2}
  NoRow = NoRow
  Requests = {1, 2, 3}
  NoRequest = NoRequest
  Wishes <- MCWishes
  Before <- MCBefore
INVARIANTS
  TypeOK
  RowHasItsPool
  MastersSurvive
CHECK_DEADLOCK FALSE

SPECIFICATION Spec
CONSTANTS
  s1 = s1
  s2 = s2
  a1 = a1
  c1 = c1
  c2 = c2
  r1 = r1
  r2 = r2
  r3 = r3
  Sites = {s1, s2}
  Aliases = {a1}
  Confs = {c1, c2}
  Default = c1
  LogConfs = {c2}
  Adopted <- MCAdopted
  NoRow = NoRow
  NoFile = NoFile
  Requests = {r1, r2, r3}
  NoRequest = NoRequest
  Menu <- MCMenu
  Before <- MCBefore
  Quota = 1
  MaxId = 8
INVARIANT
  RowIsBacked
CHECK_DEADLOCK FALSE

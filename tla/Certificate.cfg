SPECIFICATION Spec
CONSTANTS
  a1 = a1
  c1 = c1
  c2 = c2
  Aliases = {a1}
  Callers = {c1, c2}
  NoCaller = NoCaller
  Menu <- MCMenu
  Before <- MCBefore
  NoFile = NoFile
  NoLineage = NoLineage
  NoRecord = NoRecord
SYMMETRY AnyOrder
INVARIANTS
  TypeOK
  NothingWithoutLineage
  ServedNamesAreCovered
PROPERTIES
  SuccessAgrees
  FailureRestores
CHECK_DEADLOCK FALSE

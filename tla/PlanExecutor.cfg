SPECIFICATION FairSpec
CONSTANTS
  o1 = o1
  o2 = o2
  Ops <- MCOps
  NoOp = NoOp
  PlansOf <- MCPlansOf
  JournalMayFail = TRUE
INVARIANTS
  TypeOK
  SettledRowTellsRemains
  JournalLag
  AuditAgrees
PROPERTIES
  UndoInReverse
  CommittedStays
  ImplementsContract
  EveryRunReturns

SPECIFICATION Spec
CONSTANTS
  o1 = o1
  o2 = o2
  Ops <- OneOp
  NoOp = NoOp
  PlansOf <- OnePlanOf
  JournalMayFail = FALSE
INVARIANTS
  EveryReturnIsSettled

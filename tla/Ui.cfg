SPECIFICATION Spec
CONSTANTS
  s1 = s1
  s2 = s2
  d1 = d1
  d2 = d2
  None = None
  Subs <- MC_Subs
  DomainsOf <- MC_DomainsOf
  Operations <- MC_Operations
  Events = 1
  ChanCap = 1
  MaxReads = 1
SYMMETRY MC_Symmetry
INVARIANTS
  TypeOK
  ReadsFollowSelection
  ListFollowsSelection
  FailureIsShown
  SomebodyListens

SPECIFICATION Spec
CONSTANTS
  s1 = s1
  s2 = s2
  planA = planA
  planB = planB
  ssl = ssl
  old = old
  new = new
  malformed = malformed
  deadly = deadly
  Sites = {s1}
  Bodies = {old, new, malformed, deadly}
  Valid = {old, new, deadly}
  Fatal = {deadly}
  Nothing = Nothing
  Callers = {planA, ssl}
  Locked = {planA}
  NoCaller = NoCaller
  JobsOf <- OneSiteJobsOf
INVARIANT
  NoLostUpdate
CHECK_DEADLOCK FALSE

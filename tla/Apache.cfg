SPECIFICATION Spec
CONSTANTS
  s1 = s1
  s2 = s2
  planA = planA
  planB = planB
  ssl = ssl
  old = old
  new = new
  malformed = malformed
  deadly = deadly
  Sites = {s1, s2}
  Bodies = {old, new, malformed, deadly}
  Valid = {old, new, deadly}
  Fatal = {deadly}
  Nothing = Nothing
  Callers = {planA, planB, ssl}
  Locked = {planA, planB}
  NoCaller = NoCaller
  JobsOf <- MCJobsOf
INVARIANTS
  TypeOK
  NoDanglingLink
  SettledServerIsSound
  NoLostUpdate
PROPERTIES
  FailureRestoresDisk
  ReturnedSiteIsLive
CHECK_DEADLOCK FALSE

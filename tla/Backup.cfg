SPECIFICATION Spec
CONSTANTS
  acme = acme
  shop = shop
  b1 = b1
  b2 = b2
  old = old
  Names = {acme, shop}
  MaxUid = 2
  Backups = {b1, b2, old}
  Kept = {old}
  NoBackup = NoBackup
  NoRow = NoRow
  NoHome = NoHome
  Nothing = Nothing
  Requests = {1, 2, 3}
  NoRequest = NoRequest
  Scenarios <- MCScenarios
INVARIANTS
  TypeOK
  SubscriptionIsWhole
PROPERTIES
  RolledBackRestores
  RestoreBringsBack
CHECK_DEADLOCK FALSE

SPECIFICATION Spec
CONSTANTS
  Conns = {1}
  m1 = m1
  m2 = m2
  Models <- TwoModels
  Configs = {1, 2}
  Scopes = {s1}
  TargetVersion = 2
  Retention = 3
  MaxAttempts = 3
  MaxCrashes = 2
  Faulty = TRUE
SYMMETRY ModelSymmetry
INVARIANTS
  TypeOK
  LedgerMatchesCatalog
  DiagnosticBacksRow
  ScanOwnsClaim
  TurnOwnsClaim
  StartupContactsOnce
PROPERTIES
  SettledUntilReclaimed
  ReadersAgree
CHECK_DEADLOCK FALSE

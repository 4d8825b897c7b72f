SPECIFICATION FairSpec
CONSTANTS
  Conns = {1, 2}
  m1 = m1
  m2 = m2
  Models <- OneModel
  Configs = {1}
  Scopes = {}
  TargetVersion = 2
  Retention = 3
  MaxAttempts = 1
  MaxCrashes = 1
  Faulty = FALSE
PROPERTIES
  ClaimsSettle
  StartupCompletes
CHECK_DEADLOCK FALSE

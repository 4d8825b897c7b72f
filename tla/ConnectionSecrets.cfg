SPECIFICATION Spec
CONSTANTS
  Workers = {w1, w2}
  MaxSecrets = 4
  MaxCrashes = 2
INVARIANTS StoresAgree
PROPERTIES DeadKeyIsNotHandedOut
CHECK_DEADLOCK FALSE

SPECIFICATION Spec
CONSTANTS
  Contracts <- AllContracts
  MaxFaults = 1
INVARIANTS
  CheckpointResumed

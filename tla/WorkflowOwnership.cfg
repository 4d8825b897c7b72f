SPECIFICATION Spec
CONSTANTS
  RunIds = {1, 2, 3}
  Decisions = {"plan"}
  MaxEvidence = 1
  MaxSteps = 2
  MaxRetries = 1
  MaxCrashes = 1
INVARIANTS
  RunningRowIsLive
  LiveRunOwnsRow
  WorksInProgress
  SuccessorsBounded
PROPERTIES
  CancelledDispatchesNothing
CHECK_DEADLOCK FALSE

SPECIFICATION FairSpec
CONSTANTS
  projectId = projectId
  rootPath = rootPath
  MaxWrites = 1
  Profiles <- BothProfiles
  TaskRowsKey = projectId
  ContextKey = projectId
  Faulty = TRUE
CHECK_DEADLOCK FALSE
INVARIANTS
  ClosedWhenReturned
  EvidenceReadable
  HandOffDiscipline
PROPERTIES
  ImplementsRouteSequence
  SettledIsFinal
  Returns

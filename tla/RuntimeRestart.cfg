SPECIFICATION Spec
CONSTANTS
  projectId = projectId
  rootPath = rootPath
  MaxWrites = 1
  Profiles <- PromptOnly
  TaskRowsKey = projectId
  ContextKey = rootPath
  Faulty = TRUE
CHECK_DEADLOCK FALSE
INVARIANTS RestartSucceeds

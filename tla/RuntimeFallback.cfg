SPECIFICATION FairSpec
CONSTANTS
  projectId = projectId
  rootPath = rootPath
  MaxWrites = 1
  Profiles <- PromptOnly
  TaskRowsKey = projectId
  ContextKey = projectId
  Faulty = FALSE
CHECK_DEADLOCK FALSE
PROPERTIES FallbackFollowsNoMutation

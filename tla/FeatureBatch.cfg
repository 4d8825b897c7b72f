SPECIFICATION Spec
CONSTANTS
  Epics = {1}
  Tabs = {t1, t2}
  Titles = {"screen", "store", "report", "import"}
  Tables <- OneTable
  Prose <- OneProse
  Additions <- OneAddition
  Submitted <- TwoSubmissions
  DependsOn <- ScreenNeedsStore
  Cites <- CitedIds
  MaxFeats = 5
  MaxRows = 5
  MaxId = 2
  MaxCrashes = 1
SYMMETRY TabSymmetry
INVARIANTS
  IdsUnique
  OneChildPerDocument
  RowNamesOwnFeat
  DependenciesExist

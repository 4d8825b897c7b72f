SPECIFICATION Spec
CONSTANTS
  MaxSessions = 2
  MaxQuestions = 2
  Requests = {c1, c2}
  MaxNotes = 1
  MaxEdits = 1
  MaxCommands = 5
  MaxCrashes = 1
SYMMETRY RequestSymmetry
INVARIANTS OneOpenSession StuckSessionCancellable
PROPERTIES EditsKept
CHECK_DEADLOCK FALSE

CONSTANTS
  Projects <- MCProjects
  MaxNesting = 3
  MaxTime = 2
  MaxIds = 5
  MaxEdits = 3
  None = None
SPECIFICATION Spec
INVARIANTS
  NothingContainsItself
  NotesFlagged
CHECK_DEADLOCK FALSE

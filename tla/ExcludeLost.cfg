SPECIFICATION Spec
CONSTANTS
  Path = {"in", "new", "out"}
  Within = {"in", "new"}
  Mishaps = {"untracked"}
  Seed = TRUE
  MaxChanges = 2
  MaxChoices = 1
PROPERTIES UnsentKept
CHECK_DEADLOCK FALSE

SPECIFICATION Spec
CONSTANTS
  x = x
  y = y
  Names <- TwoNames
  Synced <- OneName
  Hazards = {"untracked", "midpass", "samestamp", "move", "prune", "race", "lostread", "backup"}
  MaxCopies = 1
  MaxWrites = 2
  MaxOps = 1
  PageLimit = 1
  MaxFaults = 1
INVARIANTS
  SyncedIsStored

SPECIFICATION FairSpec
CONSTANTS
  x = x
  y = y
  Names <- OneName
  Synced <- OneName
  Hazards = {}
  MaxCopies = 2
  MaxWrites = 4
  MaxOps = 2
  PageLimit = 2
  MaxFaults = 1
INVARIANT EditsKept
INVARIANT CaughtUp
PROPERTY Converge

SPECIFICATION VersionSpec
CONSTANTS
  Data = {"d1", "d2"}
  SizeOf <- Sizes
  Quota = 5
  Keep = 2
  Migrator = {m1}
  MaxVersion = 3
  MaxPut = 2
  Cancels = TRUE
INVARIANT VersionsServed

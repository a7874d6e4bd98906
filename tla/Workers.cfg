SPECIFICATION WorkersSpec
CONSTANTS
  Id = {j1, j2}
  Node = {n1}
  Worker = {w1, w2}
  Client = {i1}
  Registered <- AllKinds
  Semantic = TRUE
  MaxAttempts = 2
  OwnerQueueCap = 1
  Lapse = FALSE
  Overlap = FALSE
  Prunes = TRUE
  MaxEdits = 2
  MaxOps = 1
  Key = {b1}
  Blob = {b1}
  Reader = {r1}
  Sweeper = {s1, s2}
  Rewrite = "never"
  MaxFault = 2
SYMMETRY WorkersSymmetry
INVARIANTS
  JobHeldOnce  Durable ColdIsInBucket
CHECK_DEADLOCK FALSE

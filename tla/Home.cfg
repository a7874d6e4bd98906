SPECIFICATION HomeSpec
CONSTANTS
  User = {u1, u2}
  Caller = {r1, r2}
  Session = {s1, s2}
  Ceremony = {c1}
  Passkey = {p1, p2}
  AppPassword = {a1}
  Code = {x1}
  MaxSets = 2
  MaxDisables = 1
  MaxOps = 3
  Overlap = FALSE
  Id = {root, i1, i2, i3}
  Root = root
  Name <- Names
  Fold <- LowerCase
  Request = {q1}
  Hazards = {}
  Data = {"d1", "d2"}
  SizeOf <- ContentSizes
  Quota = 5
  Keep = 2
  Migrator = {m1}
  MaxVersion = 3
  MaxPut = 2
  Cancels = FALSE
SYMMETRY HomeSymmetry
INVARIANTS
  HomeTypeOK SignInHolds  HistorySound
PROPERTIES
  WaysInStay 
CHECK_DEADLOCK FALSE

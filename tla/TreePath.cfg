SPECIFICATION Spec
CONSTANTS
  Id = {root, i1, i2, i3}
  Root = root
  Name <- Names
  Fold <- LowerCase
  Request = {r1}
  Hazards = {"samepath"}
SYMMETRY IdSymmetry
INVARIANT LivePathsTrue

SPECIFICATION Spec
CONSTANTS
  c1 = c1
  c2 = c2
  A = A
  B = B
  Chunk <- MCChunk
  Content <- MCContent
  List <- MCList
  Plain <- MCPlain
  Split <- MCSplit
  Manifest = {m1, m2}
  Version = {v1, v2}
  Writer = {w1, w2}
  Collector = {g1}
  Overlap = FALSE
  OutliveGrace = TRUE
  Repair = TRUE
SYMMETRY Symmetry
INVARIANTS
  NoHoles
CHECK_DEADLOCK FALSE

SPECIFICATION Spec
CONSTANTS
  c1 = c1
  c2 = c2
  A = A
  B = B
  Chunk <- MCChunk
  Content <- MCContent
  List <- SmallList
  Plain <- SmallPlain
  Split <- SmallSplit
  Manifest = {m1, m2}
  Version = {v1}
  Writer = {w1, w2}
  Collector = {g1}
  Overlap = TRUE
  OutliveGrace = TRUE
  Repair = FALSE
SYMMETRY Symmetry
INVARIANTS
  RefcountExact ForeignKeys ManifestsTrue
CHECK_DEADLOCK FALSE

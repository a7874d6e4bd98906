SPECIFICATION Spec
CONSTANTS
  User = {"owner", "guest"}
  Node = {"root", "home", "n1", "n2", "n3"}
  Name = {"a", "b"}
  RootOf <- MCRootOf
  Start <- MCStart
  SamePath = FALSE
  Torn = FALSE
  Request = {r1}
  MaxGrantOps = 3
  TornPath = FALSE
  Sharer = {"owner"}
  Link = {l1}
  Visitor = {v1, v2}
  Knows = {v1}
  Caps = {1}
  RelPaths <- MCRelPaths
  MaxTreeOps = 2
  MaxCount = 2
  Photo = {"f1", "f2"}
  Person = {"p1", "p2"}
  FaceWorker = {w1}
  FacesIn <- MCFacesIn
  MaxAnalyses = 3
  MaxEdits = 2
  Disturbed = FALSE
  FileNode = {"f1", "f2", "f3"}
  Stranger = {"x1"}
  NodeLists <- Lists
  AlbumRequest = {b1, b2}
  Racing = FALSE
  MaxAlbumOps = 4
  Client = {"c1", "c2"}
  Proxy = {"px"}
  Forwarded <- Headers
  Call = {k1, k2}
  Unit = 3
  Refill = 2
  Burst <- Bursts
  ReapAfter = 5
  MaxWait = 1
  MaxClock = 6
  MaxGrants = 3
  StagingKey = {y1}
  Connection = {r3, r4}
  Sizes = {1, 2}
  Threshold = 2
  LateSizes = {1}
INVARIANTS
    CapHolds CorrectionsHold AlbumSound RateFair 
PROPERTIES
  WritesPermitted 
CHECK_DEADLOCK FALSE

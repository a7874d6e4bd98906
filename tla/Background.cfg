SPECIFICATION DutySpec
CONSTANTS
  Key = {c1}
  Blob = {}
  Reader = {r1}
  Sweeper = {s1}
  Rewrite = "quiet"
  MaxFault = 0
  Device = {d1}
  Endpoint = {e1, e2}
  Notification = {p1, p2}
  MaxSeq = 2
  MaxFaults = 1
  Rebind = FALSE
  Owner = {a1}
  Plan = {b1}
  Meter = {w1}
  Bytes = {1, 2}
  Limits = {1}
  MaxPeriod = 2
  MaxSweeps = 2
  MaxPlanOps = 1
  Attempts = 2
  MaxCrashes = 1
  Chunk = {"c1", "c2", "c3", "s"}
  Text <- MCText
  Small <- MCSmall
  Uploader = {u1}
  Downloader = {d1}
  Foreign = {"c3"}
  MaxWrites = 1
  MaxMishaps = 1
  Release = {1, 2, 3}
  Runner = {"daemon", "cli"}
  Together = FALSE
  MaxDeaths = 2
  Picture = {"n1", "n2"}
  Rendition = {"thumb"}
  MediaWorker = {w1, w2}
  BlobKey = {1, 2, 3, 4, 5, 6}
  LostAnswer = FALSE
  MaxMediaOps = 4
  MaxMediaFaults = 1
  Document = {d1, d2}
  EmbedWorker = {w1, w2}
  Aged = {}
  Restamped = FALSE
  MaxModels = 2
  MaxDocOps = 2
  Path = {"in", "out"}
  Within = {"in"}
  Mishaps = {}
  Seed = TRUE
  MaxChanges = 2
  MaxChoices = 2
INVARIANTS
   AnnouncementsHold   BinaryAtHand
PROPERTIES
  ComeBack AnnouncementsMade DerivedFollows  NewestRuns
  UnsentKept OnlyTheUsersRemovals DerivedStays
CHECK_DEADLOCK FALSE

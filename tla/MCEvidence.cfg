\* Explorers, sources, closers, storage nodes, trees, uploads and signatures, one at a time.
SPECIFICATION EvidenceSpec
CONSTANTS
  a = a  b = b
  Explorers = {x, y}
  Right = {x}
  MinConf = 3
  Tolerance = 3
  MaxReorg = 1
  Sats = {1, 2}
  MaxHeight = 6
  Sources = 5
  Wrong = 1
  Minimum = 5
  Quorum = 3
  MaxMove = 10
  Scale = 100
  MaxAge = 1
  Getters = {g}
  Quotes = {300, 1000, 3000}
  Reports <- MCReports
  FirstRate = 1000
  MaxCloses = 8
  MaxRounds = 2
  MaxClock = 3
  Nodes = {a, b}
  Posts = {p}
  MaxSlots = 2
  Replication = 1
  Draws <- MCDraws
  LastEpoch = 2
  Contents <- MCContents
  MaxLeaves = 5
  MaxProof = 2
  Uploads = {u, v, w}
  Chunks = 2
  MaxMs = 2
  P = 43
  N = 31
  GX = 2
  GY = 12
  Keys = {1, 2, 30}
  Digests = {0, 5, 31, 38}
INVARIANTS CreditedIsDestroyed PublishedRateStands DriftIsSlow CreditMeansKept RootCommits HalfIsOfTwins OneSigner
PROPERTIES OnlyOwnShareMoves
CHECK_DEADLOCK FALSE

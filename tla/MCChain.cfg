\* One host, its builder and the archive job; one trouble at any point.
SPECIFICATION FairSpec
CONSTANTS
  Kinds = {"post", "close"}
  MaxLines = 4
  MaxBlobs = 1
INVARIANTS RecordHolds
PROPERTIES SealedStays ClosedIsArchived
CHECK_DEADLOCK FALSE

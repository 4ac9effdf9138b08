\* Nothing goes wrong: a post settles and the archive keeps its picture.
SPECIFICATION FairSpec
CONSTANTS
  Kinds = {"post", "settle", "close"}
  MaxLines = 2
  MaxBlobs = 1
INVARIANT ArchiveDropsSettled
CHECK_DEADLOCK FALSE

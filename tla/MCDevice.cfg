SPECIFICATION FairSpec
CONSTANTS
  Reqs = {r1, r2}
  Shards = {s1}
  Lease = 1
  Grace = 1
  MaxPosts = 2
  MaxTime = 4
PROPERTIES CacheUnderLease OverdueCopyLeaves
CHECK_DEADLOCK FALSE

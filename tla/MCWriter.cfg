\* One host with a failing disk and a crash: three requests at one instant, or two over two.
SPECIFICATION SceneSpec
CONSTANTS
  r3 = r3
  Reqs = {r1, r2, r3}
  Outs = {o1}
  Cids = {c1}
  MaxPosts = 1
  MaxTime = 2
  Kinds = {"claim", "post", "settle", "note"}
  Skew = 1
  MaxFaults = 1
  MaxCrashes = 1
  MaxPuts = 1
INVARIANTS HostConsistent UnsettledHasPicture
PROPERTIES ImplementsLedger EveryRequestAnswered
CHECK_DEADLOCK FALSE

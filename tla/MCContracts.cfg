\* The four contracts, with two accounts.
SPECIFICATION MCSpec
CONSTANTS
  ann = ann  bob = bob  c1 = c1  w1 = w1  r1 = r1
  Addr = {ann, bob}
  Cids = {c1}
  Nonces = {0, 1}
  Shapes <- MCShapes
  Words = {w1}
  Zero = Zero
  Founder = ann
  Editions = {r1}
  Ceiling = 4
  MaxTime = 3
  MaxEpoch = 2
  Holders = {ann, bob, pool}
  Distributor = bob
  Pool = pool
  Locked = locked
  Greatest = 31
  MAX_SUPPLY = 24
  Amounts = {1, 5}
  Grants = {4, 31}
  MINIMUM_LIQUIDITY = 1
  feeBps = 1
  Bps = 10
  BtcMinted = 8
  Minima = {0, 3}
  MaxCalls = 8
INVARIANTS RecordSound ScheduleSound HoldingsAccounted
PROPERTIES RecordIsFinal AnswersFrozen ShareValueNeverFalls
CHECK_DEADLOCK FALSE

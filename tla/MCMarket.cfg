\* Epochs and the pool: rates, rebates and rails over two closes; trades, deposits and withdrawals.
SPECIFICATION MarketSpec
CONSTANTS
  ann = ann  bob = bob  cyn = cyn  o1 = o1  o2 = o2  o3 = o3
  n1 = n1  n2 = n2  n3 = n3  c1 = c1  c2 = c2
  Addr = {ann, bob}
  NoAddr = NoAddr
  Names = {n1, n2}
  Cids = {c1, c2}
  Txos = {o1, o2}
  TxoSat <- MCTxoSat
  RuleKey = bob
  Score <- MCScore
  Params <- EpochParams
  Inputs <- EpochInputs
  Stamps = {1, 3, 5}
  MaxPosts = 2
  MaxEpoch = 2
INVARIANTS SupplyWithinRails RulesOnTime
PROPERTIES RebateIsOfOwnBurn PoolNeverLosesToTraders
CHECK_DEADLOCK FALSE

\* The wall and capacity: one author, two viewers and two nodes.
SPECIFICATION PostsSpec
CONSTANTS
  ann = ann  bob = bob  cyn = cyn  o1 = o1  o2 = o2  o3 = o3
  n1 = n1  n2 = n2  n3 = n3  c1 = c1  c2 = c2
  Addr = {ann, bob, cyn}
  NoAddr = NoAddr
  Names = {n1, n2, n3}
  Cids = {c1}
  Txos = {o1, o2, o3}
  TxoSat <- MCTxoSat
  RuleKey = NoAddr
  Score <- MCScore
  Params <- PostsParams
  Inputs <- PostsInputs
  Stamps = {1, 3, 4, 6, 7}
  MaxPosts = 2
  MaxEpoch = 1
INVARIANTS MoneyConserved CidIndexExact PairsCounted CapacityHolds
PROPERTIES SettledIsFinal NoDilution LandsAsLedger
CHECK_DEADLOCK FALSE

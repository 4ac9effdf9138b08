\* Two hosts that start beside each other, and one disturbance.
SPECIFICATION FairSpec
CONSTANTS
  a = a  b = b  c = c
  Hosts = {a, b}
  NoHost = NoHost
  Order <- MCOrder
  StatusServed = TRUE
  HandoverDeclared = TRUE
  MaxActs = 2
  MaxDisturbances = 1
INVARIANTS RolesHold
PROPERTIES LongerRecordEndsUpAlone ForkFreezesBoth SomebodyWrites
CHECK_DEADLOCK FALSE

\* Two hosts that answer what server/index.mjs answers, undisturbed.
SPECIFICATION FairSpec
CONSTANTS
  a = a  b = b  c = c
  Hosts = {a, b}
  NoHost = NoHost
  Order <- MCOrder
  StatusServed = FALSE
  HandoverDeclared = TRUE
  MaxActs = 2
  MaxDisturbances = 0
INVARIANTS AtMostOnePen
CHECK_DEADLOCK FALSE

SPECIFICATION Spec
CONSTANTS
  Accounts = {a, b}
  Sends = {s1, s2}
  Dwell = 1
  Cooldown = 2
  MaxLines = 3
  MaxCards = 2
  MaxLooks = 2
  MaxSwitches = 1
  MaxTime = 3
INVARIANTS PageFollowsRecord OneChargePerLook
CHECK_DEADLOCK FALSE
SYMMETRY Symmetry

\* Two nodes; the clocks are as far apart as allowed.
SPECIFICATION Spec
CONSTANTS
  n1 = n1  n2 = n2  o = o  a = a  b = b
  Node = {n1, n2}
  Identity = {o, a, b}
  Owner = o
  Home <- OwnerAlone
  Skew <- SlowGuest
  Leeway = 1  Delta = 2
  MaxLength = 2
  MaxTime = 3
  MaxInvites = 2
  Watcher = {n1}
  None = None
INVARIANTS ChainsFit NeverTooEarly HonestAccepted ChangesAreTold
PROPERTY OwnerStays
CHECK_DEADLOCK FALSE

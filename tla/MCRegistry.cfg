\* Two identities of ours, a channel of someone else, two calls at a time and a crash.
SPECIFICATION Spec
CONSTANTS
  Own = {a, b}
  Foreign = {f}
  OwnName <- Mine
  ForeignName <- Theirs
  Slots = 2
  MaxCalls = 6
  MaxCrashes = 1
  None = None
SYMMETRY Symmetric
INVARIANTS TypeOK Restartable NamesUnique DiskAgrees OrphansExplained LeftoversExplained StoreClosed
CHECK_DEADLOCK FALSE

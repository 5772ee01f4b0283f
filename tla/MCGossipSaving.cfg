\* Two connected nodes, no drop: only the save of a channel can keep a post from being announced.
SPECIFICATION Spec
CONSTANTS
  a = a  b = b  c = c  x = x  y = y  m1 = m1  m2 = m2
  Node = {a, b}
  Link <- Pair
  Channel = {x}
  Msg = {m1}
  ChannelOf <- OneMessage
  Loaded <- OthersLoaded
  Joined <- Pair
  MaxSyncs = 2
  MaxDrops = 0
  None = None
INVARIANT AllNotified
CHECK_DEADLOCK FALSE

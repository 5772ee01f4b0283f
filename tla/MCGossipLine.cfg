\* Three connected nodes in a line, one of which adds the channel; a connection may drop and come back.
SPECIFICATION FairSpec
CONSTANTS
  a = a  b = b  c = c  x = x  y = y  m1 = m1  m2 = m2
  Node = {a, b, c}
  Link <- Line
  Channel = {x}
  Msg = {m1}
  ChannelOf <- OneMessage
  Loaded <- OthersLoaded
  Joined <- Line
  MaxSyncs = 3
  MaxDrops = 1
  None = None
INVARIANT QuietAgreement
PROPERTY Converges
CHECK_DEADLOCK FALSE

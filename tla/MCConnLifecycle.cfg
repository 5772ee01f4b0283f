\* Three sockets: one may be cut, the syncs of one may fail, and the protocol
\* that decides may be closed, at any time.
SPECIFICATION FairSpec
CONSTANTS
  Sockets = 3  Distance = 2
  Width = 2
  End <- AllEnds
  Other <- Pairs
  Id <- TwoProtocols
  Cuts = {3}  Faults = {1}  Closes = {0}
  None = None
INVARIANTS OnePeerPerRemote Reconnectable
PROPERTY HandshakeEnds
CHECK_DEADLOCK FALSE

\* Two of: the channel is removed and added again here, is removed at the remote, our
\* chain expires, the network stalls.
SPECIFICATION FairSpec
CONSTANTS
  Agent <- TwoAgents
  MaxCalls = 2
  SeqWidth = 1
  MaxRetries = 2
  Env = {"remove", "forget", "expire", "stall"}
  MaxEvents = 2
  None = None
INVARIANTS TypeOK BanExplained
PROPERTIES ImplementsRpc DeadNoticed
CHECK_DEADLOCK FALSE

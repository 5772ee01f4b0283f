\* Pages of two messages on branches: backwards over a gap and forwards again,
\* or a full sync when two parents are missing, while both sides grow and the
\* remote may remove the channel.
SPECIFICATION FairSpec
CONSTANTS
  Size = 8
  Msg <- AllMsg
  Graphs <- BranchedGraphs
  Limit = 2
  BulkLimit = 2
  MaxUnresolved = 1
  MaxLeaves = 8
  LocalNew = {3, 7}
  RemoteNew = {2, 6, 8}
  Env = {"forget"}
  None = None
INVARIANT HonestRemoteNotBanned
PROPERTY SyncEnds
CHECK_DEADLOCK FALSE

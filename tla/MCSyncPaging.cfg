\* Both sides grow while a sync walks pages of two messages.
SPECIFICATION Spec
CONSTANTS
  Size = 5
  Msg <- AllMsg
  Graphs <- GraphsOfFive
  Limit = 2
  BulkLimit = 1
  MaxUnresolved = 5
  MaxLeaves = 5
  LocalNew <- AllMsg
  RemoteNew <- AllMsg
  Env = {"timeout"}
  None = None
INVARIANTS SyncComplete NoSilentGap HonestRemoteNotBanned PageClassified
CHECK_DEADLOCK FALSE

SPECIFICATION SyncFairSpec
CONSTANTS
  Conns = {c1}
  Scopes <- MCScopes
  Topics <- SyncTopics
  Matches <- MCMatches
  Backlog = 1
  MaxLog = 2
  MaxReplays = 1
  FutureCursors = FALSE
  Daemon = Daemon
  NoSeq = NoSeq
  MaxMutations = 1
  MaxDials = 2
  MaxQueue = 1
INVARIANTS MutationOnce CommittedShown
PROPERTY ReceiptResolved
CHECK_DEADLOCK FALSE

SPECIFICATION SyncSpec
CONSTANTS
  Conns = {c1}
  Scopes <- MCScopes
  Topics <- SyncTopics
  Matches <- MCMatches
  Backlog = 3
  MaxLog = 3
  MaxReplays = 1
  FutureCursors = FALSE
  Daemon = Daemon
  NoSeq = NoSeq
  MaxMutations = 1
  MaxDials = 2
  MaxQueue = 1
INVARIANTS MissesNothing
CHECK_DEADLOCK FALSE

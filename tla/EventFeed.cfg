SPECIFICATION FairSpec
CONSTANTS
  Conns = {c1}
  Scopes <- MCScopes
  Topics <- MCTopics
  Matches <- MCMatches
  Backlog = 1
  MaxLog = 2
  MaxReplays = 2
  FutureCursors = FALSE
INVARIANTS NoGap
PROPERTY EventuallySent
CHECK_DEADLOCK FALSE

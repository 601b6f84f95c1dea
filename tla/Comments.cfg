SPECIFICATION CommentsSpec
CONSTANTS
  Paths = {"p", "q"}
  Blobs = {"a", "a2", "x"}
  NoBlob = "none"
  NoPath = "nowhere"
  Maps <- MCMaps
  Similar <- MCSimilar
  FirstTree <- MCFirstTree
  MaxComment = 2
  MaxMove = 2
  MaxFailure = 1
  Suggestions = {"s1", "s2"}
  Contents = {"a", "b"}
  Before <- MCBefore
  After <- MCAfter
  MaxFile = 4
  MaxDir = 2
  MaxAttempt = 2
  MaxEdit = 2
INVARIANTS IndexExact AnchorsCurrent AbsentIsRecoverable
PROPERTIES KeepsBytes ReplacesReviewed
CHECK_DEADLOCK FALSE

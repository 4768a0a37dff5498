SPECIFICATION Spec
CONSTANTS
  MAXLINE = 3
  PIPE_BUF = 3
  BUFSIZ = 3
  MaxText = 5
CHECK_DEADLOCK FALSE
INVARIANTS
  NothingLost
  Paired
PROPERTIES
  StreamEnds

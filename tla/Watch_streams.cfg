CONSTANTS
  s1 = s1
  s2 = s2
  p1 = p1
  socket1 = socket1
  socket2 = socket2
  page1 = page1
  None = None
  Sessions = {s1}
  Paths = {p1}
  PathOf <- OneSession
  Sockets = {socket1, socket2}
  Pages = {}
  FormatOf <- MCFormat
  QueueCap = 1
  Limit = 1
  MaxLines = 2
  TailUnits = 3
  SplitsChar = {2}
  Torn = TRUE
  Grows = TRUE
  MaxRemovals = 1
SPECIFICATION FairSpec
INVARIANTS SentInOrder OnlyTornLost
PROPERTIES DroppedStreamEnds ReportedIsRead
CHECK_DEADLOCK FALSE

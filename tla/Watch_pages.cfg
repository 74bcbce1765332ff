CONSTANTS
  s1 = s1
  s2 = s2
  p1 = p1
  socket1 = socket1
  socket2 = socket2
  page1 = page1
  None = None
  Sessions = {s1, s2}
  Paths = {p1}
  PathOf <- OnePath
  Sockets = {}
  Pages = {page1}
  FormatOf <- MCFormat
  QueueCap = 1
  Limit = 1
  MaxLines = 2
  TailUnits = 3
  SplitsChar = {}
  Torn = FALSE
  Grows = TRUE
  MaxRemovals = 1
SPECIFICATION Spec
INVARIANTS OneConversation
CHECK_DEADLOCK FALSE

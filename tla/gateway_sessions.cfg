CONSTANTS
  Ids = {i, j}
  Agents = {ana}
  Sessions = {s}
  Peers = {p1, p2}
  Requests = {q}
  Endpoints = {"prepare", "create", "bind", "offer", "repair", "join", "play", "close"}
  None = None
  Ivr = Ivr
SPECIFICATION FairSpec
INVARIANTS ListedSessionsAreOpen
PROPERTIES ImplementsMediaSessions AbandonedSessionExpires ClosedCallIsReleased
CHECK_DEADLOCK FALSE

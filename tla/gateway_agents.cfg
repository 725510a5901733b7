CONSTANTS
  Ids = {i}
  Agents = {ana, bia}
  Sessions = {s}
  Peers = {p1, p2, p3}
  Requests = {q, r}
  Endpoints = {"prepare", "join", "switch", "remove", "play"}
  None = None
  Ivr = Ivr
SPECIFICATION Spec
SYMMETRY Symmetric
INVARIANTS TypeInv InstalledPeersAreOpen OnePlayer
PROPERTIES OnlyCurrentIsHeard ImplementsMediaSessions
CHECK_DEADLOCK FALSE

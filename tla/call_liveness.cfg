CONSTANTS
  k = k
  l = l
  v = v
  Agents = {ana}
  Calls = {k, l}
  Conversations = {v}
  ConvOf <- OneConversation
  Outbound = {l}
  Requests = {p, q}
  Endpoints <- MakeOrTake
  Webhooks = {"connect"}
  None = None
  Redelivery = FALSE
  Faults = TRUE
  MaxRestarts = 0
SPECIFICATION FairSpec
INVARIANT OneLiveCallPerAgent
PROPERTY LocksAreReleased
CHECK_DEADLOCK FALSE

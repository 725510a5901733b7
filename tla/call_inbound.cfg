CONSTANTS
  k = k
  l = l
  v = v
  Agents = {ana, bia}
  Calls = {k}
  Conversations = {v}
  ConvOf <- OneConversation
  Outbound = {}
  Requests = {p, q, r}
  Endpoints <- Inbounds
  Webhooks <- Events
  None = None
  Redelivery = TRUE
  Faults = FALSE
  MaxRestarts = 1
SPECIFICATION Spec
SYMMETRY SymmetricAgents
INVARIANTS TypeInv AnsweredCallIsServed EndedCallFreesAgent SessionFollowsAgent
CHECK_DEADLOCK FALSE

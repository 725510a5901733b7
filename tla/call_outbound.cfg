CONSTANTS
  k = k
  l = l
  v = v
  Agents = {ana, bia}
  Calls = {k, l}
  Conversations = {v}
  ConvOf <- OneConversation
  Outbound = {k, l}
  Requests = {p, q}
  Endpoints = {"initiate"}
  Webhooks = {"connect", "ringing", "terminate"}
  None = None
  Redelivery = FALSE
  Faults = FALSE
  MaxRestarts = 0
SPECIFICATION Spec
SYMMETRY SymmetricCalls
INVARIANTS OneOutboundPerConversation
CHECK_DEADLOCK FALSE

CONSTANTS
  ana = ana
  bia = bia
  caio = caio
  ana1 = ana1
  bia1 = bia1
  caio1 = caio1
  Agents = {ana, bia, caio}
  Clients = {ana1, bia1, caio1}
  AgentOf <- OneBrowserEach
  Calls = {k}
  Transfers = {t, u, w}
  Requests = {p, q}
  Endpoints <- OfferAndAnswer
  Worker = Worker
  None = None
  SerialClients = TRUE
  Faults = FALSE
  MaxRestarts = 0
SPECIFICATION Spec
SYMMETRY Symmetric
PROPERTY OwnerKeepsMedia
CHECK_DEADLOCK FALSE

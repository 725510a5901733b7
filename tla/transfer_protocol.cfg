CONSTANTS
  ana = ana
  bia = bia
  caio = caio
  ana1 = ana1
  bia1 = bia1
  caio1 = caio1
  Agents = {ana, bia}
  Clients = {ana1, bia1}
  AgentOf <- OneBrowserEach
  Calls = {k}
  Transfers = {t, u}
  Requests = {p, q}
  Endpoints <- AllEndpoints
  Worker = Worker
  None = None
  SerialClients = FALSE
  Faults = TRUE
  MaxRestarts = 0
SPECIFICATION Spec
SYMMETRY Symmetric
INVARIANTS TypeInv OneOpenTransfer AcceptedByOwner
PROPERTY ImplementsProtocol
CHECK_DEADLOCK FALSE

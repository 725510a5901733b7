CONSTANTS
  ana = ana
  bia = bia
  caio = caio
  ana1 = ana1
  bia1 = bia1
  caio1 = caio1
  Agents = {ana, bia}
  Clients = {ana1, bia1}
  AgentOf <- OneBrowserEach
  Calls = {k}
  Transfers = {t}
  Requests = {p, q}
  Endpoints <- AllEndpoints
  Worker = Worker
  None = None
  SerialClients = FALSE
  Faults = TRUE
  MaxRestarts = 1
SPECIFICATION FairSpec
PROPERTY EveryTransferIsDecided
CHECK_DEADLOCK FALSE

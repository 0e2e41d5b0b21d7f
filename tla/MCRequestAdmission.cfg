CONSTANTS
  r1 = r1
  r2 = r2
  r3 = r3
  c1 = c1
  c2 = c2
  None = None
  Requests <- MCRequests
  ClientOf <- MCClientOf
  Clients = {c1, c2}
  TokenClients = {c2}
  Limit = 2
  WindowSeconds = 2
  TicksPerSecond = 2
  MaxKeys = 1
  MaxTime = 4
SPECIFICATION AdmissionSpec
INVARIANTS
  AdmissionTypeOK
  UserOwnsFirstTenant
  RefusalIsJust
PROPERTIES
  EveryRequestIsAnswered
  ImplementsWindow
CHECK_DEADLOCK FALSE

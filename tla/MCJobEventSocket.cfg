CONSTANTS
  j1 = j1
  c1 = c1
  s1 = s1
  s2 = s2
  None = None
  Jobs <- MCJobs
  Clients <- MCClients
  Sessions <- TwoSessions
  Statuses = {"RUNNING", "COMPLETED"}
  Terminal = {"COMPLETED"}
  MaxEvents = 2
  MaxPublished = 3
  MaxDrops = 2
SPECIFICATION SocketFairSpec
INVARIANTS
  SocketTypeOK
  ReceivedOnceInOrder
  NothingSkipped
  NormalCloseIsComplete
PROPERTIES
  TerminalIsDelivered
  FinishedJobIsReleased
CHECK_DEADLOCK FALSE

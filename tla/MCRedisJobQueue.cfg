CONSTANTS
  a = a
  bad = bad
  k1 = k1
  k2 = k2
  None = None
  Consumers <- MCConsumers
  Jobs = {a, bad}
  Malformed = {bad}
  MaxMessages = 3
  MaxSends = 2
  MaxFaults = 2
SPECIFICATION FairSpec
INVARIANTS
  TypeOK
  HandedAtMostOnce
  PendingIsAccounted
  AcknowledgeSucceeds
PROPERTIES
  ImplementsWorkQueue
  EveryJobIsAcknowledged
CHECK_DEADLOCK FALSE

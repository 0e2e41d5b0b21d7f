CONSTANTS
  w1 = w1
  w2 = w2
  e1 = e1
  e2 = e2
  s1 = s1
  None = None
  Workers <- MCWorkers
  Engines <- MCEngines
  Configured <- MCEngines
  Streams <- MCStreams
  Jobs <- MCJobs
  Diarizing = {w1}
  MaxJobs = 2
  MaxFaults = 1
SPECIFICATION FairSpec
INVARIANTS
  StatusesInOrder
  StatusMatchesEngines
  JoinMeansReported
PROPERTIES
  EveryJobIsReported
CHECK_DEADLOCK FALSE

CONSTANTS
  w1 = w1
  w2 = w2
  e1 = e1
  s1 = s1
  s2 = s2
  k1 = k1
  k2 = k2
  None = None
  Workers <- MCOneWorker
  Engines <- MCEngines
  Configured <- MCEngines
  Streams <- MCOneStream
  Jobs <- MCJobs
  Sockets <- MCSockets
  Diarizing = {}
  MaxJobs = 3
  MaxFaults = 0
  MaxConnects = 2
SPECIFICATION PipelineSpec
INVARIANTS
  PromisedChunksAreFinal
CHECK_DEADLOCK FALSE

CONSTANTS
  w1 = w1
  w2 = w2
  e1 = e1
  s1 = s1
  s2 = s2
  k1 = k1
  k2 = k2
  None = None
  Workers <- MCOneWorker
  Engines <- MCEngines
  Configured <- MCEngines
  Streams <- MCStreams
  Jobs <- MCJobs
  Sockets <- MCSockets
  Diarizing = {}
  MaxJobs = 4
  MaxFaults = 1
  MaxConnects = 2
SPECIFICATION PipelineSpec
INVARIANTS
  PipelineTypeOK
  FinalCoversEarlierChunks
  FinalIsExact
  FilesAreDistinct
SYMMETRY MCSymmetry
CHECK_DEADLOCK FALSE

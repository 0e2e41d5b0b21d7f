CONSTANTS
  A = A
  B = B
  None = None
  Inputs <- MCStreams
  Speakers = {A, B}
  MinimumOverlap = 1
  ChunkLength = 2
SPECIFICATION Spec
INVARIANTS
  GroupsFollowTheStream
CHECK_DEADLOCK FALSE

CONSTANTS
  A = A
  B = B
  None = None
  Inputs <- MCCalls
  Speakers = {A, B}
  MinimumOverlap = 1
  ChunkLength = 3
SPECIFICATION Spec
INVARIANTS
  GroupsAreComponents
  ResultIsChronological
  SpeakerIsHeard
CHECK_DEADLOCK FALSE

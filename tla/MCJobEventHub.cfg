CONSTANTS
  j1 = j1
  j2 = j2
  s1 = s1
  s2 = s2
  Jobs <- MCJobs
  Sessions <- MCSessions
  Statuses = {"RUNNING"}
  MaxEvents = 2
  MaxPublished = 3
SPECIFICATION FairSpec
INVARIANTS
  DequeIsTail
  NoGapNoRepeat
PROPERTIES
  ImplementsFeed
  EverythingIsShown
  AbandonedIsUnregistered

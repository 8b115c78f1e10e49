CONSTANTS
  WriteModes = {0, 1}
  Span = 2
  WriteBudget = 2
  Epoch = 10
  MaxWrites = 3
  MaxHeaders = 1
  MaxFailures = 1
  MaxTime = 12
SPECIFICATION FairSpec
INVARIANTS
  NothingLost
  DrainedMeansStored
  SegmentsInTime
PROPERTIES
  ThreadServes

CONSTANTS
  Modulus = 250
  TickRate = 40
  ClockStarts = {0, 246, 249}
  ClockSteps <- Steps
  ClockAdds <- Adds
  ClockCalls = 6
  HistRanges <- Ranges
  HistValues = {1, 3, 6}
  HistEvery = {0, 2}
  HistSizes = {0, 2, 3}
  Word = 16
  HistCalls = 5
  MeterValues = {1, 3}
  Channels = {c1, c2}
  PoolStart = 1
  PoolGrowth = 2
  MeterCalls = 5
  MeterEpoch = 5
  HistoryKeep = 25
  HistoryWaits = {1, 25}
  HistoryCalls = 7
  FrameSizes = {0, 1, 3}
  WriteLengths = {1, 2, 4, 7}
  ReframeBytes = 16
  SizeInitial = 4
  SizeMax = 9
  GrowFactor = 2
  RingWord = 256
  RingLengths = {1, 2}
  RingBytes = 12
SPECIFICATION Spec
CHECK_DEADLOCK FALSE
PROPERTIES
  HistoryKeepsADay

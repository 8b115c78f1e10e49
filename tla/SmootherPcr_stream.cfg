CONSTANTS
  Streams <- AllStreams
  ItemsPerSecond = 1
  GrowBy = 2
  ChunkPackets = 2
  SyncPackets = 3
  MaxScr = 13
  WrapWindow = 2
  JumpTicks = 5
  TicksPerUs = 2
  Latency = 1
  ResyncUs = 2
  Epoch = 20
  MaxTime = 22
  MaxResets = 0
SPECIFICATION FairSpec
INVARIANTS
  StreamIntact
PROPERTIES
  QueuedIsDelivered
  CallsReturn

CONSTANTS
  Streams <- Unsteady
  ItemsPerSecond = 2
  GrowBy = 2
  ChunkPackets = 2
  SyncPackets = 3
  MaxScr = 13
  WrapWindow = 2
  JumpTicks = 5
  TicksPerUs = 2
  Latency = 1
  ResyncUs = 2
  Epoch = 20
  MaxTime = 20
  MaxResets = 1
SPECIFICATION Spec
INVARIANTS
  TypeOK
  ItemsInOnePlace
  CountersMatch
  DeliveredInOrder
  BusySorted
  FreedAfterThread
PROPERTIES
  ImplementsFifo

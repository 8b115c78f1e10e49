CONSTANTS
  Modulus = 512
  TickRate = 10
  Pids = {1, 2, 3, 9}
  NullPid = 9
  PcrWarmup = 1
  PcrLimit = 4
  ScrWrapped = 50
  UdpPackets = 7
  IatSpan = 5
  IatStart = 500
  RingSize = 4
  MinPes = 2
  OrderDepth = 2
  PatMax = 3
  PmtMax = 4
  DescrMax = 2
  ItemExpire = 3
  Half = 16
  FramePackets = 2
  JumpLimit = 2
  RebaseTime = 2
  RtpLatency = 1
  RtpSteps = {1, 100}
  RtpFrames = 4
  RtpTicks = 2
  SeqModulus = 8
  TsModulus = 32
  PerMs = 2
  SeqStart = {0, 5}
  AnalyzerCalls = 7
  VbvSize = 5
  Delay = 2
  ClockBack = 4
  VbvSizes = {2, 3, 6}
  VbvClocks = {0, 1, 3, 5}
  VbvWrites = 5
  VbvTicks = 3
  TsPacket = 5
  RtpHeader = 3
  Datagrams <- Lengths
  UdpCalls = 3
  FlowUnits = {"pes", "demux", "rtp", "analyzer", "vbv", "udp", "queue"}
  PesPackets = 7
  PesOdd = 1
  DemuxPackets = 5
  Consumers = {c1, c2}
  Usec = 2
  Epoch = 5
  MaxPushes = 3
  MaxTime = 6
SPECIFICATION Spec
CHECK_DEADLOCK FALSE
INVARIANTS
  PesArrives
  RtpIsSmoothed
  AnalyzerIsFair
  VbvHoldsStream
  UdpGivesAndStops
  FifoOrder
  CountIsLength
PROPERTIES
  VbvThreadServes
  PopReturns

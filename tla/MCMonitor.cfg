CONSTANTS
  Modulus = 250
  TickRate = 2
  Pids = {0, 1, 2, 3, 9}
  NullPid = 9
  PcrWarmup = 1
  PcrLimit = 2
  ScrWrapped = 20
  UdpPackets = 2
  IatSpan = 5
  IatStart = 100
  SyncLossThreshold = 2
  SyncClear = 5
  SyncWrap = 9
  SyncRestart = 7
  TableTime = 1
  PidSilence = 5
  PmtSlots = 2
  PcrArray = 31
  TsBuffers <- CheckedTs
  TrBuffers <- CheckedTr
  PcrPid = 2
  Models <- CheckedModels
  Found <- CheckedFound
  MaxCalls = 5
  Epoch = 20
  Kinds = {"ts", "ctp", "bytes", "tr", "alarms"}
  NEvents = 1
  AutoClear = 3
  Slack = 1
  Sleep = 2
  AlarmEpoch = 10
  Stamps = {12}
  LastCall = 11
  LastReturn = 12
  MaxTime = 15
  Verdicts = 2
  AlarmCalls = 1
SPECIFICATION MonitorSpec
CHECK_DEADLOCK FALSE
INVARIANTS
  StatsAreRight
  SyncAlarmsFollowRuns
PROPERTIES
  RateIsLastSecond
  ChecksInTime
  NoFalseAlarmAlone
  MonitorServes

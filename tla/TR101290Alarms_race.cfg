CONSTANTS
  NEvents = 1
  AutoClear = 4
  Slack = 1
  Sleep = 2
  AlarmEpoch = 10
  Stamps = {}
  LastCall = 16
  LastReturn = 16
  MaxTime = 20
  Verdicts = 1
  AlarmCalls = 0
SPECIFICATION AlarmSpec
PROPERTIES
  NoFalseAlarm

CONSTANTS
  PatMax = 7
  PmtMax = 3
  DescrMax = 2
  Cells = 2
  SettleTime = 1
  CollectTime = 2
  RescanTime = 3
  SdtMax = 2
  MaxParsers = 2
  Kinds = {"pat", "section", "model"}
  Lineups <- Replaced
  MaxAdds = 4
  MaxPackets = 9
  MaxSwitches = 2
  MaxLosses = 1
SPECIFICATION Spec
CHECK_DEADLOCK FALSE
INVARIANTS
  ObjectsAgree
  SectionsFound
  ModelIsWhole
  ModelBookkeeping
PROPERTIES
  ModelIsCurrent

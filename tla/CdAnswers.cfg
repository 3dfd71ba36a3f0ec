CONSTANTS
  Commands <- MCCommands
  LastSector = 1
  LastTime = 3
  XaSectors = {1}
  TrackStarts = {0, 1}
  LateTrackStarts = {1}
  Modes <- MCModes
  SectorCycles <- MCSectorCycles
  SettleSectors = 1
  ReceiveRunning = 2
  ReceiveStopped = 1
  ReceiveInit = 2
  GetIdSecond = 1
  ReadTocSecond = 1
  StopSecond = 1
  SpinUp = 2
  MinSeek = 1
  SectorsPerCycle = 2
  ReportInterval = 2
SPECIFICATION MCSpec
PROPERTIES Int2KeepsItsLevel
CHECK_DEADLOCK FALSE

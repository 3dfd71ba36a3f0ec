CONSTANTS
  TransferCycles = 3
  AckLowCycles = 2
  Steps <- MCSteps
  Discs <- MCDiscs
  Configs <- MCConfigs
  Sectors = {1}
  SectorLen = 2
  Snapshots <- MCSnapshots
  MaxWrites = 1
SPECIFICATION MCSpec
INVARIANTS TransferScheduled BytesInOrder ReadsReturnWrites SavedOrDirty
PROPERTIES BytesAreSent InterruptsArrive OwnFilesOnly

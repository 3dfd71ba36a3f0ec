CONSTANTS
  Discs <- DottedGames
  Configs <- PerGameConfigs
  Sectors = {1}
  SectorLen = 2
  Snapshots <- MCSnapshots
  MaxWrites = 1
SPECIFICATION CardsSpec
INVARIANTS FilesPerGame

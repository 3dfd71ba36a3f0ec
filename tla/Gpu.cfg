CONSTANTS
  Commands <- MCCommands
  Sizes <- MCSizes
  Pages = {p1, p2}
  XRanges <- MCXRanges
  YRanges <- MCYRanges
  DisplayModes <- MCDisplayModes
  MaxWords = 7
  VRAM_WIDTH = 4
  VRAM_HEIGHT = 4
  TileWidth = 2
  PageWidth = 4
  PageHeight = 2
  SCALED_NATIVE_SYNC_DELAY = 2
  Boxes <- MCBoxes
  Lines <- MCLines
  Textures <- MCTextures
  Blits <- MCBlits
  Copies <- MCCopies
  MaxQueue = 3
SPECIFICATION MCSpec
INVARIANTS PrimitivesFromOwnWords TransfersExact FrameFits TexturesFresh HostReadsRendered

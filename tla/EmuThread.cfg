CONSTANTS
  SwapChainLen = 3
  FrameSamples = 3
  MaxThreshold = 2
  DeviceLen = 2
  MaxCommands = 1
SPECIFICATION Spec
INVARIANTS RendersCounted AudioBounded
PROPERTIES FramesCome StopEnds
CHECK_DEADLOCK FALSE

CONSTANTS
  Max = 3
  CpuClock = 2
  GpuClock <- MCGpuClock
  LineCycles <- MCLineCycles
  Lines <- MCLines
  Div = 2
  ModeWrites <- MCModeWrites
  Targets = {2}
  XRanges <- MCXRanges
  YRanges <- MCYRanges
  Displays <- MCDisplays
  MaxRun = 2
  MaxElapsed = 2
  Spans = {7}
SPECIFICATION MCSpec
INVARIANTS IrqsAreReached

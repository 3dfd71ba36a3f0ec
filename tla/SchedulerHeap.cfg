CONSTANTS
  VBlank = VBlank
  Dma = Dma
  Timer0 = Timer0
  Timer1 = Timer1
  Sio0 = Sio0
  Sio1 = Sio1
  EventTypes = {VBlank, Dma, Timer0, Timer1, Sio0, Sio1}
  Capacity = 6
  MaxCycle = 2
SPECIFICATION Spec
VIEW LiveView
SYMMETRY Interchangeable
INVARIANTS AssertsHold
PROPERTIES ImplementsScheduler

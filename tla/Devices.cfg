CONSTANTS
  RAM_LEN = 32
  CAPTURE_LEN = 2
  U32 = 256
  Addresses = {0, 24}
  Rates = {16384, 0}
  Adsrs <- MCAdsrs
  ReverbRegisters <- MCReverbRegisters
  BITS = 1
  Registers = {0, 1}
  LINK = 1
  Memories <- MCMemories
  StatusValues <- MCStatusValues
  RESET_VECTOR = 0
  EXCEPTION_VECTOR = 4
  BOOT_EXCEPTION_VECTOR = 8
  OPCODES_LEN = 4
  LINE_LEN = 2
  MemoryLen = 8
  Zero = o1
  Opcodes = {o1, o2}
  FIFO_LEN = 4
  Bytes = {0, 1, 2}
  FRAMES_PER_SECOND = 2
  SECONDS_PER_MINUTE = 2
  MAX_MINUTES = 8
  PREGAP <- MCPregap
  HUNK_SECTORS = 2
  Images <- MCImages
SPECIFICATION MCSpec
INVARIANTS VoiceObeys InterruptPerFlag RamInBounds ProgramOrder OnlyOutdated AnswersAnnounced GameKnowsMode AsLaidOut
PROPERTIES Restartable IsQueue

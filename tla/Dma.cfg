CONSTANTS
  Channels <- MCChannels
  Priorities <- MCPriorities
  InterruptWrites <- MCInterruptWrites
  MaxLeft = 2
  Waits = {0, 2}
  MdecOutDelay = 1
  SpuDelay = 1
  NodeDelay = 1
  EmptyNodeDelay = 1
  RetryDelay = 1
SPECIFICATION Spec
INVARIANTS TransferScheduled
PROPERTIES WaitTaken PriorityRespected EndsAreFlagged TransfersEnd

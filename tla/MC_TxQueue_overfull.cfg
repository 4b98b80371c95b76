CONSTANTS
  q1 = q1
  Queues = {q1}
  NoQueue = NoQueue
  Entries = 4
  MaxDescs = 2
  PushFill = 4
  CountSpace = 8
  Starts = {0}
  MaxSkbs <- Skbs
  GoOn = TRUE
SPECIFICATION Spec
INVARIANTS OneDescriptorEmpty
CHECK_DEADLOCK FALSE

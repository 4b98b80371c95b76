CONSTANTS
  q1 = q1
  q2 = q2
  Queues = {q1, q2}
  NoQueue = NoQueue
  Entries = 4
  MaxDescs = 2
  PushFill = 2
  CountSpace = 8
  Starts = {6}
  MaxSkbs <- Skbs
  GoOn = FALSE
SPECIFICATION FairSpec
INVARIANTS TypeOK OneEmptyUnlessOvertaken MappingsOwned PioExclusive AllAnnounced
PROPERTIES Woken
CHECK_DEADLOCK FALSE

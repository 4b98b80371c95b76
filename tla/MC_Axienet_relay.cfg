CONSTANTS
  NumQueues = 2
  TxSize = 4
  RxSize = 2
  MaxFrags = 1
  Quota = 2
  Traffics <- SendOrReceive
  MaxFailures = 1
  MaxMessages = 1
  GoOn = FALSE
SPECIFICATION FairSpec
INVARIANTS TypeOK BdsExact StoppedIsWoken
PROPERTIES ReceivedHandled
CHECK_DEADLOCK FALSE

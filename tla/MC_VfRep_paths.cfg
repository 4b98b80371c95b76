CONSTANTS
  p1 = p1
  p2 = p2
  p3 = p3
  CPUs = {p1, p2, p3}
  NoCPU = NoCPU
  Weight = 2
  IndexSpace = 3
  MaxPackets = 6
  MayClose = TRUE
SPECIFICATION FairSpec
INVARIANTS InOrder RxTriggered
PROPERTIES EventuallyReceived
CHECK_DEADLOCK FALSE

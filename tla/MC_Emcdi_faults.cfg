CONSTANTS
  c1 = c1
  c2 = c2
  Cmds = {c1, c2}
  NoCmd = NoCmd
  MaxRetry = 2
  SeqSpace = 2
  StateAtAlloc = {"QUEUED", "RETRY"}
  RetryAtAlloc = {0}
  Replies = {"OK", "EIO"}
  Repeats = TRUE
  SendFaults = {"noskb", "nomport"}
SPECIFICATION Spec
INVARIANTS NoEarlyFree
SYMMETRY Symmetry
CHECK_DEADLOCK FALSE

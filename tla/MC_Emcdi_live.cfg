CONSTANTS
  c1 = c1
  c2 = c2
  Cmds = {c1, c2}
  NoCmd = NoCmd
  MaxRetry = 1
  SeqSpace = 1
  StateAtAlloc = {"QUEUED"}
  RetryAtAlloc = {255}
  Replies = {"OK"}
  Repeats = TRUE
  SendFaults = {}
SPECIFICATION FairSpec
PROPERTIES FiniTerminates ImplementsRpc
CHECK_DEADLOCK FALSE

CONSTANTS
  c1 = c1
  c2 = c2
  Cmds = {c1, c2}
  NoCmd = NoCmd
  MaxRetry = 3
  SeqSpace = 8
  StateAtAlloc = {"QUEUED"}
  RetryAtAlloc = {0}
  Replies = {"OK"}
  Repeats = FALSE
  SendFaults = {}
SPECIFICATION Spec
PROPERTIES NoLateCompletion
SYMMETRY Symmetry
CHECK_DEADLOCK FALSE

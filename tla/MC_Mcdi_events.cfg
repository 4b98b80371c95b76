CONSTANTS
    s = s
    a = a
    t = t
    Sync = {s}
    Async = {a}
    Atomic = {}
    NoCmd = NoCmd
    SeqSpace = 16
    Settings <- EventedOnly
SPECIFICATION FairSpec
CHECK_DEADLOCK FALSE
INVARIANTS RefsExact FlushedQuiet
PROPERTIES Answered ImplementsRpc

CONSTANTS
    s = s
    a = a
    t = t
    Sync = {s}
    Async = {a}
    Atomic = {t}
    NoCmd = NoCmd
    SeqSpace = 4
    Settings <- PolledOrRefused
SPECIFICATION Spec
CHECK_DEADLOCK FALSE
INVARIANTS TypeOK NoEarlyFree MailIsOwn FailEmpties CalledOnce
PROPERTIES NoLostWakeup FinishedForGood

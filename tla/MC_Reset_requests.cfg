SPECIFICATION FairSpec
CONSTANTS
    Callers = {c1}
    Asked = {"ALL", "MC_BIST"}
    ResetsBeforeDisable = 1
    MaxRequests = 2
    MaxFailures = 1
    MaxEvents = 1
INVARIANTS UpRuns
PROPERTIES Reattached Served
CHECK_DEADLOCK FALSE

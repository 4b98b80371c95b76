CONSTANTS
    PageCount = 2
    PerPage = 2
    PerBatch = 1
    Entries = 8
    RingSize = 8
    MaxFrags = 2
    WriteUnit = 2
    RecycleSize = 2
    CountSpace = 16
    MaxHeld = 2
    Switchdev = FALSE
SPECIFICATION Spec
INVARIANTS TypeOK RefsExact Exclusive PostedMapped RefillDue
CHECK_DEADLOCK FALSE

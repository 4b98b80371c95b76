CONSTANTS
    r1 = r1
    r2 = r2
    k1 = k1
    k2 = k2
    c1 = c1
    c2 = c2
    b1 = b1
    b2 = b2
    m1 = m1
    m2 = m2
    Rules = {r1, r2}
    Keys = {k1, k2}
    Cpus = {c1, c2}
    Binders = {b1, b2}
    Macs = {m1, m2}
    None = None
    MaxChanges = 2
    Settings <- AllSettings
SPECIFICATION FairSpec
CHECK_DEADLOCK FALSE
INVARIANTS TypeOK InUseAllocated RefsExact NicFollows
PROPERTIES Followed

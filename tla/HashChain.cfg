SPECIFICATION Spec
CONSTANTS
    w1 = w1
    w2 = w2
    t1 = t1
    t2 = t2
    Writers <- MCWriters
    Tenants <- MCTenants
    c1 = c1
    c2 = c2
    Contents <- MCContents
    Limit = 2
    MaxRows = 3
    MaxTampers = 1
SYMMETRY MCSymmetry
CHECK_DEADLOCK FALSE
INVARIANTS
    TypeOK
    LinksToOlderRow
    SequentialChainValid
    TamperingReported
    BreakIsAFork

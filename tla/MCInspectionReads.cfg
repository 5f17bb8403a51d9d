SPECIFICATION ReadsSpec
CONSTANTS
    c1 = c1
    c2 = c2
    Callers = {c1, c2}
    Inspections <- MCInspections
    Documents <- MCDocuments
    NameOf <- MCNameOf
    OwnStation <- MCOwnStation
    Asked <- MCAsked
    MaxRecords = 2
    MaxWrites = 3
    MaxBoots = 1
    Limit = 1
    ScanCap = 2
    Window = 1
    Backfill = 2
    CacheMax = 1
SYMMETRY CallerSymmetry
INVARIANTS
    PageAddsUp
    GroundedInScope
PROPERTIES
    KeepsPromise
CHECK_DEADLOCK FALSE

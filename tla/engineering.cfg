SPECIFICATION FairSpec
CONSTANTS
    work = work
    Reservations = {work}
    Work = work
    Lease <- OneLease
    Phases = 2
    PhaseBudget <- OneUnitEach
    MaxCalls <- AllCalls
    Budget = 2
    Unknown = Unknown
    Bill <- FirstCosts
    Workers = {w1, w2}
    w1 = w1
    w2 = w2
    Patches = {x, y}
    Bundles = {x1, x2, y1}
    PatchOf <- TheirPatches
    x = x
    y = y
    x1 = x1
    x2 = x2
    y1 = y1
    None = None
    Slice <- ShortSlice
    Closure <- ShortClosure
    MaxRuns = 2
    MaxFaults = 2
INVARIANTS
    EvidenceTrue
PROPERTIES
    ImplementsDelivery
    
CHECK_DEADLOCK FALSE

SPECIFICATION PartsSpec
CONSTANTS
    Workflows = {w1, w2, w3}
    MaxTokens = 3
    MaxCalls = 2
    MaxSchedules = 5
    MaxControls = 2
    None = None
    Jobs = {w1, w2}
    Operators = {w1, w2}
    Versions = {1, 2, 3}
    Irreversible = {2}
    Capacity = 2
    MaxAge = 1
    Lease = 2
    MaxTime = 2
    MaxStates = 2
    MaxAsks = 2
    MaxFaults = 1
    MaxClock = 3
    MaxDocuments = 5
    MaxPlans = 3
    MaxSlips = 1
    MaxCommits = 1
SYMMETRY Symmetry
INVARIANTS
    HolderUndisturbed
    OneCallPerRunState
    CallsCovered
    DeliveryWithinAuthority
    OneChain
    JournalExplains
PROPERTIES
    ImplementsMeteredCalls
CHECK_DEADLOCK FALSE

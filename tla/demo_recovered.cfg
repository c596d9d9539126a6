SPECIFICATION Spec
CONSTANTS
    Workflows = {w1, w2}
    MaxTokens = 3
    MaxCalls = 2
    MaxSchedules = 4
    MaxControls = 1
SYMMETRY Symmetry
INVARIANTS
    HolderCanReserve
CHECK_DEADLOCK FALSE

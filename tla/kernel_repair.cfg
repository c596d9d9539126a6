SPECIFICATION MCSpec
CONSTANTS
    MaxEvents = 6
    MaxApproval = 1
    MaxSafeInteger = 6
    MaxRevision = 2
    Routes <- ReviewedRoutes
    Budget <- MCBudget
    PhaseCap <- MCPhaseCap
    ExitEvents <- RemediationExitEvents
    HeadBound = {2}
    Actors <- MCActors
    Requester = "ada"
    IndependentGates <- MCIndependentGates
    Events <- LifecycleEvents
    Contexts <- GoodContexts
INVARIANTS
    BoundedRepairAvailable

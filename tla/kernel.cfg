SPECIFICATION MCSpec
CONSTANTS
    MaxEvents = 6
    MaxApproval = 13
    MaxSafeInteger = 12
    MaxRevision = 2
    Routes <- ReviewedRoutes
    Budget <- MCBudget
    PhaseCap <- MCPhaseCap
    ExitEvents <- RepairExitEvents
    HeadBound = {2}
    Actors <- MCActors
    Requester = "ada"
    IndependentGates <- MCIndependentGates
    Events <- AllEvents
    Contexts <- ApprovalContexts
INVARIANTS
    ReceiptsReplayToSnapshot
    NeverWedged
    BudgetsRespected
    AppliedOnce
    CompletionApproved

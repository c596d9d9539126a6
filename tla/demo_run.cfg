SPECIFICATION PartsSpec
CONSTANTS
    Routes <- ReviewedRoutes
    Journey <- ShortJourney
    Workers = {w1, w2}
    MaxVersion = 4
    MaxDeaths = 2
    Openers <- SomeOpeners
    Identities = {"ours", "theirs"}
    Wanted <- SomeWanted
    Format <- SomeFormat
    NoProcess = NoProcess
    NoIdentity = NoIdentity
INVARIANTS
    StoresFollowKernel
    ProvisionedWhole
PROPERTIES
    ImplementsJourney
    
    OpenEnds
CHECK_DEADLOCK FALSE

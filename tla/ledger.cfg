SPECIFICATION Spec
CONSTANTS
  r1 = r1
  r2 = r2
  r3 = r3
  p1 = p1
  p2 = p2
  Reservations = {r1, r2}
  Lease <- SharedLease
  Phases = 2
  PhaseBudget <- OneEach
  MaxCalls <- TwoCalls
  Budget = 2
  Unknown = Unknown
  Processes = {p1, p2}
  Asked <- Competing
  Observed <- OneHistory
  MaxAttempts = 1
  Nothing = Nothing
INVARIANTS OncePerOperation ReleaseCloses SettlementsProven ToldIsDurable LineageWalks
PROPERTIES ImplementsCostPool
SYMMETRY Symmetry

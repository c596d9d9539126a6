SPECIFICATION PartsSpec
CONSTANTS
  r1 = r1
  p1 = p1
  p2 = p2
  s1 = s1
  s2 = s2
  run1 = run1
  run2 = run2
  x = x
  y = y
  Reservations = {r1}
  Lease <- OwnLease
  Phases = 2
  PhaseBudget <- OneEach
  MaxCalls <- TwoCalls
  Budget = 2
  Unknown = Unknown
  Processes = {p1, p2}
  Asks <- FirstPhase
  Stamps = {s1, s2}
  Nothing = Nothing
  Excess = Excess
  Keys = {"key"}
  What = {"this", "that"}
  When = {1, 2}
  Stores <- TwoStores
  Operators = {"operator"}
  Runs = {run1, run2}
  Artifacts = {x, y}
  Foreign = Foreign
  None = None
  MaxPortFaults = 2
  MaxWrites = 2
  MaxEnabled = 2
  MaxObservations = 3
  MaxPushes = 1
  MaxRunFaults = 1
  MaxDrafts = 1
  MaxRevisions = 2
  MaxStarts = 2
INVARIANTS ToldWhatIsStored LookedUpOnce WritersResumeWhole
           GrantSpentOnce PackageTold ClosureUndisturbed
PROPERTIES ImplementsProviderEvidence
SYMMETRY Symmetry
CHECK_DEADLOCK FALSE

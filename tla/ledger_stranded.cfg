SPECIFICATION Spec
CONSTANTS
  r1 = r1
  r2 = r2
  r3 = r3
  p1 = p1
  p2 = p2
  Reservations = {r1}
  Lease <- OwnLease
  Phases = 1
  PhaseBudget <- OneOrTwo
  MaxCalls <- TwoCalls
  Budget = 2
  Unknown = Unknown
  Processes = {p1, p2}
  Asked <- InOrder
  Observed <- InOrderKnown
  MaxAttempts = 1
  Nothing = Nothing
INVARIANTS PresentIsReturned

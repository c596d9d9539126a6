SPECIFICATION FairSpec
CONSTANTS
  e1 = e1
  e2 = e2
  e3 = e3
  Executions = {e1, e2, e3}
  Claimant <- Rivals
  Plan <- RivalPlans
  NoEffect = "nothing"
  Foreign = "foreign"
  MaxAttempts = 2
  MaxRuns = 3
  ReviewComment = TRUE
INVARIANTS WrittenOnce ChainTruthful
PROPERTIES InvocationEnds

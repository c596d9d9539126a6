----------------------------- MODULE CostTerms ------------------------------
(***************************************************************************)
(* The terms the cost ledger, the provider usage ledger and the abstract   *)
(* pool share: the reservations that may be asked for, their phases and    *)
(* budgets, and the provider attempts made under them.  A token budget is  *)
(* checked wherever a cost budget is and is left out.                      *)
(***************************************************************************)
EXTENDS Naturals, FiniteSets, FiniteSetsExt, Functions

CONSTANTS Reservations,  \* every reservation a caller may ask for, or forge
          Lease,         \* the activation lease each one names
          Phases,        \* how many phases PHASE_ORDER has
          PhaseBudget,   \* the cost units each one sets aside for each phase
          MaxCalls,      \* the provider calls each one allows
          Budget,        \* the pool the ledger is opened with
          Unknown        \* the provider did not say what an attempt cost

Phase == 1 .. Phases

ASSUME CostAssumption ==
    /\ IsFiniteSet(Reservations)
    /\ Phases \in Nat
    /\ PhaseBudget \in [Reservations -> [Phase -> Nat]]
    /\ MaxCalls \in [Reservations -> Nat \ {0}]
    /\ Budget \in Nat
    /\ Unknown \notin Nat

\* The cost units r sets aside for the phases in S.
BudgetOf(r, S) == SumFunctionOnSet(PhaseBudget[r], S)
TotalReserved(r) == BudgetOf(r, Phase)

\* An attempt is bound to the hold of its phase and to the number of calls the
\* caller's settlement history makes it.
Attempt == [res: Reservations, phase: Phase, calls: 1 .. Phases]
CostsOf(attempt) == 0 .. PhaseBudget[attempt.res][attempt.phase]
=============================================================================

------------------------------ MODULE CostPool ------------------------------
(***************************************************************************)
(* What the engineering cost ledger promises (ADR 0016 and the             *)
(* EngineeringCostLedger interface of src/durable-engineering-stores.ts):  *)
(* one pool of cost units and an account for each reservation, every       *)
(* operation one indivisible step, and no unit ever made or lost.          *)
(***************************************************************************)
EXTENDS CostTerms, Sequences

VARIABLES pool,     \* the cost units nobody has reserved or spent
          account   \* what became of each reservation

Fresh == [stage |-> "none", held |-> {}, spent |-> <<>>]

Settled(r) == 1 .. Len(account[r].spent)
Unspoken(r) == Phase \ (Settled(r) \cup account[r].held)

Reserve(r) ==
    /\ \A other \in Reservations :
          Lease[other] = Lease[r] => account[other].stage = "none"
    /\ TotalReserved(r) <= pool
    /\ account' = [account EXCEPT ![r].stage = "open"]
    /\ pool' = pool - TotalReserved(r)

Hold(r, phase) ==
    /\ account[r].stage = "open"
    /\ account[r].held = {}
    /\ phase \notin Settled(r)
    /\ account' = [account EXCEPT ![r].held = {phase}]
    /\ UNCHANGED pool

Settle(r, cost) ==
    LET phase == Len(account[r].spent) + 1 IN
    /\ account[r].stage = "open"
    /\ account[r].held = {phase}
    /\ phase <= MaxCalls[r]
    /\ cost \in 0 .. PhaseBudget[r][phase]
    /\ account' = [account EXCEPT ![r] = [stage |-> "open", held |-> {},
                                         spent |-> Append(account[r].spent, cost)]]
    /\ pool' = pool + (PhaseBudget[r][phase] - cost)

\* What was not spent goes back, except what an open hold speaks for.
Release(r) ==
    /\ account[r].stage = "open"
    /\ account' = [account EXCEPT ![r].stage = "released"]
    /\ pool' = pool + BudgetOf(r, Unspoken(r))

PoolInit == pool = Budget /\ account = [r \in Reservations |-> Fresh]

PoolNext == \E r \in Reservations :
    \/ Reserve(r) \/ Release(r)
    \/ \E phase \in Phase : Hold(r, phase)
    \/ \E cost \in 0 .. Budget : Settle(r, cost)

PoolSpec == PoolInit /\ [][PoolNext]_<<pool, account>>

-----------------------------------------------------------------------------
\* What a reservation accounts for: what it spent, what its open hold keeps,
\* and, until its release, the budget of the phases to come.
Owed(r) ==
    SumFunction(account[r].spent)
    + BudgetOf(r, account[r].held)
    + (IF account[r].stage = "open" THEN BudgetOf(r, Unspoken(r)) ELSE 0)

\* ADR 0016: no operation makes or loses a cost unit, at any instant.
BudgetConserved == pool + SumFunction([r \in Reservations |-> Owed(r)]) = Budget
=============================================================================

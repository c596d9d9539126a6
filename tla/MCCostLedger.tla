---------------------------- MODULE MCCostLedger ----------------------------
(***************************************************************************)
(* Small ledgers.  Two processes take a reservation of two phases through  *)
(* everything that may be asked of it, while a second reservation competes *)
(* for its lease and a third for a pool that cannot serve both.            *)
(***************************************************************************)
EXTENDS CostLedger, TLC

CONSTANTS r1, r2, r3, p1, p2

OwnLease == [r \in Reservations |-> r]
SharedLease == [r \in Reservations |-> IF r = r3 THEN "other" ELSE "one"]

OneEach == [r \in Reservations |-> [phase \in Phase |-> IF r = r3 /\ phase > 1 THEN 0 ELSE 1]]
OneOrTwo == [r \in Reservations |-> <<IF r = r3 THEN 1 ELSE 2>>]
TwoCalls == [r \in Reservations |-> 2]

InOrder == {c \in Call : /\ c.op = "hold" => c.sequence = c.phase
                         /\ c.op = "settle" => c.attempt.calls = c.attempt.phase
                         /\ c.op = "release" => c.known \subseteq {c.settled + 1}}
InOrderKnown == {u \in Usage : u.cost # Unknown /\ u.attempt.calls = u.attempt.phase}

\* The first reservation is used to the full; a phase may be held out of turn,
\* and what its call cost may be unknown.
Competing == {c \in InOrder : c.res = r1} \cup {c \in Call : c.op = "reserve"}
             \cup [op : {"hold"}, res : {r1}, phase : {2}, sequence : {1}]
OneHistory == {u \in Usage : /\ u.attempt.res = r1 /\ u.attempt.calls = u.attempt.phase
                              /\ u.cost = Unknown => u.attempt.phase = 2}

Symmetry == Permutations(Processes)
=============================================================================

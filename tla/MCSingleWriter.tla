--------------------------- MODULE MCSingleWriter ---------------------------
(***************************************************************************)
(* A small instance of the Single Writer for TLC: two executions of one    *)
(* claimant with one plan, and a rival with another claimant and another   *)
(* plan under the same key.                                                *)
(***************************************************************************)
EXTENDS SingleWriter

CONSTANTS e1, e2, e3

Rivals == [e \in Executions |-> IF e = e3 THEN "bo" ELSE "ada"]
RivalPlans == [e \in Executions |-> IF e = e3 THEN "another plan" ELSE "plan"]
=============================================================================

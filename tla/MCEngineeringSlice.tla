------------------------- MODULE MCEngineeringSlice -------------------------
(* EngineeringSlice for TLC: two model calls, and three effects before and one after the merge. *)
EXTENDS EngineeringSlice, TLC

CONSTANTS work, w1, w2, x, y, x1, x2, y1

ShortSlice == << Call(1, TRUE), Transition("work-submitted"), Effect(1), Effect(2),
                 Call(2, FALSE), Effect(3), Transition("verification-passed"), Do("park") >>
ShortClosure == << Effect(4), Transition("outcome-accepted") >>

TheirPatches == (x1 :> x) @@ (x2 :> x) @@ (y1 :> y)
OneLease == [r \in Reservations |-> r]
OneUnitEach == [r \in Reservations |-> [phase \in Phase |-> 1]]
AllCalls == [r \in Reservations |-> Phases]
FirstCosts == [phase \in Phase |-> IF phase = 1 THEN 1 ELSE 0]
=============================================================================

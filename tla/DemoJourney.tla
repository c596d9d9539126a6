---------------------------- MODULE DemoJourney -----------------------------
(***************************************************************************)
(* The run of a demo as its readers see it: one position on a journey,     *)
(* which moves in one step with the kernel and with the recovery budget,   *)
(* whatever it takes to record that in four stores.                        *)
(***************************************************************************)
EXTENDS DemoStages

VARIABLE at         \* [core, stage, generation]

Init == at = [core |-> Genesis, stage |-> 1, generation |-> 0]

Complete == /\ at.stage < Len(Journey) /\ Journey[at.stage] = at.core.state
            /\ Journey[at.stage + 1] = at.core.state
            /\ at' = [at EXCEPT !.stage = @ + 1]

HandOver == \E route \in Applicable(at.core) :
                /\ HandsOver(route, at.stage)
                /\ at' = [at EXCEPT !.core = Applied(@, route), !.stage = @ + 1]

\* A stage of the same core state that is completed while a control transition
\* is on its way may be lost: the control goes by the stage it has seen.
Control == \E route \in Applicable(at.core) :
             \E stage \in {s \in 1 .. at.stage : Journey[s] = Journey[at.stage]} :
                /\ KeepsStage(route, stage) \/ SetsBack(route, stage)
                /\ at' = [core |-> Applied(at.core, route),
                          stage |-> StageAfter(route, stage),
                          generation |-> GenerationAfter(route, stage, at.generation)]

Next == Complete \/ HandOver \/ Control
Spec == Init /\ [][Next]_at
=============================================================================

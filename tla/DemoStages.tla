----------------------------- MODULE DemoStages ------------------------------
(***************************************************************************)
(* How the stages of a demo follow the kernel (src/demo-runtime.ts): which *)
(* transition hands a stage over, which leaves it in place, which sets the *)
(* run back to an earlier one, and when that renews the run's authority.   *)
(***************************************************************************)
EXTENDS LifecycleGraph, Sequences

CONSTANT Journey    \* journey.spec.stages: the core state of each stage

\* What the reserved journeys have in common: the stages of a core state follow
\* one another, and control is no stage that is handed over to, or resumed from.
ASSUME JourneyAssumption ==
    /\ Journey \in Seq(States) /\ Journey # <<>>
    /\ \A s \in DOMAIN Journey : Journey[s] \notin {"PAUSED", "BLOCKED"}
    /\ \A i, s \in DOMAIN Journey : i < s /\ Journey[s] # Journey[s - 1] =>
           Journey[i] # Journey[s] /\ Journey[s] \notin {"ACTIVATION_PENDING", "CANCELLED"}

\* The reviewed lifecycle retries only what is blocked.
ASSUME RetryAssumption ==
    \A r \in Routes : r.event = "retry-requested" => r.from = "BLOCKED"

\* What the stages see of a kernel snapshot.
Genesis == [state |-> "CAPTURED", retained |-> None, retries |-> 0]

\* The candidates of any event.
Applicable(core) ==
    {r \in Routes : /\ r.from = core.state
                    /\ RetainedChoice(r.from, r.event) => r.to = core.retained}

Applied(core, route) ==
    [state |-> route.to,
     retained |-> IF route.to \in {"PAUSED", "BLOCKED"} THEN route.from
                  ELSE IF route.from \in {"PAUSED", "BLOCKED"} THEN None ELSE core.retained,
     retries |-> core.retries + (IF route.event = "retry-requested" THEN 1 ELSE 0)]

ControlDestinations == {"ACTIVATION_PENDING", "PAUSED", "BLOCKED", "CANCELLED"}

\* The index of the first stage of a core state, or 0.
FirstStage(state) ==
    LET stages == {i \in DOMAIN Journey : Journey[i] = state}
    IN  IF stages = {} THEN 0 ELSE CHOOSE i \in stages : \A j \in stages : i <= j

\* The stage is handed over to the next one, of another core state.
HandsOver(route, stage) == /\ stage < Len(Journey) /\ Journey[stage] = route.from
                           /\ Journey[stage + 1] = route.to /\ route.to # route.from

\* The run follows a control transition in place, or is set back by it.
Resumes(route, stage) == route.from \in {"PAUSED", "BLOCKED"} /\ route.to = Journey[stage]
KeepsStage(route, stage) == route.to \in ControlDestinations \/ Resumes(route, stage)
SetsBack(route, stage) == ~ KeepsStage(route, stage) /\ FirstStage(route.to) \in 1 .. stage

StageAfter(route, stage) ==
    IF SetsBack(route, stage) THEN FirstStage(route.to) ELSE stage

\* A set back run, and one that leaves BLOCKED alive, gets a new generation.
Renews(route, stage) == \/ SetsBack(route, stage)
                        \/ route.from = "BLOCKED" /\ route.to # "CANCELLED"
GenerationAfter(route, stage, generation) ==
    generation + (IF Renews(route, stage) THEN 1 ELSE 0)
=============================================================================

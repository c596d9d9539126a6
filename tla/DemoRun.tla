------------------------------- MODULE DemoRun -------------------------------
(***************************************************************************)
(* The durable progress of a demo run (completeDemoStage and               *)
(* reconcileDemoRunStateFromKernel of src/demo-runtime.ts) over four       *)
(* stores of src/durable-demo-stores.ts that nothing writes together: the  *)
(* kernel snapshot, the stage receipts, the run state and the recovery     *)
(* budget.  Workers look at the run, evaluate an event, and write one      *)
(* store after the other; another worker moves, or this one dies, between  *)
(* any two writes.  A write whose acknowledgement is lost is read back: it *)
(* counts, or its worker ends as if it had died.                           *)
(***************************************************************************)
EXTENDS DemoStages

CONSTANTS Workers,
          MaxVersion,   \* kernel transitions in all (bound)
          MaxDeaths     \* workers that die in the middle (bound)

VARIABLES
    kernel,    \* the lineage of the kernel: routes applied, snapshots they led to
    receipts,  \* the stage receipts: a predecessor run state -> the next run state
    runs,      \* the lineage of the run-state store, after its genesis
    budgets,   \* the lineage of the recovery budget, after its genesis
    pc,        \* where each worker is
    task,      \* what it does: the run state and budget it saw, its call and route
    deaths
stores == <<kernel, receipts, runs, budgets>>
vars == <<stores, pc, task, deaths>>

\* A run state, at kernel version core; its content is its digest.
FirstRun == [core |-> 0, stage |-> 1, generation |-> 0]
NoRoute == Route(None, None, None, None, {})
Idle == [run |-> FirstRun, budget |-> 0, call |-> "none", route |-> NoRoute]

Snapshot(version) == IF version = 0 THEN Genesis ELSE kernel[version].snapshot
Version == Len(kernel)
StoredRun == IF runs = <<>> THEN FirstRun ELSE runs[Len(runs)]
Budget == IF budgets = <<>> THEN [generation |-> 0, retries |-> 0]
          ELSE [generation |-> budgets[Len(budgets)].generation,
                retries |-> budgets[Len(budgets)].retries]

\* The run state a host reconstructs: the stored one, and the receipts after it.
RunStates == [core : Nat, stage : DOMAIN Journey, generation : Nat]
Current == LET follow[run \in RunStates] ==
                   IF run \in DOMAIN receipts THEN follow[receipts[run]] ELSE run
           IN  follow[StoredRun]

Init ==
    /\ kernel = <<>> /\ runs = <<>> /\ budgets = <<>>
    /\ receipts = [r \in {} |-> FirstRun]
    /\ pc = [w \in Workers |-> "idle"]
    /\ task = [w \in Workers |-> Idle]
    /\ deaths = 0

Goto(w, where) == pc' = [pc EXCEPT ![w] = where] /\ UNCHANGED <<task, deaths>>
End(w) == /\ pc' = [pc EXCEPT ![w] = "idle"] /\ task' = [task EXCEPT ![w] = Idle]
          /\ UNCHANGED deaths

-----------------------------------------------------------------------------
(* The host reconstructs the run and evaluates an event on it. *)

\* The run state belongs to the current snapshot, and any route may be applied
\* to it; or to its predecessor, and the event in between is evaluated again.
Evaluable(run) ==
    IF run.core = Version
    THEN IF Version < MaxVersion THEN Applicable(Snapshot(Version)) ELSE {}
    ELSE {kernel[run.core + 1].route}

\* The dispatcher hands a stage over, or completes it within its core state,
\* only where the journey and the kernel agree; control is the host's to ask.
Calls(run) ==
    {[call |-> "complete", route |-> r] : r \in {r \in Evaluable(run) : HandsOver(r, run.stage)}}
    \cup
    {[call |-> "reconcile", route |-> r] :
        r \in {r \in Evaluable(run) : \/ KeepsStage(r, run.stage)
                                      \/ SetsBack(r, run.stage)}}
    \cup
    (IF /\ run.core = Version /\ run.stage < Len(Journey)
        /\ Journey[run.stage] = Snapshot(Version).state
        /\ Journey[run.stage + 1] = Snapshot(Version).state
     THEN {[call |-> "complete", route |-> NoRoute]} ELSE {})

Look(w) ==
    /\ pc[w] = "idle"
    /\ \E c \in Calls(Current) :
          /\ task' = [task EXCEPT ![w] = [run |-> Current, budget |-> Len(budgets),
                                          call |-> c.call, route |-> c.route]]
          /\ pc' = [pc EXCEPT ![w] = IF c.route = NoRoute THEN "receipt" ELSE "kernel"]
    /\ UNCHANGED <<stores, deaths>>

-----------------------------------------------------------------------------
(* The kernel snapshot comes first. *)

Result(w) == [route |-> task[w].route,
              snapshot |-> Applied(Snapshot(task[w].run.core), task[w].route)]

MayApply(w) == task[w].run.core = Version


AlreadyApplied(w) == task[w].run.core + 1 = Version /\ kernel[Version] = Result(w)

PersistKernel(w) ==
    /\ pc[w] = "kernel"
    /\ \/ MayApply(w) /\ kernel' = Append(kernel, Result(w))
       \/ ~ MayApply(w) /\ AlreadyApplied(w) /\ UNCHANGED kernel
    /\ Goto(w, IF task[w].call = "complete" THEN "receipt" ELSE "budget")
    /\ UNCHANGED <<receipts, runs, budgets>>

\* "Kernel persistence head changed before the applied result was stored".
LoseKernel(w) ==
    /\ pc[w] = "kernel"
    /\ ~ MayApply(w) /\ ~ AlreadyApplied(w)
    /\ End(w)
    /\ UNCHANGED stores

-----------------------------------------------------------------------------
(* Completing a stage: one receipt for each run state. *)

NextStage(w) == LET t == task[w] IN
    [t.run EXCEPT !.core = IF t.route = NoRoute THEN @ ELSE @ + 1, !.stage = @ + 1]

AppendReceipt(w) ==
    /\ pc[w] = "receipt"
    /\ receipts' = [r \in DOMAIN receipts \cup {task[w].run} |->
                       IF r \in DOMAIN receipts THEN receipts[r] ELSE NextStage(w)]
    /\ End(w)
    /\ UNCHANGED <<kernel, runs, budgets>>

-----------------------------------------------------------------------------
(* Following a control transition: the recovery budget, then the run state. *)

NextRun(w) == LET t == task[w] IN
    [core |-> t.run.core + 1, stage |-> StageAfter(t.route, t.run.stage),
     generation |-> GenerationAfter(t.route, t.run.stage, t.run.generation)]

\* nextRecoveryBudget, with its evidence.
Planned(w) == [generation |-> NextRun(w).generation,
               retries |-> Result(w).snapshot.retries,
               receipt |-> task[w].run.core + 1, run |-> task[w].run]

SeenBudget(w) == IF task[w].budget = 0 THEN [generation |-> 0, retries |-> 0]
                 ELSE budgets[task[w].budget]

\* Mutant: only a retry is recorded in the budget.
BudgetDueOnRetry(w) == SeenBudget(w).retries # Result(w).snapshot.retries

BudgetDue(w) == \/ SeenBudget(w).generation # NextRun(w).generation
                \/ SeenBudget(w).retries # Result(w).snapshot.retries

\* "Kernel recovery does not linearly continue the demo budget".
Linear(w) == /\ Planned(w).generation = SeenBudget(w).generation + 1
             /\ Planned(w).retries = SeenBudget(w).retries
                    + (IF task[w].route.event = "retry-requested" THEN 1 ELSE 0)

\* Recorded now, or found recorded, as the head of its lineage.
RecordBudget(w) ==
    /\ pc[w] = "budget"
    /\ \/ ~ BudgetDue(w) /\ UNCHANGED budgets
       \/ /\ BudgetDue(w) /\ Linear(w) /\ task[w].budget = Len(budgets)
          /\ budgets' = Append(budgets, Planned(w))
       \/ /\ BudgetDue(w) /\ Linear(w) /\ task[w].budget # Len(budgets)
          /\ budgets[Len(budgets)] = Planned(w)
          /\ UNCHANGED budgets
    /\ Goto(w, "run")
    /\ UNCHANGED <<kernel, receipts, runs>>

LoseBudget(w) ==
    /\ pc[w] = "budget" /\ BudgetDue(w)
    /\ \/ ~ Linear(w)
       \/ task[w].budget # Len(budgets) /\ budgets[Len(budgets)] # Planned(w)
    /\ End(w)
    /\ UNCHANGED stores

\* Mutant: the run-state store takes whatever comes.
MaySwapAnything(w) == TRUE

MaySwap(w) == StoredRun = task[w].run

SwapRun(w) ==
    /\ pc[w] = "run"
    /\ IF MaySwap(w) THEN runs' = Append(runs, NextRun(w)) ELSE UNCHANGED runs
    /\ End(w)
    /\ UNCHANGED <<kernel, receipts, budgets>>

-----------------------------------------------------------------------------
(* A worker dies or throws; the host brings receipts to the run-state store,  *)
(* which a completed stage does not write.                                    *)

Die(w) == /\ pc[w] # "idle" /\ deaths < MaxDeaths
          /\ pc' = [pc EXCEPT ![w] = "idle"] /\ task' = [task EXCEPT ![w] = Idle]
          /\ deaths' = deaths + 1
          /\ UNCHANGED stores

Mirror == /\ StoredRun \in DOMAIN receipts
          /\ runs' = Append(runs, receipts[StoredRun])
          /\ UNCHANGED <<kernel, receipts, budgets, pc, task, deaths>>

-----------------------------------------------------------------------------
Step(w) == \/ PersistKernel(w) \/ LoseKernel(w) \/ AppendReceipt(w)
           \/ RecordBudget(w) \/ LoseBudget(w) \/ SwapRun(w)

Next == (\E w \in Workers : Look(w) \/ Step(w) \/ Die(w)) \/ Mirror

Spec == Init /\ [][Next]_vars

\* The host calls again after a crash, and what it calls goes on.
FairSpec == /\ Spec /\ WF_vars(Mirror)
            /\ \A w \in Workers : WF_vars(Step(w)) /\ WF_vars(Look(w))

-----------------------------------------------------------------------------
(* Properties. *)

DurableRuns == {FirstRun} \cup {runs[i] : i \in DOMAIN runs}
               \cup {receipts[r] : r \in DOMAIN receipts}

TypeOK ==
    /\ kernel \in Seq([route : Routes,
                       snapshot : [state : States, retained : ActiveStates \cup {None},
                                   retries : Nat]])
    /\ DOMAIN receipts \subseteq RunStates /\ DurableRuns \subseteq RunStates
    /\ budgets \in Seq([generation : Nat, retries : Nat, receipt : Nat, run : RunStates])
    /\ pc \in [Workers -> {"idle", "kernel", "receipt", "budget", "run"}]
    /\ \A w \in Workers : task[w].run \in RunStates /\ task[w].budget \in 0 .. Len(budgets)

\* The kernel leads: no run state is bound to a transition that is not durable, and
\* the current one is never more than one transition behind, so that the event to
\* evaluate again is known.  Every durable run state, superseded ones included,
\* stands at a stage of the core state its snapshot is in, unless control holds it
\* there.  The budget comes before it: no run state has a generation without it, a
\* generation and a retry are counted once, and when the run has caught up with the
\* kernel the budget is exactly the one of this run.
StoresFollowKernel ==
    /\ TypeOK
    /\ Current.core \in {Version, Version - 1}
    /\ \A r \in DurableRuns :
          /\ r.core <= Version
          /\ Snapshot(r.core).state \notin ControlDestinations \cup {"CAPTURED"} =>
                Journey[r.stage] = Snapshot(r.core).state
          /\ r.generation <= Budget.generation
    /\ \A i \in DOMAIN budgets : budgets[i].generation = i
    /\ Current.core = Version =>
          Budget = [generation |-> Current.generation, retries |-> Snapshot(Version).retries]

\* To its readers the run moves stage by stage and transition by transition.
Position == [core |-> Snapshot(Current.core), stage |-> Current.stage,
             generation |-> Current.generation]
Run == INSTANCE DemoJourney WITH at <- Position
ImplementsJourney == Run!Init /\ [][Position' # Position /\ Run!Next]_Position

=============================================================================

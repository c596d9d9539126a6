---------------------------- MODULE DemoSchedule -----------------------------
(***************************************************************************)
(* Scheduling a model stage of a demo run (scheduleDemoDispatch of         *)
(* src/demo-scheduler.ts) over its durable stores                          *)
(* (src/durable-demo-scheduler-stores.ts).  Workflows started for one work *)
(* item race for its fence; the winner reserves its budget, looks again,   *)
(* records a provider attempt, looks once more, calls the model, settles   *)
(* what the call cost and gives the fence back.  Every await is a point    *)
(* where the others move, where the workflow may die or throw, and where   *)
(* the acknowledgement of a write may be lost, landed or not.  Around them *)
(* the host completes stages, and controls and recovers the run.           *)
(***************************************************************************)
EXTENDS Naturals, Sequences

CONSTANTS Workflows,
          MaxTokens, MaxCalls,   \* the limits of the activation lease
          MaxSchedules,          \* calls of scheduleDemoDispatch in all (bound)
          MaxControls            \* kernel control transitions (bound)

ASSUME ScheduleAssumption == MaxTokens \in Nat /\ MaxCalls \in Nat

VARIABLES
    fences,     \* the fence chain of the work item
    ledger,     \* the budget chain: reservations and settlements
    attempts,   \* fences under which a provider attempt is on record
    calls,      \* what the provider did: under which fence, for how much
    artifacts,  \* fences whose stage artifact the host has persisted
    run,        \* the run state: version, generation, the kernel version it is bound to
    kernel,     \* the version of the durable kernel snapshot
    pc,         \* where each workflow is
    seen,       \* what it reconstructed: the length of both chains, the run state
    failed,     \* its call threw
    schedules, controls

stores == <<fences, ledger, attempts, calls, artifacts>>
world == <<run, kernel, controls>>
vars == <<stores, world, pc, seen, failed, schedules>>

\* The provider may bill more than was ever reserved.
Bills == 0 .. MaxTokens + 1

\* The budget of the last entry: tokens used and held, calls used and held.
Genesis == [kind |-> "genesis", fence |-> 0, used |-> 0, held |-> 0, calls |-> 0]
Budget == IF ledger = <<>> THEN Genesis ELSE ledger[Len(ledger)]
Outstanding == Budget.kind = "reservation"
AvailableTokens == MaxTokens - Budget.used - Budget.held
AvailableCalls == MaxCalls - Budget.calls - (IF Outstanding THEN 1 ELSE 0)

\* The ledger's namespace is the authority of the genesis budget.
LedgerGeneration == 0

Acquired(i) == i \in DOMAIN fences /\ fences[i].status = "acquired"
Held == Acquired(Len(fences))
\* A run state that names a fence is running, until a successor replaces it.
Running == \E i \in DOMAIN fences : fences[i].base = run.version

Nothing == [fences |-> 0, ledger |-> 0,
            run |-> [version |-> 0, generation |-> 0, core |-> 0]]

Init ==
    /\ fences = <<>> /\ ledger = <<>> /\ attempts = {} /\ calls = {} /\ artifacts = {}
    /\ run = Nothing.run /\ kernel = 0 /\ controls = 0
    /\ pc = [w \in Workflows |-> "idle"]
    /\ seen = [w \in Workflows |-> Nothing]
    /\ failed = [w \in Workflows |-> FALSE]
    /\ schedules = 0

Goto(w, where) == pc' = [pc EXCEPT ![w] = where] /\ UNCHANGED <<seen, failed, schedules>>

\* A schedule ends, in a result, an exception or a crash: what the workflow
\* knew is gone, what it wrote is not.
End(w) == /\ pc' = [pc EXCEPT ![w] = "idle"]
          /\ seen' = [seen EXCEPT ![w] = Nothing]
          /\ failed' = [failed EXCEPT ![w] = FALSE]
          /\ UNCHANGED schedules

\* The index of the fence the workflow proposes, and of its own once it is there.
Mine(w) == seen[w].fences + 1
OwnFence(w) == Len(fences) = Mine(w) /\ Held /\ fences[Mine(w)].holder = w
OwnReservation(w) == /\ Outstanding /\ Budget.fence = Mine(w)
                     /\ Len(ledger) = seen[w].ledger + 1

-----------------------------------------------------------------------------
(* The host reconstructs the run, and what it dispatches is scheduled. *)

\* Mutant: a run whose last fence is released may be invoked again as it stands.
MayInvokeReleased == run.core = kernel /\ ~ Held

\* A reconstruction needs a run state bound to the kernel; dispatch invokes a
\* model for none that is running.
MayInvoke == run.core = kernel /\ ~ Running

Start(w) ==
    /\ pc[w] = "idle" /\ schedules < MaxSchedules
    /\ MayInvoke
    /\ schedules' = schedules + 1
    /\ IF AvailableCalls >= 1 /\ AvailableTokens >= 1
       THEN /\ seen' = [seen EXCEPT ![w] = [fences |-> Len(fences), ledger |-> Len(ledger),
                                            run |-> run]]
            /\ pc' = [pc EXCEPT ![w] = "acquiring"]
       ELSE UNCHANGED <<pc, seen>>   \* BUDGET_EXHAUSTED
    /\ UNCHANGED <<stores, world, failed>>

\* Mutant: the store compares run states instead of fences.
MayAcquireRunState(w) == seen[w].run = run

\* fencePreconditionHolds: the last fence is released and the proposal continues it.
MayAcquire(w) == ~ Held /\ seen[w].fences = Len(fences)

\* Appended, and the workflow goes on; appended, and the acknowledgement or the
\* readback is lost; or refused, in conflict or before anything was written.
Acquire(w) ==
    /\ pc[w] = "acquiring"
    /\ \/ /\ MayAcquire(w)
          /\ fences' = Append(fences, [status |-> "acquired", holder |-> w,
                                       base |-> seen[w].run.version])
          /\ Goto(w, "fenced") \/ End(w)
       \/ UNCHANGED fences /\ End(w)
    /\ UNCHANGED <<ledger, attempts, calls, artifacts, world>>

ObserveFence(w) ==
    /\ pc[w] = "fenced"
    /\ IF OwnFence(w) THEN Goto(w, "reserving") ELSE End(w)
    /\ UNCHANGED <<stores, world>>

-----------------------------------------------------------------------------
(* The budget. *)

\* transition of a reservation: of the ledger's authority, on the budget the
\* caller saw, after a settlement or on an empty ledger.
MayReserve(w) == /\ seen[w].run.generation = LedgerGeneration
                 /\ seen[w].ledger = Len(ledger)
                 /\ ~ Outstanding

\* The whole remainder is held for one call.
ReservedTokens == AvailableTokens

Reserve(w) ==
    /\ pc[w] = "reserving"
    /\ \/ /\ MayReserve(w)
          /\ ledger' = Append(ledger, [kind |-> "reservation", fence |-> Mine(w),
                                       used |-> Budget.used, held |-> ReservedTokens,
                                       calls |-> Budget.calls])
          /\ Goto(w, "reserved") \/ End(w)
       \/ UNCHANGED ledger /\ End(w)
    /\ UNCHANGED <<fences, attempts, calls, artifacts, world>>

RereadBudget(w) ==
    /\ pc[w] = "reserved"
    /\ IF OwnReservation(w) THEN Goto(w, "refreshing") ELSE End(w)
    /\ UNCHANGED <<stores, world>>

-----------------------------------------------------------------------------
(* Looking again, and the call. *)

\* What a refresh reconstructs is the run this workflow set running, and its budget.
StillRunning(w) == run.core = kernel /\ run = seen[w].run /\ OwnFence(w) /\ OwnReservation(w)

\* Otherwise, or when the deadline, the grant, the lease or the selection is no
\* longer good, the schedule ends with the fence and the hold left behind.
Revalidate(w, next) ==
    /\ (StillRunning(w) /\ Goto(w, next)) \/ End(w)
    /\ UNCHANGED <<stores, world>>

Refresh(w) == pc[w] = "refreshing" /\ Revalidate(w, "beginning")

Begin(w) ==
    /\ pc[w] = "beginning"
    /\ \/ attempts' = attempts \cup {Mine(w)} /\ (Goto(w, "refreshing again") \/ End(w))
       \/ UNCHANGED attempts /\ End(w)
    /\ UNCHANGED <<fences, ledger, calls, artifacts, world>>

RefreshAgain(w) == pc[w] = "refreshing again" /\ Revalidate(w, "invoking")

\* The provider does the work and bills it, whatever comes back.
Invoke(w) ==
    /\ pc[w] = "invoking"
    /\ \E bill \in Bills :
          calls' = calls \cup {[fence |-> Mine(w), base |-> seen[w].run.version,
                                bill |-> bill]}
    /\ pc' = [pc EXCEPT ![w] = "invoked"]
    /\ failed' \in {failed, [failed EXCEPT ![w] = TRUE]}
    /\ UNCHANGED <<fences, ledger, attempts, artifacts, world, seen, schedules>>

-----------------------------------------------------------------------------
(* Usage, settlement, and the release of the fence. *)

\* Mutant: usage nobody knows settles as if the call had been free.
ToldNothing(w) == {0}

\* Mutant: what the provider billed is settled, however much was reserved.
ToldOverrun(w) == {c.bill : c \in {d \in calls : d.fence = Mine(w)}}

\* The usage evidence: what the provider billed, unless it cannot be had, is
\* unknown, or says more than was reserved.
ToldUsage(w) == {b \in {c.bill : c \in {d \in calls : d.fence = Mine(w)}} : b <= Budget.held}

NoUsage(w) ==
    /\ pc[w] = "invoked"
    /\ Goto(w, "releasing failed")
    /\ UNCHANGED <<stores, world>>

MaySettle(w) == OwnReservation(w)

\* Settled and reread; then, if the call failed or came back after the deadline,
\* or brought another stage's artifact, there is nothing to give the host.
Settle(w) ==
    /\ pc[w] = "invoked"
    /\ \/ /\ MaySettle(w)
          /\ \E tokens \in ToldUsage(w) :
                ledger' = Append(ledger, [kind |-> "settlement", fence |-> Mine(w),
                                          used |-> Budget.used + tokens, held |-> 0,
                                          calls |-> Budget.calls + 1])
          /\ \/ ~ failed[w] /\ Goto(w, "releasing")
             \/ Goto(w, "releasing failed")
             \/ End(w)
       \/ UNCHANGED ledger /\ End(w)
    /\ UNCHANGED <<fences, attempts, calls, artifacts, world>>

MayRelease(w) == OwnFence(w)

\* A host that is told of the release persists the artifact, unless it dies first.
Release(w) ==
    /\ pc[w] \in {"releasing", "releasing failed"}
    /\ \/ /\ MayRelease(w)
          /\ fences' = Append(fences, [fences[Mine(w)] EXCEPT !.status = "released"])
          /\ \/ pc[w] = "releasing" /\ artifacts' = artifacts \cup {Mine(w)}
             \/ UNCHANGED artifacts
       \/ UNCHANGED <<fences, artifacts>>
    /\ End(w)
    /\ UNCHANGED <<ledger, attempts, calls, world>>

Die(w) == pc[w] # "idle" /\ End(w) /\ UNCHANGED <<stores, world>>

-----------------------------------------------------------------------------
(* The host: stages are completed; the kernel is controlled, the run recovered. *)

\* completeDemoStage: the artifact of this run state, under its released fence.
CompleteStage ==
    /\ run.core = kernel
    /\ \E i \in artifacts : fences[i].base = run.version
    /\ kernel' \in {kernel, kernel + 1}
    /\ run' = [run EXCEPT !.version = @ + 1, !.core = kernel']
    /\ UNCHANGED <<stores, pc, seen, failed, schedules, controls>>

\* A pause, a block or another event the kernel applies is persisted first ...
Control ==
    /\ controls < MaxControls /\ run.core = kernel
    /\ controls' = controls + 1
    /\ kernel' = kernel + 1
    /\ UNCHANGED <<stores, run, pc, seen, failed, schedules>>

\* UNRESOLVED_RUN_FENCE: a running state waits for the release of its fence.
MayRecover == Running => ~ Held

\* ... and the run state follows it, with a new generation when it recovers.
Recover ==
    /\ run.core # kernel
    /\ MayRecover
    /\ \E generation \in {run.generation, run.generation + 1} :
          run' = [version |-> run.version + 1, generation |-> generation, core |-> kernel]
    /\ UNCHANGED <<stores, kernel, controls, pc, seen, failed, schedules>>

-----------------------------------------------------------------------------

Schedule(w) == \/ Start(w) \/ Acquire(w) \/ ObserveFence(w) \/ Reserve(w) \/ RereadBudget(w)
               \/ Refresh(w) \/ Begin(w) \/ RefreshAgain(w) \/ Invoke(w)
               \/ NoUsage(w) \/ Settle(w) \/ Release(w) \/ Die(w)

Next == (\E w \in Workflows : Schedule(w)) \/ CompleteStage \/ Control \/ Recover

Spec == Init /\ [][Next]_vars

-----------------------------------------------------------------------------
(* Properties. *)

Places == {"idle", "acquiring", "fenced", "reserving", "reserved", "refreshing", "beginning",
           "refreshing again", "invoking", "invoked", "releasing", "releasing failed"}
RunStates == [version : Nat, generation : Nat, core : Nat]

\* The shape of the state; a budget never holds more than its limits leave, as
\* validateDemoBudgetState demands of every entry.
TypeOK ==
    /\ fences \in Seq([status : {"acquired", "released"}, holder : Workflows, base : Nat])
    /\ ledger \in Seq([kind : {"reservation", "settlement"}, fence : Nat, used : 0 .. MaxTokens,
                       held : 0 .. MaxTokens, calls : Nat])
    /\ AvailableTokens >= 0 /\ AvailableCalls >= 0
    /\ attempts \subseteq Nat /\ artifacts \subseteq Nat
    /\ calls \subseteq [fence : Nat, base : Nat, bill : Bills]
    /\ run \in RunStates /\ kernel \in Nat
    /\ pc \in [Workflows -> Places]
    /\ seen \in [Workflows -> [fences : Nat, ledger : Nat, run : RunStates]]
    /\ failed \in [Workflows -> BOOLEAN]

Fenced(w) == pc[w] \notin {"idle", "acquiring"}
Refreshed(w) == pc[w] \in {"beginning", "refreshing again", "invoking", "invoked",
                           "releasing", "releasing failed"}
BeforeSettlement(w) == pc[w] \in {"reserved", "refreshing", "beginning", "refreshing again",
                                  "invoking", "invoked"}

\* From its acquisition to its release nobody disturbs a holder: the fence it
\* took is the last, and what it reserved is the head of the ledger until it
\* settles.  It may have taken the fence for a run state already replaced, but
\* once a refresh has passed the run state stays what it was.
HolderUndisturbed ==
    /\ TypeOK
    /\ \A w \in Workflows :
           /\ Fenced(w) => OwnFence(w)
           /\ BeforeSettlement(w) => OwnReservation(w)
           /\ Refreshed(w) => run = seen[w].run

\* However many workflows race, fail and are started again, one run state has
\* at most one model call.
OneCallPerRunState == \A c, d \in calls : c.base = d.base => c = d

Charged(i) == ledger[i].used - ledger[i - 1].used

\* Every call is paid for: its reservation is still held, or was settled for
\* what the provider billed; and what the host was given is settled.
CallsCovered ==
    /\ \A c \in calls :
          \E i \in DOMAIN ledger :
              /\ ledger[i].fence = c.fence
              /\ \/ i = Len(ledger) /\ ledger[i].kind = "reservation"
                 \/ ledger[i].kind = "settlement" /\ Charged(i) = c.bill
    /\ \A f \in artifacts :
          \E i \in DOMAIN ledger : ledger[i].fence = f /\ ledger[i].kind = "settlement"

\* Scheduling implements metered calls: one open reservation at a time, one
\* call under it, closed for what the call cost.
Metered == INSTANCE MeteredCalls WITH
    Limit <- MaxTokens,
    open <- IF Outstanding THEN {[id |-> Budget.fence, amount |-> Budget.held]} ELSE {},
    called <- {c.fence : c \in calls},
    spent <- Budget.used
ImplementsMeteredCalls == Metered!Spec

\* "none of the fields that digest covers (limits, epoch, generation, lease,
\* work-accord, validity window) change once a run starts"
\* (src/durable-demo-scheduler-stores.ts:26): who holds the fence and has seen
\* the head of a settled ledger can reserve on it.
HolderCanReserve ==
    \A w \in Workflows :
        pc[w] = "reserving" /\ seen[w].ledger = Len(ledger) /\ ~ Outstanding => MayReserve(w)
=============================================================================

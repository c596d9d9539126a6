-------------------------- MODULE EngineeringSlice --------------------------
(***************************************************************************)
(* The engineering slice (runEngineeringSlice, resumeEngineeringAfter-     *)
(* HumanMerge, resumeEngineeringClosure and the effect adapter of          *)
(* src/engineering-slice.ts) over its stores: the cost ledger, which is    *)
(* CostPool here, the kernel, the effect evidence and the checkpoints.     *)
(* Workers run the slice or resume it, each an ordered list of             *)
(* instructions, and each may fail, lose an acknowledgement or die at any  *)
(* of them.                                                                *)
(***************************************************************************)
EXTENDS CostPool

CONSTANTS Workers, Patches, None,
          Bundles, PatchOf,  \* signed bundles, each of a patch and an instant
          Work,          \* the reservation of this work item
          Bill,          \* what the model call of a phase costs
          Slice, Closure,  \* the instructions before and after the human merge
          MaxRuns,       \* how often the slice is started (bound)
          MaxFaults      \* failures, lost acknowledgements and deaths (bound)

VARIABLES
    kernel,    \* the transitions of the kernel, by their keys
    evidence,  \* of each effect: its plan, and the states of its evidence chain
    awaiting,  \* the awaiting-human-merge checkpoints, each with its bundle
    releases,  \* the cost-release checkpoints
    github,    \* the effects that stand at GitHub, in the order they landed
    flight,    \* the writes whose outcome GitHub has not decided
    merged,    \* the pull request is merged by an independent human
    task,      \* what each worker does
    runs, faults
costs == <<pool, account>>
stores == <<costs, kernel, evidence, awaiting, releases>>
world == <<github, flight, merged>>
vars == <<stores, world, task, runs, faults>>

-----------------------------------------------------------------------------
(* The instructions. *)

Transition(event) == [do |-> "transition", event |-> event]
Call(phase, makes) == [do |-> "call", phase |-> phase, makes |-> makes]
Effect(ordinal) == [do |-> "effect", ordinal |-> ordinal]
Do(what) == [do |-> what]

\* runEngineeringSlice behind its reservation, and resumeEngineeringClosure.
ReviewedSlice == <<
    Transition("activation-approved"), Call(1, FALSE), Transition("frame-accepted"),
    Transition("execution-authorized"), Call(2, TRUE), Transition("work-submitted"),
    Effect(1), Effect(2), Effect(3), Effect(4), Call(3, FALSE), Effect(5),
    Transition("verification-passed"), Do("park") >>
ReviewedClosure == <<
    Effect(6), Effect(7), Effect(8), Effect(9), Transition("outcome-accepted") >>

\* resumeEngineeringAfterHumanMerge brings the budget home before it closes.
Resumption == <<Do("pend"), Do("release"), Do("note")>> \o Closure

Program(job) == IF job = "run" THEN Slice ELSE Resumption

Requests == {"activation-approved", "frame-accepted", "execution-authorized",
             "work-submitted", "verification-passed", "outcome-accepted"}
Instruction == [do : {"transition"}, event : Requests]
               \cup [do : {"call"}, phase : Phase, makes : BOOLEAN]
               \cup [do : {"effect"}, ordinal : Nat] \cup [do : {"park"}]
Makes(instruction) == instruction.do = "call" /\ instruction.makes
Requesting(instruction, event) == instruction.do = "transition" /\ instruction.event = event
Submits(instruction) == Requesting(instruction, "work-submitted")

EffectsOf(program) == {program[i].ordinal : i \in {j \in DOMAIN program : program[j].do = "effect"}}
Effects == EffectsOf(Slice) \cup EffectsOf(Closure)

Ascending(program) ==
    \A i, j \in DOMAIN program :
        i < j /\ program[i].do = "effect" /\ program[j].do = "effect" =>
            program[i].ordinal < program[j].ordinal

\* The slice submits what its calls have made before it writes any effect, and parks
\* behind its last; what follows the merge calls no model, and ends with the
\* acceptance.
Programs(slice, closure) ==
    LET first == Cardinality(EffectsOf(slice))
        all == Cardinality(EffectsOf(slice) \cup EffectsOf(closure))
    IN  /\ slice \in Seq(Instruction) /\ slice # <<>>
        /\ closure \in Seq(Instruction) /\ closure # <<>>
        /\ EffectsOf(slice) = 1 .. first /\ Ascending(slice)
        /\ EffectsOf(closure) = first + 1 .. all /\ Ascending(closure)
        /\ \A i \in DOMAIN slice :
              /\ slice[i].do \in {"effect", "park"} => \E j \in 1 .. i - 1 : Submits(slice[j])
              /\ Submits(slice[i]) => /\ \E j \in 1 .. i - 1 : Makes(slice[j])
                                      /\ \A j \in i .. Len(slice) : ~ Makes(slice[j])
              /\ slice[i].do = "park" => i = Len(slice)
              /\ ~ Requesting(slice[i], "outcome-accepted")
        /\ \A i \in DOMAIN closure :
              /\ closure[i].do \in {"transition", "effect"}
              /\ Requesting(closure[i], "outcome-accepted") => i = Len(closure)

ASSUME ProgramAssumption == Programs(Slice, Closure)
ASSUME BundleAssumption == /\ Work \in Reservations /\ None \notin Patches
                           /\ PatchOf \in [Bundles -> Patches]

\* How many transitions there are up to the one an event requests.
Place(event) ==
    LET all == Slice \o Closure
    IN  Cardinality({i \in DOMAIN all : /\ all[i].do = "transition"
                                        /\ \E j \in i .. Len(all) : Requesting(all[j], event)})
CallsBefore(at) == Cardinality({i \in 1 .. at - 1 : Slice[i].do = "call"})

-----------------------------------------------------------------------------
(* The steps of a worker through its program. *)

Idle == [job |-> "none", at |-> 1, step |-> "start", bundle |-> None,
         awaits |-> 0, seen |-> 0, doc |-> 0]

Init ==
    /\ PoolInit
    /\ kernel = <<>> /\ awaiting = <<>> /\ releases = <<>>
    /\ evidence = [k \in Effects |-> [plan |-> None, states |-> <<>>]]
    /\ github = <<>> /\ flight = {} /\ merged = FALSE
    /\ task = [w \in Workers |-> Idle]
    /\ runs = 0 /\ faults = 0

At(w, do, step) ==
    /\ task[w].job # "none"
    /\ task[w].step = step
    /\ Program(task[w].job)[task[w].at].do = do
This(w) == Program(task[w].job)[task[w].at]

Advance(w) == task' = [task EXCEPT
    ![w] = IF task[w].at = Len(Program(task[w].job)) THEN Idle
           ELSE [task[w] EXCEPT !.at = task[w].at + 1, !.step = "start", !.seen = 0]]
Goto(w, step) == task' = [task EXCEPT ![w].step = step]
End(w) == task' = [task EXCEPT ![w] = Idle]

\* The slice catches what it throws and releases; a resumption just throws.
Throw(w) == IF task[w].job = "run" THEN Goto(w, "abandon") ELSE End(w)

Faultless == UNCHANGED <<runs, faults>>
Fault == faults < MaxFaults /\ faults' = faults + 1 /\ UNCHANGED runs

\* The reservation is made or, by another start under the lease, found.
StartRun(w) ==
    /\ task[w].job = "none" /\ runs < MaxRuns
    /\ \/ Reserve(Work)
       \/ account[Work].stage # "none" /\ UNCHANGED costs
    /\ task' = [task EXCEPT ![w].job = "run"]
    /\ runs' = runs + 1
    /\ UNCHANGED <<kernel, evidence, awaiting, releases, world, faults>>

\* The checkpoint, the approval, the lease and the merge are read and agree.
StartResume(w) ==
    /\ task[w].job = "none" /\ merged
    /\ task' = [task EXCEPT ![w] = [Idle EXCEPT !.job = "resume", !.awaits = Len(awaiting),
                                                !.bundle = awaiting[Len(awaiting)]]]
    /\ UNCHANGED <<stores, world>> /\ Faultless

-----------------------------------------------------------------------------
(* The kernel port takes a transition once under its key. *)

\* Mutant: the key leaves out what the transition is evidence of.
KeyOfEvent(w) == [event |-> This(w).event, evidence |-> None]

Key(w) == [event |-> This(w).event,
           evidence |-> CASE This(w).event = "work-submitted" -> PatchOf[task[w].bundle]
                          [] This(w).event = "verification-passed" -> task[w].bundle
                          [] This(w).event = "outcome-accepted" -> task[w].doc
                          [] OTHER -> None]

Follows(w) == Len(kernel) + 1 = Place(This(w).event)

Transit(w) ==
    /\ At(w, "transition", "start")
    /\ \/ /\ \E i \in DOMAIN kernel : kernel[i] = Key(w)
          /\ UNCHANGED kernel
       \/ /\ Follows(w)
          /\ kernel' = Append(kernel, Key(w))
    /\ \/ Advance(w) /\ Faultless
       \/ Throw(w) /\ Fault
    /\ UNCHANGED <<costs, evidence, awaiting, releases, world>>

RefuseTransition(w) ==
    /\ At(w, "transition", "start")
    /\ ~ Follows(w)
    /\ \A i \in DOMAIN kernel : kernel[i] # Key(w)
    /\ Throw(w)
    /\ UNCHANGED <<stores, world>> /\ Faultless

-----------------------------------------------------------------------------
(* A model call: hold the phase, call, settle what the provider says it cost. *)

\* The ledger returns the hold that stands, of whoever took it.
HoldStands(w) == /\ account[Work].stage = "open"
                 /\ account[Work].held = {This(w).phase}

MayHold(w) == /\ account[Work].stage = "open"
              /\ account[Work].held = {}
              /\ This(w).phase \notin Settled(Work)

TakeHold(w) ==
    /\ At(w, "call", "start")
    /\ \/ HoldStands(w) /\ UNCHANGED costs
       \/ Hold(Work, This(w).phase)
    /\ \/ Goto(w, "held") /\ Faultless
       \/ Throw(w) /\ Fault
    /\ UNCHANGED <<kernel, evidence, awaiting, releases, world>>

RefuseHold(w) ==
    /\ At(w, "call", "start")
    /\ ~ HoldStands(w) /\ ~ MayHold(w)
    /\ Throw(w)
    /\ UNCHANGED <<stores, world>> /\ Faultless

\* Two calls of the execution phase need not return the same patch, and the bundle
\* it is signed in carries the instant.
Invoke(w) ==
    /\ At(w, "call", "held")
    /\ \E bundle \in IF This(w).makes THEN Bundles ELSE {task[w].bundle} :
          task' = [task EXCEPT ![w].step = "called", ![w].bundle = bundle]
    /\ UNCHANGED <<stores, world>> /\ Faultless

\* The ledger returns the settlement of this attempt that stands.
SettlementStands(w) == This(w).phase \in Settled(Work)

SettleCall(w) ==
    /\ At(w, "call", "called")
    /\ \/ SettlementStands(w) /\ UNCHANGED costs
       \/ account[Work].held = {This(w).phase} /\ Settle(Work, Bill[This(w).phase])
    /\ \/ Advance(w) /\ Faultless
       \/ Throw(w) /\ Fault
    /\ UNCHANGED <<kernel, evidence, awaiting, releases, world>>

RefuseSettlement(w) ==
    /\ At(w, "call", "called")
    /\ account[Work].stage = "released" /\ ~ SettlementStands(w)
    /\ Throw(w)
    /\ UNCHANGED <<stores, world>> /\ Faultless

\* What a worker of the slice knows it has settled, and holds.
KnownSettled(w) == CallsBefore(task[w].at)

\* The slice has thrown.  A ledger whose lineage is not the caller's refuses; the
\* hold it may have open is kept by the ledger either way.
Abandon(w) ==
    /\ task[w].job = "run" /\ task[w].step = "abandon"
    /\ IF account[Work].stage = "open" /\ Len(account[Work].spent) = KnownSettled(w)
       THEN Release(Work) ELSE UNCHANGED costs
    /\ End(w)
    /\ UNCHANGED <<kernel, evidence, awaiting, releases, world>> /\ Faultless

-----------------------------------------------------------------------------
(* An effect: the evidence claims it before it is written, and says after *)
(* what became of it.                                                     *)

K(w) == This(w).ordinal
States(w) == evidence[K(w)].states
Newest(states) == IF states = <<>> THEN "none" ELSE states[Len(states)]

\* The branch is created before anything of the bundle is in an effect; the commit
\* carries its digest, and what follows the commit it made.
Plan(w) == IF K(w) = 1 THEN None ELSE task[w].bundle

Stands(k, plan) == \E i \in DOMAIN github : github[i] = [ordinal |-> k, plan |-> plan]

\* Mutant: whatever the head of the chain is, the next evidence goes behind it.
AnyEvidence(w) == TRUE

\* conditionalAppend: the next slot of the chain the worker has read is free.
Expected(w) == Len(States(w)) = task[w].seen

Chained(w, state) == evidence' = [evidence EXCEPT
    ![K(w)] = [plan |-> Plan(w), states |-> Append(@.states, state)]]

See(w, step) == task' = [task EXCEPT ![w].step = step, ![w].seen = Len(States(w))]

\* The stored evidence is of this very effect.
Usable(w) == States(w) # <<>> => evidence[K(w)].plan = Plan(w)

Replays(w) == Newest(States(w)) = "completed" /\ Stands(K(w), Plan(w))
MayClaim(w) == Newest(States(w)) \in {"none", "rejected"}


Reconciles(w) == Newest(States(w)) \in {"pending", "partial"} /\ Stands(K(w), Plan(w))

ReadEvidence(w) ==
    /\ At(w, "effect", "start")
    /\ IF ~ Usable(w) THEN Throw(w)
       ELSE \/ Replays(w) /\ Advance(w)
            \/ MayClaim(w) /\ See(w, "claim")
            \/ Reconciles(w) /\ See(w, "reconcile")
            \/ ~ Replays(w) /\ ~ MayClaim(w) /\ ~ Reconciles(w) /\ Throw(w)
    /\ UNCHANGED <<stores, world>> /\ Faultless

Claim(w) ==
    /\ At(w, "effect", "claim") /\ Expected(w)
    /\ Chained(w, "pending")
    /\ \/ /\ task' = [task EXCEPT ![w].step = "write", ![w].seen = @ + 1]
          /\ Faultless
       \/ Throw(w) /\ Fault
    /\ UNCHANGED <<costs, kernel, awaiting, releases, world>>

Reconcile(w) ==
    /\ At(w, "effect", "reconcile") /\ Expected(w)
    /\ Chained(w, "completed")
    /\ \/ Advance(w) /\ Faultless
       \/ Throw(w) /\ Fault
    /\ UNCHANGED <<costs, kernel, awaiting, releases, world>>

\* "another writer won the effect evidence CAS"
LoseEvidence(w) ==
    /\ \E step \in {"claim", "reconcile"} : At(w, "effect", step)
    /\ ~ Expected(w)
    /\ Throw(w)
    /\ UNCHANGED <<stores, world>> /\ Faultless

Write(w) ==
    /\ At(w, "effect", "write")
    /\ flight' = flight \cup {[ordinal |-> K(w), plan |-> Plan(w)]}
    /\ Goto(w, "written")
    /\ UNCHANGED <<stores, github, merged>> /\ Faultless

InFlight(w) == [ordinal |-> K(w), plan |-> Plan(w)] \in flight

\* The effect is observed exactly as it was applied and recorded complete, or the
\* write is in doubt.
Complete(w) ==
    /\ At(w, "effect", "written") /\ ~ InFlight(w)
    /\ IF Stands(K(w), Plan(w)) /\ Expected(w)
       THEN /\ Chained(w, "completed")
            /\ \/ Advance(w) /\ Faultless
               \/ Goto(w, "doubt") /\ Fault
       ELSE Goto(w, "doubt") /\ UNCHANGED evidence /\ Faultless
    /\ UNCHANGED <<costs, kernel, awaiting, releases, world>>

\* The catch of the adapter: rejected if nothing was attempted, else partial.
Excuse(w) ==
    /\ \E step \in {"refuse", "doubt"} : At(w, "effect", step)
    /\ IF Expected(w)
       THEN Chained(w, IF task[w].step = "refuse" THEN "rejected" ELSE "partial")
       ELSE UNCHANGED evidence
    /\ Throw(w)
    /\ UNCHANGED <<costs, kernel, awaiting, releases, world>> /\ Faultless

-----------------------------------------------------------------------------
(* The checkpoints. *)

\* putAwaitingHumanMerge, the last instruction of the slice.
Park(w) ==
    /\ At(w, "park", "start")
    /\ awaiting' = Append(awaiting, task[w].bundle)
    /\ \/ Advance(w) /\ Faultless
       \/ Throw(w) /\ Fault
    /\ UNCHANGED <<costs, kernel, evidence, releases, world>>

Jump(w, to, doc) == task' = [task EXCEPT ![w].at = to, ![w].doc = doc, ![w].step = "start"]
LastRelease == IF releases = <<>> THEN [awaits |-> 0, freed |-> FALSE] ELSE releases[Len(releases)]

\* The checkpoint that is there decides what is left to do.
ReadRelease(w) ==
    /\ At(w, "pend", "start")
    /\ IF releases = <<>> THEN Goto(w, "put")
       ELSE IF LastRelease.awaits # task[w].awaits THEN Throw(w)
       ELSE Jump(w, IF LastRelease.freed THEN 4 ELSE 2, IF LastRelease.freed THEN Len(releases) ELSE 0)
    /\ UNCHANGED <<stores, world>> /\ Faultless

\* putCostRelease goes behind the head of the moment, not the one that was read.
PutPending(w) ==
    /\ At(w, "pend", "put")
    /\ releases' = Append(releases, [awaits |-> task[w].awaits, freed |-> FALSE])
    /\ \/ Advance(w) /\ Faultless
       \/ Throw(w) /\ Fault
    /\ UNCHANGED <<costs, kernel, evidence, awaiting, world>>

ReleaseCosts(w) ==
    /\ At(w, "release", "start")
    /\ IF Len(account[Work].spent) # Phases THEN Throw(w) /\ UNCHANGED costs /\ Faultless
       ELSE /\ \/ Release(Work)
               \/ account[Work].stage = "released" /\ UNCHANGED costs
            /\ \/ Advance(w) /\ Faultless
               \/ Throw(w) /\ Fault
    /\ UNCHANGED <<kernel, evidence, awaiting, releases, world>>

PutReleased(w) ==
    /\ At(w, "note", "start")
    /\ releases' = Append(releases, [awaits |-> task[w].awaits, freed |-> TRUE])
    /\ \/ Jump(w, task[w].at + 1, Len(releases) + 1) /\ Faultless
       \/ Throw(w) /\ Fault
    /\ UNCHANGED <<costs, kernel, evidence, awaiting, world>>

-----------------------------------------------------------------------------
(* What happens around the workers. *)

\* A check, a store, the model or GitHub fails before the step takes effect.
Fail(w) ==
    /\ task[w].job # "none" /\ task[w].step # "abandon"
    /\ CASE At(w, "effect", "write") -> Goto(w, "refuse")
         [] At(w, "effect", "written") -> Goto(w, "doubt")
         [] OTHER -> Throw(w)
    /\ Fault
    /\ UNCHANGED <<stores, world>>

Die(w) == /\ task[w].job # "none" /\ End(w) /\ Fault
          /\ UNCHANGED <<stores, world>>

\* GitHub decides a write, maybe after its caller has given up.
Decide == /\ \E write \in flight :
                 /\ flight' = flight \ {write}
                 /\ \/ github' = Append(github, write) /\ Faultless
                    \/ UNCHANGED github /\ Fault
          /\ UNCHANGED <<stores, merged, task>>

\* The approval a merge needs is of the review the checkpoint names.
Merge == /\ awaiting # <<>> /\ ~ merged
         /\ merged' = TRUE
         /\ UNCHANGED <<stores, github, flight, task>> /\ Faultless

Step(w) ==
    \/ Transit(w) \/ RefuseTransition(w)
    \/ TakeHold(w) \/ RefuseHold(w) \/ Invoke(w) \/ SettleCall(w) \/ RefuseSettlement(w)
    \/ Abandon(w)
    \/ ReadEvidence(w) \/ Claim(w) \/ Reconcile(w) \/ LoseEvidence(w) \/ Write(w)
    \/ Complete(w) \/ Excuse(w)
    \/ Park(w) \/ ReadRelease(w) \/ PutPending(w) \/ ReleaseCosts(w) \/ PutReleased(w)

Next == \/ \E w \in Workers : StartRun(w) \/ StartResume(w)
                              \/ Step(w) \/ Fail(w) \/ Die(w)
        \/ Decide \/ Merge

Spec == Init /\ [][Next]_vars

\* GitHub answers, a resumption is started again, and what is started goes on.
FairSpec == /\ Spec /\ WF_vars(Decide)
            /\ \A w \in Workers : WF_vars(Step(w)) /\ WF_vars(StartResume(w))

-----------------------------------------------------------------------------
(* Properties. *)

Written(k) == \E i \in DOMAIN github : github[i].ordinal = k
Flying(k) == \E write \in flight : write.ordinal = k

TypeOK ==
    /\ \A k \in Effects : /\ evidence[k].plan \in Bundles \cup {None}
                          /\ evidence[k].states \in
                                 Seq({"pending", "rejected", "partial", "completed"})
    /\ awaiting \in Seq(Bundles)
    /\ releases \in Seq([awaits : DOMAIN awaiting, freed : BOOLEAN])
    /\ flight \subseteq [ordinal : Effects, plan : Bundles \cup {None}]
    /\ merged \in BOOLEAN
    /\ \A w \in Workers : /\ task[w].job \in {"none", "run", "resume"}
                          /\ task[w].seen \in Nat /\ task[w].doc \in 0 .. Len(releases)

\* Whoever reads the evidence of an effect may believe it: it was written before
\* the effect was, an effect that is not there or rejected has no write that
\* could still land, and one that is completed stands as it was planned.
EvidenceTrue ==
    /\ TypeOK
    /\ \A k \in Effects :
          /\ Newest(evidence[k].states) \in {"none", "rejected"} => ~ Written(k) /\ ~ Flying(k)
          /\ Newest(evidence[k].states) = "completed" => Stands(k, evidence[k].plan)

SliceEffectCount == Cardinality(EffectsOf(Slice))
SubmittedPatch == LET done == {i \in DOMAIN kernel : kernel[i].event = "work-submitted"}
                  IN  IF done = {} THEN None ELSE kernel[CHOOSE i \in done : TRUE].evidence

\* A first effect that has no patch in its plan is of the one patch there is.
Shown == [patch |-> SubmittedPatch,
          written |-> [i \in DOMAIN github |->
              IF github[i].ordinal # i THEN None
              ELSE IF i = 1 THEN SubmittedPatch ELSE PatchOf[github[i].plan]],
          merged |-> merged, freed |-> account[Work].stage = "released",
          accepted |-> \E i \in DOMAIN kernel : kernel[i].event = "outcome-accepted"]

Delivery == INSTANCE EngineeringDelivery WITH
    delivery <- Shown, SliceEffects <- SliceEffectCount, AllEffects <- Cardinality(Effects)

\* However workers race, die and resume, the work item is delivered once: one
\* patch, its effects in order, closed only after the merge and the release.
ImplementsDelivery == Delivery!Init /\ [][Shown' # Shown /\ Delivery!Next]_Shown

\* What the code never takes up again: an effect that may or may not have been
\* written, and a release that is pending under a checkpoint another start of the
\* slice has put a newer one behind.
InDoubt == \E k \in Effects : Newest(evidence[k].states) \in {"pending", "partial"}
                              /\ ~ Written(k) /\ ~ Flying(k)
Superseded == releases # <<>> /\ LastRelease.awaits # Len(awaiting)

=============================================================================

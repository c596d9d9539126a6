--------------------------- MODULE ControlKernel ---------------------------
(* The Control Kernel (src/kernel.ts): one immutable snapshot, one event and  *)
(* one evaluation context in; an applied transition, an idempotent no-op or a *)
(* refusal out. Events reach it late, twice, reordered, or forged with the    *)
(* identity of another one, and the context offered with an event may be      *)
(* stale: both are chosen freely from Events and Contexts at every step.      *)
(*                                                                            *)
(* A digest is injective, so it is represented by what it is a digest of: an  *)
(* event by itself, the authority bundle of an Accord by its revision, a      *)
(* Phase Contract and its compiled policy by the active state they own, and   *)
(* the receipt of a transition by its stateVersion.                           *)
EXTENDS Lifecycle, Integers, Sequences

CONSTANTS
    MaxSafeInteger,     \* Number.MAX_SAFE_INTEGER
    MaxRevision,        \* Work Accord revisions are 1..MaxRevision
    Budget,             \* workAccord.budget of each revision
    PhaseCap,           \* the phase, Domain Pack and enterprise ceilings of each phase
    ExitEvents,         \* the events of each Phase Contract's exit rules
    HeadBound,          \* the revisions whose binding.currentHead is not null
    Actors,             \* the actors whose identity satisfies the policy
    Requester,          \* context.requesterId
    IndependentGates,   \* policy.independentGates
    Events,             \* the events offered to the kernel
    Contexts            \* the evaluation contexts offered with them

VARIABLES
    state,              \* the fields of KernelSnapshot
    stateVersion, lastEventSequence, accord, authority, receiptHead,
    suspendedState, recoveryState, usage, phaseUsage, routeAttempts,
    processedEvents,
    receipts            \* the receipts returned by applied transitions, in order

position  == <<state, authority, suspendedState, recoveryState>>
counters  == <<usage, phaseUsage, routeAttempts>>
history   == <<stateVersion, lastEventSequence, receiptHead, processedEvents, receipts>>
vars      == <<position, accord, counters, history>>

----------------------------------------------------------------------------
Revisions  == 1..MaxRevision
Usage      == [units: Nat, loops: Nat, retries: Nat]   \* units: calls, tokens, costUnits
EmptyUsage == [units |-> 0, loops |-> 0, retries |-> 0]

Actor == [id: STRING, class: ActorClasses]
Human(actor) == actor.class \notin {"system", "policy"}

KernelEvent == [id: Nat, delivery: Nat, type: EventTypes, actor: Actor,
                sequence: Nat, expected: Nat, units: Nat, loops: Nat,
                replacement: Nat]           \* 0: no replacement authority

Lease == [accord: Nat, phases: SUBSET ActiveStates, units: Nat, approver: STRING,
          status: {"current", "revoked", "expired", "absent"}]
NoLease == [accord |-> 0, phases |-> {}, units |-> 0, approver |-> None,
            status |-> "absent"]

\* fresh stands for evidence.valid, the identity rules and the validity window.
GateEvidence == [gate: Gates, actor: Actor, accord: Nat, lease: Lease, fresh: BOOLEAN]

KernelContext == [accord: Nat, lease: Lease, gates: SUBSET GateEvidence,
                  requirementsMet: BOOLEAN, retryableFailure: BOOLEAN,
                  replacement: Nat]

ASSUME KernelAssumption ==
    /\ MaxSafeInteger \in Nat /\ MaxRevision \in Nat \ {0}
    /\ Budget \in [Revisions -> Usage]
    /\ PhaseCap \in [ActiveStates -> [units: Nat, loops: Nat]]
    /\ ExitEvents \in [ActiveStates -> SUBSET EventTypes]
    /\ HeadBound \subseteq Revisions
    /\ Actors \subseteq Actor
    /\ Events \subseteq KernelEvent
    /\ Contexts \subseteq KernelContext

----------------------------------------------------------------------------
(* Budgets *)

Within(used, limit) ==
    /\ used.units <= limit.units
    /\ used.loops <= limit.loops
    /\ used.retries <= limit.retries

Lesser(a, b) == IF a <= b THEN a ELSE b

\* compilePolicy: every effective limit is the least of the ceilings on it.
EffectiveLimits(revision, phase) ==
    [units   |-> Lesser(Budget[revision].units, PhaseCap[phase].units),
     loops   |-> Lesser(Budget[revision].loops, PhaseCap[phase].loops),
     retries |-> Budget[revision].retries]

AddUsage(used, e) ==
    [units   |-> used.units + e.units,
     loops   |-> used.loops + e.loops,
     retries |-> used.retries + IF e.type = "retry-requested" THEN 1 ELSE 0]

Representable(used) == \A field \in DOMAIN used : used[field] <= MaxSafeInteger

----------------------------------------------------------------------------
(* Phase authority *)

\* The authority the snapshot must carry: the phase it is in, or the phase it
\* will go back to, or the only one an outcome is accepted in.
ExpectedAuthority ==
    LET owners == {r.from : r \in {x \in Routes : x.to = "COMPLETED"}} \cap ActiveStates
    IN  CASE state \in ActiveStates -> state
          [] state = "PAUSED"       -> suspendedState
          [] state = "BLOCKED"      -> recoveryState
          [] state = "COMPLETED" /\ Cardinality(owners) = 1 -> CHOOSE s \in owners : TRUE
          [] OTHER                  -> None

CurrentAuthorityHolds ==
    IF authority = None THEN state \in NullAuthorityStates
    ELSE authority = ExpectedAuthority

DestinationAuthority(r) ==
    IF r.to \in {"ACTIVATION_PENDING", "CANCELLED"} THEN None
    ELSE IF r.to \in ActiveStates THEN r.to ELSE authority

EntersNewPhase(r) ==
    DestinationAuthority(r) # None /\ DestinationAuthority(r) # authority
ExitsPhase(r) ==
    authority # None /\ (EntersNewPhase(r) \/ r.to = "COMPLETED")

\* The exit rule, and current evidence for it and for the entry requirements.
PhaseRequirementsHold(e, c, r) ==
    /\ ExitsPhase(r) => e.type \in ExitEvents[authority]
    /\ ExitsPhase(r) \/ EntersNewPhase(r) => c.requirementsMet

\* A snapshot's lifecycle semantics (validateSnapshotLifecycleSemantics).
SemanticsHold(s, auth, suspended, recovery) ==
    /\ (auth = None) <=> (s \in NullAuthorityStates)
    /\ s = "PAUSED"  => suspended \in ActiveStates
    /\ s = "BLOCKED" => recovery  \in ActiveStates

----------------------------------------------------------------------------
(* Human authority *)

\* Mutant: the requester may pass an independent gate.
GateApprovedByAnyone(gate, actor, c) ==
    \E ev \in c.gates :
        /\ ev.gate = gate /\ ev.actor = actor
        /\ ev.fresh /\ Human(actor)
        /\ ev.accord = accord
        /\ gate = "activate" => c.lease # NoLease /\ ev.lease = c.lease
        /\ gate = "approve-current-head" => accord \in HeadBound

GateApproved(gate, actor, c) ==
    \E ev \in c.gates :
        /\ ev.gate = gate /\ ev.actor = actor
        /\ ev.fresh /\ Human(actor)
        /\ gate \in IndependentGates => actor.id # Requester
        /\ ev.accord = accord
        /\ gate = "activate" => c.lease # NoLease /\ ev.lease = c.lease
        /\ gate = "approve-current-head" => accord \in HeadBound

ActorAuthorized(e, c, r) ==
    /\ e.actor \in Actors /\ e.actor.class \in r.classes
    /\ r.gate # None => GateApproved(r.gate, e.actor, c)

\* Every route into an active phase needs a lease that covers it and the
\* approval of the human who signed that lease. phases also stands for the
\* phases whose compiled capabilities and parallelism the lease allows.
LeaseAuthorized(c, r) ==
    r.to \in ActiveStates =>
        /\ c.lease # NoLease /\ c.lease.accord = accord
        /\ c.lease.status = "current"
        /\ r.to \in c.lease.phases
        /\ \E approver \in Actors :
               /\ approver.id = c.lease.approver
               /\ GateApproved("activate", approver, c)

LeaseCovers(e, c, r, used) ==
    IF r.to \in CostBearingStates THEN used.units <= c.lease.units
                                  ELSE e.units = 0

----------------------------------------------------------------------------
(* Evaluation *)

Seen(e)      == \E p \in processedEvents : p.event.id = e.id
Duplicate(e) == \E p \in processedEvents : p.event = e

\* Mutant: a delivery may carry a second event.
OrderedIgnoringDelivery(e) ==
    ~Seen(e) /\ e.expected = stateVersion /\ e.sequence > lastEventSequence

\* The event is new, and addressed to exactly this version of the snapshot.
Ordered(e) ==
    /\ ~Seen(e)
    /\ \A p \in processedEvents : p.event.delivery # e.delivery
    /\ e.expected = stateVersion
    /\ e.sequence > lastEventSequence

RetryAllowed(e, c, r) ==
    r.retryable =>
        /\ routeAttempts[r] + 1 <= Lesser(r.maxAttempts, MaxSafeInteger)
        /\ e.type = "retry-requested" => c.retryableFailure

Rebinds(e) == e.type = "binding-revalidated"

\* Replacement authority comes only with its own event, from a trusted actor,
\* and supersedes the current revision by exactly one.
RebindValid(e, c) ==
    IF Rebinds(e)
    THEN /\ c.replacement # 0 /\ e.replacement = c.replacement
         /\ ~Human(e.actor)
         /\ accord + 1 <= MaxSafeInteger /\ c.replacement = accord + 1
         /\ c.replacement \in Revisions
    ELSE c.replacement = 0

NextUsage(e)         == AddUsage(usage, e)
NextPhaseUsage(e, r) == AddUsage(IF EntersNewPhase(r) THEN EmptyUsage ELSE phaseUsage, e)
NextAccord(e, c)     == IF Rebinds(e) THEN c.replacement ELSE accord

\* Mutant: a rebind is checked against the Accord it replaces.
BudgetsHoldBeforeRebind(e, c, r) ==
    LET effective == IF DestinationAuthority(r) # None THEN DestinationAuthority(r)
                                                       ELSE authority
    IN  /\ Representable(NextUsage(e)) /\ Representable(NextPhaseUsage(e, r))
        /\ stateVersion + 1 <= MaxSafeInteger
        /\ Within(NextUsage(e), Budget[accord])
        /\ effective # None =>
               Within(NextPhaseUsage(e, r), EffectiveLimits(accord, effective))
        /\ LeaseCovers(e, c, r, NextUsage(e))

BudgetsHold(e, c, r) ==
    LET effective == IF DestinationAuthority(r) # None THEN DestinationAuthority(r)
                                                       ELSE authority
    IN  /\ Representable(NextUsage(e)) /\ Representable(NextPhaseUsage(e, r))
        /\ stateVersion + 1 <= MaxSafeInteger
        /\ Within(NextUsage(e), Budget[NextAccord(e, c)])
        /\ effective # None =>
               Within(NextPhaseUsage(e, r), EffectiveLimits(accord, effective))
        /\ LeaseCovers(e, c, r, NextUsage(e))

\* Mutant: resuming keeps the suspended state.
NextSuspendedKept(r) == IF r.to = "PAUSED" THEN r.from ELSE suspendedState

NextSuspended(r) ==
    IF r.to = "PAUSED" THEN r.from ELSE IF r.from = "PAUSED" THEN None ELSE suspendedState
NextRecovery(r) ==
    IF r.to = "BLOCKED" THEN r.from ELSE IF r.from = "BLOCKED" THEN None ELSE recoveryState

Selected(e) == Candidates(state, e.type, suspendedState, recoveryState)

Accepts(e, c, r) ==
    /\ SemanticsHold(state, authority, suspendedState, recoveryState)
    /\ c.accord = accord
    /\ CurrentAuthorityHolds
    /\ Selected(e) = {r}
    /\ LeaseAuthorized(c, r)
    /\ PhaseRequirementsHold(e, c, r)
    /\ ActorAuthorized(e, c, r)
    /\ RebindValid(e, c)
    /\ RetryAllowed(e, c, r)
    /\ BudgetsHold(e, c, r)
    /\ SemanticsHold(r.to, DestinationAuthority(r), NextSuspended(r), NextRecovery(r))

Outcome(e, c) ==
    IF Duplicate(e) THEN "noop"
    ELSE IF Ordered(e) /\ \E r \in Selected(e) : Accepts(e, c, r) THEN "applied"
    ELSE "refused"

\* Mutant: a receipt names the Accord it moves to as the one it starts from.
ReceiptOfReplacement(e, c, r) ==
    [event |-> e, route |-> r, stateVersion |-> stateVersion + 1,
     previousReceipt |-> receiptHead,
     accord |-> NextAccord(e, c), destinationAccord |-> NextAccord(e, c),
     authority |-> authority, destinationAuthority |-> DestinationAuthority(r)]

ReceiptType ==
    [event: Events, route: Routes, stateVersion: Nat, previousReceipt: Nat,
     accord: Revisions, destinationAccord: Revisions,
     authority: ActiveStates \cup {None}, destinationAuthority: ActiveStates \cup {None}]

Receipt(e, c, r) ==
    [event |-> e, route |-> r, stateVersion |-> stateVersion + 1,
     previousReceipt |-> receiptHead,
     accord |-> accord, destinationAccord |-> NextAccord(e, c),
     authority |-> authority, destinationAuthority |-> DestinationAuthority(r)]

----------------------------------------------------------------------------
(* createInitialSnapshot *)
Init ==
    /\ state = "CAPTURED" /\ stateVersion = 0 /\ lastEventSequence = 0
    /\ accord = 1 /\ authority = None /\ receiptHead = 0
    /\ suspendedState = None /\ recoveryState = None
    /\ usage = EmptyUsage /\ phaseUsage = EmptyUsage
    /\ routeAttempts = [r \in Routes |-> 0]
    /\ processedEvents = {} /\ receipts = << >>

Apply(e, c, r) ==
    /\ Accepts(e, c, r)
    /\ state' = r.to
    /\ stateVersion' = stateVersion + 1
    /\ lastEventSequence' = e.sequence
    /\ accord' = NextAccord(e, c)
    /\ authority' = DestinationAuthority(r)
    /\ receiptHead' = stateVersion + 1
    /\ suspendedState' = NextSuspended(r)
    /\ recoveryState' = NextRecovery(r)
    /\ usage' = NextUsage(e)
    /\ phaseUsage' = NextPhaseUsage(e, r)
    /\ routeAttempts' = IF r.retryable THEN [routeAttempts EXCEPT ![r] = @ + 1]
                                       ELSE routeAttempts
    /\ processedEvents' = processedEvents \cup {[event |-> e, receipt |-> stateVersion + 1]}
    /\ receipts' = Append(receipts, Receipt(e, c, r))

\* The caller keeps the snapshot it had: after a no-op or a refusal of an event
\* that is not the next one, whatever the context, and after any other refusal.
Dismiss(e) == ~Ordered(e) /\ UNCHANGED vars
Refuse(e, c) == Outcome(e, c) = "refused" /\ UNCHANGED vars

Next == \E e \in Events :
            \/ Dismiss(e)
            \/ /\ Ordered(e)
               /\ \E c \in Contexts :
                     \/ Refuse(e, c)
                     \/ \E r \in Selected(e) : Apply(e, c, r)

Spec == Init /\ [][Next]_vars

----------------------------------------------------------------------------
(* Properties *)

\* Every field of the snapshot and every emitted receipt has its type.
TypeOK ==
    /\ state \in States
    /\ stateVersion \in 0..MaxSafeInteger /\ lastEventSequence \in Nat
    /\ accord \in Revisions
    /\ authority \in ActiveStates \cup {None}
    /\ receiptHead \in Nat
    /\ suspendedState \in States \cup {None} /\ recoveryState \in States \cup {None}
    /\ usage \in Usage /\ phaseUsage \in Usage
    /\ routeAttempts \in [Routes -> Nat]
    /\ processedEvents \subseteq [event: Events, receipt: Nat]
    /\ receipts \in Seq(ReceiptType)

\* verifyReceiptChain (src/receipts.ts) finds no error in a chain with this head.
ChainVerifies(chain, head) ==
    /\ \A i \in DOMAIN chain :
        LET prior == chain[i - 1] IN
        IF i = 1 THEN chain[i].previousReceipt = 0
        ELSE /\ chain[i].previousReceipt = prior.stateVersion
             /\ chain[i].route.from = prior.route.to
             /\ chain[i].stateVersion = prior.stateVersion + 1
             /\ chain[i].accord = prior.destinationAccord
             /\ chain[i].authority = prior.destinationAuthority
    /\ IF chain = << >> THEN head = 0 ELSE head = chain[Len(chain)].stateVersion

\* Whatever order, repetition or forgery the events come in, the receipts the
\* kernel emitted verify as one chain, and the chain ends in the snapshot: the
\* state, authority, Accord revision and version a verifier replays from the
\* receipts are those the snapshot holds.
ReceiptsReplayToSnapshot ==
    /\ ChainVerifies(receipts, receiptHead)
    /\ stateVersion = Len(receipts)
    /\ receipts # << >> =>
        LET last == receipts[Len(receipts)] IN
        /\ state = last.route.to /\ authority = last.destinationAuthority
        /\ accord = last.destinationAccord

\* An event identity and a delivery identity are applied at most once, each by
\* the receipt recorded for it, and applied events keep their sequence order.
AppliedOnce ==
    /\ \A p, q \in processedEvents :
           p # q => /\ p.event.id # q.event.id
                    /\ p.event.delivery # q.event.delivery
                    /\ p.receipt # q.receipt
    /\ \A p \in processedEvents :
           p.receipt \in DOMAIN receipts /\ receipts[p.receipt].event = p.event
    /\ \A i \in DOMAIN receipts :
           /\ \E p \in processedEvents : p.receipt = i
           /\ i > 1 => receipts[i - 1].event.sequence < receipts[i].event.sequence

\* The kernel never installs a snapshot that it would itself refuse from then
\* on: the lifecycle semantics and the phase authority it re-checks before every
\* later event hold in every state but a terminal one, PAUSED and BLOCKED
\* exactly retain the active state they go back to, and nothing else does.
NeverWedged ==
    /\ SemanticsHold(state, authority, suspendedState, recoveryState)
    /\ state \notin TerminalStates => CurrentAuthorityHolds
    /\ suspendedState # None <=> state = "PAUSED"
    /\ recoveryState  # None <=> state = "BLOCKED"

\* Lifetime usage stays within the budget of the Accord in force, also across a
\* rebind to a narrower Accord, phase usage within the compiled limits of the
\* phase in force, also across pauses, blocks and resumptions, and no retryable
\* route is taken more often than it allows over the life of the work item.
BudgetsRespected ==
    /\ Within(usage, Budget[accord])
    /\ authority # None => Within(phaseUsage, EffectiveLimits(accord, authority))
    /\ \A r \in Routes : r.retryable => routeAttempts[r] <= r.maxAttempts

ApprovedAt(i, gate) ==
    /\ receipts[i].route.gate = gate
    /\ Human(receipts[i].event.actor)
    /\ gate \in IndependentGates => receipts[i].event.actor.id # Requester

\* Work is COMPLETED only if humans accepted its frame, then its plan, then its
\* verified outcome, the independent gates by someone else than the requester,
\* all under the Accord revision in force at the end, and nothing was executed
\* after the verification that was accepted.
CompletionApproved ==
    state = "COMPLETED" =>
        LET end == Len(receipts) IN
        /\ ApprovedAt(end, "approve-current-head") /\ accord \in HeadBound
        /\ \E frame \in 1..end : \E plan \in frame..end : \E verified \in plan..end :
               /\ ApprovedAt(frame, "accept-frame") /\ ApprovedAt(plan, "accept-plan")
               /\ receipts[verified].route.event = "verification-passed"
               /\ \A i \in frame..end : receipts[i].accord = accord
               /\ \A i \in verified..end : receipts[i].route.to # "EXECUTING"

=============================================================================

-------------------------- MODULE MCControlKernel --------------------------
(* Small instances of the Control Kernel over the reviewed lifecycle.        *)
EXTENDS ControlKernel, LifecycleGraph

\* The requester also maintains the repository: only independence stops her.
Ada   == [id |-> "ada",   class |-> "maintainer"]
Bo    == [id |-> "bo",    class |-> "maintainer"]
Bot   == [id |-> "bot",   class |-> "system"]
MCActors == {Ada, Bo, Bot}

MCIndependentGates == {"accept-frame", "accept-plan", "approve-current-head"}

\* The second revision has a smaller loop budget and, unlike the first, a head.
MCBudget == << [units |-> 2, loops |-> 2, retries |-> 1],
               [units |-> 3, loops |-> 1, retries |-> 1] >>
MCPhaseCap == [s \in ActiveStates |->
                 [units |-> IF s \in CostBearingStates THEN 1 ELSE 0, loops |-> 1]]

CONSTANTS MaxEvents,         \* the longest history of events of every type
          MaxApproval        \* and of events on the way to completion

SystemEvents == {"work-submitted", "verification-passed", "dependency-blocked",
                 "partial-effect-recorded", "authorization-invalidated",
                 "binding-revalidated"}
ActorFor(type) == IF type \in SystemEvents THEN Bot ELSE Bo

Event(n, type, actor, units, loops) ==
    [id |-> n, delivery |-> n, type |-> type, actor |-> actor, sequence |-> n,
     expected |-> n - 1, units |-> units, loops |-> loops,
     replacement |-> IF type = "binding-revalidated" THEN 2 ELSE 0]

\* In-order events of the types given.
InOrder(last, types, costs) ==
    {Event(n, type, ActorFor(type), cost[1], cost[2]) :
        n \in 1..last, type \in types, cost \in costs}

LeaseFor(revision, units) ==
    [accord |-> revision, phases |-> ActiveStates, units |-> units,
     approver |-> "bo", status |-> "current"]
Approval(gate, actor, revision, lease) ==
    [gate |-> gate, actor |-> actor, accord |-> revision, lease |-> lease, fresh |-> TRUE]
Approvals(actor, revision, lease) ==
    {Approval(gate, actor, revision, lease) : gate \in Gates}

\* Everything in order for one revision, without and with replacement authority.
GoodContext(revision) ==
    [accord |-> revision, lease |-> LeaseFor(revision, 3),
     gates |-> Approvals(Bo, revision, LeaseFor(revision, 3)),
     requirementsMet |-> TRUE, retryableFailure |-> TRUE, replacement |-> 0]
RebindContext(revision) == [GoodContext(revision) EXCEPT !.replacement = 2]

GoodContexts == {GoodContext(1), GoodContext(2), RebindContext(1)}

\* One thing wrong at a time.
WrongContexts(revision) ==
    LET good == GoodContext(revision) IN
    { [good EXCEPT !.lease = NoLease],
      [good EXCEPT !.lease.status = "revoked"],
      [good EXCEPT !.lease.units = 0],
      [good EXCEPT !.lease.phases = {"FRAMING"}],
      [good EXCEPT !.gates = Approvals(Ada, revision, LeaseFor(revision, 3))],
      [good EXCEPT !.gates = @ \cup Approvals(Ada, revision, LeaseFor(revision, 3))],
      [good EXCEPT !.gates = Approvals(Bo, 3 - revision, LeaseFor(revision, 3))],
      [good EXCEPT !.gates = {[g EXCEPT !.fresh = FALSE] : g \in @}],
      [good EXCEPT !.requirementsMet = FALSE],
      [good EXCEPT !.retryableFailure = FALSE] }

----------------------------------------------------------------------------
(* What is offered: the initial state chooses one of two scenarios. *)

\* Every event type of the lifecycle, in order; work may be charged for.
SpendTypes == {"activation-approved", "clarification-recorded", "work-submitted",
               "repair-requested", "retry-requested", "dependency-blocked"}
LifecycleEvents == InOrder(MaxEvents, EventTypes, {<<0, 0>>})
                   \cup InOrder(MaxEvents, SpendTypes, {<<1, 0>>, <<0, 1>>})

\* The way to completion and through a rebind, decided by either human.
ApprovalTypes == {"activation-requested", "activation-approved", "frame-accepted",
                  "execution-authorized", "work-submitted", "verification-passed",
                  "revision-requested", "outcome-accepted",
                  "authorization-invalidated", "binding-revalidated"}
ApprovalEvents == InOrder(MaxApproval, ApprovalTypes, {<<0, 0>>})
    \cup InOrder(MaxApproval, {"activation-approved"}, {<<1, 0>>})
    \cup {[e EXCEPT !.actor = Ada] :
             e \in InOrder(MaxApproval, {"frame-accepted", "outcome-accepted"}, {<<0, 0>>})}
ApprovalContexts == GoodContexts \cup WrongContexts(1) \cup WrongContexts(2)

\* The first events of a work item, redelivered under another identity, reused
\* as another event's delivery, out of sequence or against another version.
ReplayTypes == {"activation-requested", "activation-approved", "authorization-invalidated"}
ReplayEvents ==
    UNION {{[e EXCEPT !.id = n], [e EXCEPT !.delivery = n],
            [e EXCEPT !.sequence = n], [e EXCEPT !.expected = n - 1]} :
              e \in {Event(m, type, ActorFor(type), 0, 0) : m \in 1..2, type \in ReplayTypes},
              n \in 1..2}
ReplayedEvents == ApprovalEvents \cup ReplayEvents

AllEvents == LifecycleEvents \cup ReplayedEvents

VARIABLE scenario
EventsNow   == IF scenario = "lifecycle" THEN LifecycleEvents ELSE ReplayedEvents
ContextsNow == IF scenario = "lifecycle" THEN GoodContexts ELSE ApprovalContexts

Offer(e) == \/ Dismiss(e)
            \/ /\ Ordered(e)
               /\ \E c \in ContextsNow :
                     Refuse(e, c) \/ \E r \in Selected(e) : Apply(e, c, r)

MCInit == Init /\ scenario \in {"lifecycle", "approval"}
MCSpec == MCInit /\ [][(\E e \in EventsNow : Offer(e)) /\ UNCHANGED scenario]_<<vars, scenario>>

----------------------------------------------------------------------------
\* docs/architecture/lifecycle.md:24 draws "VERIFYING --> EXECUTING: bounded
\* repair": while attempts remain, a verification can be sent back for repair.
BoundedRepairAvailable ==
    state = "VERIFYING" /\ stateVersion < MaxEvents /\ usage = EmptyUsage =>
        \E e \in Events, c \in Contexts :
            e.type = "repair-requested" /\ Outcome(e, c) = "applied"
=============================================================================

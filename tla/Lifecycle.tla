------------------------------ MODULE Lifecycle ------------------------------
(* The domain-neutral lifecycle graph (src/lifecycle.ts): the fixed facts     *)
(* about its states, the semantic validation every graph must pass before the *)
(* kernel uses it, and the deterministic choice of a route.                   *)
EXTENDS Naturals, FiniteSets

CONSTANT Routes      \* context.graph.routes; route.phaseOwner and route.costBearing
                     \* are derived from route.to, as validateLifecycleGraph demands,
                     \* and a route stands for its own (unique) id

\* The five active states are in one-to-one correspondence with the five active
\* phase owners, so an active state also names its phase and its Phase Contract.
ActiveStates        == {"FRAMING", "PLANNED", "EXECUTING", "VERIFYING", "HUMAN_REVIEW"}
TerminalStates      == {"COMPLETED", "CANCELLED"}
NullAuthorityStates == {"CAPTURED", "ACTIVATION_PENDING", "CANCELLED"}
CostBearingStates   == {"FRAMING", "EXECUTING", "VERIFYING"}
States == ActiveStates \cup TerminalStates \cup NullAuthorityStates \cup {"PAUSED", "BLOCKED"}

None == "none"       \* the null of suspendedState, recoveryState and the phase authority

ActorClasses == {"requester", "reviewer", "maintainer", "administrator", "system", "policy"}
Gates == {"activate", "accept-frame", "accept-plan", "approve-current-head"}

SafetyDestination ==
    [event \in {"cancel-requested", "pause-requested", "dependency-blocked",
                "partial-effect-recorded", "authorization-invalidated"} |->
        CASE event = "cancel-requested" -> "CANCELLED"
          [] event = "pause-requested"  -> "PAUSED"
          [] event = "authorization-invalidated" -> "ACTIVATION_PENDING"
          [] OTHER -> "BLOCKED"]

EventTypes == DOMAIN SafetyDestination \cup
    {"activation-requested", "activation-approved", "clarification-recorded",
     "frame-accepted", "scope-repair-requested", "execution-authorized",
     "work-submitted", "repair-requested", "replan-requested",
     "verification-passed", "revision-requested", "outcome-accepted",
     "resume-requested", "retry-requested", "recovery-approved",
     "binding-revalidated"}

RouteType == [from: States, to: States, event: EventTypes,
              retryable: BOOLEAN, maxAttempts: Nat \ {0},
              gate: Gates \cup {None}, classes: SUBSET ActorClasses]

\* The pairs whose several routes are told apart by the retained state.
RetainedChoice(state, event) ==
    \/ state = "PAUSED"  /\ event = "resume-requested"
    \/ state = "BLOCKED" /\ event \in {"retry-requested", "recovery-approved"}

ValidRoute(r) ==
    /\ r.to # "CAPTURED"
    /\ r.from \notin TerminalStates
    /\ r.event \in DOMAIN SafetyDestination =>
           r.to = SafetyDestination[r.event] /\ r.gate = None
    /\ r.event = "binding-revalidated" =>
           /\ r.from = "ACTIVATION_PENDING" /\ r.to = "ACTIVATION_PENDING"
           /\ r.classes \subseteq {"system", "policy"}
    /\ r.to \in {"PAUSED", "BLOCKED"} => r.from \in ActiveStates

\* validateLifecycleGraph returns no error.
ValidGraph ==
    /\ Routes \subseteq RouteType
    /\ \A r \in Routes : ValidRoute(r)
    /\ \A r, s \in Routes :
           r.from = s.from /\ r.event = s.event /\ ~RetainedChoice(r.from, r.event) => r = s

\* selectRoute: its candidates. The empty set is "no route", two are "ambiguous".
Candidates(state, event, suspended, recovery) ==
    {r \in Routes :
        /\ r.from = state /\ r.event = event
        /\ RetainedChoice(state, event) =>
               r.to = IF state = "PAUSED" THEN suspended ELSE recovery}

ASSUME GraphAssumption == ValidGraph
=============================================================================

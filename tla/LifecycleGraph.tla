--------------------------- MODULE LifecycleGraph ---------------------------
(* The reviewed lifecycle document, config/v1alpha1/lifecycle.json.          *)
EXTENDS Lifecycle

Route(from, event, to, gate, classes) ==
    [from |-> from, event |-> event, to |-> to, gate |-> gate,
     classes |-> classes, retryable |-> FALSE, maxAttempts |-> 1]

RetryRoute(from, event, to, gate, classes, attempts) ==
    [Route(from, event, to, gate, classes) EXCEPT !.retryable = TRUE,
                                                  !.maxAttempts = attempts]

\* Re-entering a cost-bearing state is gated by a fresh activation approval.
ReentryGate(s) == IF s \in CostBearingStates THEN "activate" ELSE None

ForwardRoutes ==
    { Route("CAPTURED", "activation-requested", "ACTIVATION_PENDING", None,
            {"requester", "maintainer"}),
      Route("ACTIVATION_PENDING", "activation-approved", "FRAMING", "activate",
            {"maintainer", "administrator"}),
      Route("FRAMING", "frame-accepted", "PLANNED", "accept-frame",
            {"reviewer", "maintainer"}),
      Route("PLANNED", "execution-authorized", "EXECUTING", "accept-plan",
            {"reviewer", "maintainer"}),
      Route("EXECUTING", "work-submitted", "VERIFYING", None, {"system"}),
      Route("VERIFYING", "verification-passed", "HUMAN_REVIEW", None, {"system"}),
      Route("HUMAN_REVIEW", "outcome-accepted", "COMPLETED", "approve-current-head",
            {"reviewer", "maintainer"}) }

BackwardRoutes ==
    { RetryRoute("FRAMING", "clarification-recorded", "FRAMING", None,
                 {"requester", "maintainer", "system"}, 4),
      RetryRoute("PLANNED", "scope-repair-requested", "FRAMING", None,
                 {"requester", "reviewer", "maintainer"}, 3),
      RetryRoute("VERIFYING", "repair-requested", "EXECUTING", None,
                 {"system", "reviewer", "maintainer"}, 3),
      RetryRoute("VERIFYING", "replan-requested", "PLANNED", None,
                 {"system", "reviewer", "maintainer"}, 2),
      RetryRoute("HUMAN_REVIEW", "revision-requested", "EXECUTING", None,
                 {"reviewer", "maintainer"}, 3) }

PauseRoutes ==
    {Route(s, "pause-requested", "PAUSED", None,
           {"requester", "maintainer", "policy"}) : s \in ActiveStates}
    \cup
    {Route("PAUSED", "resume-requested", s, ReentryGate(s),
           IF s \in {"EXECUTING", "VERIFYING"} THEN {"maintainer"}
                                               ELSE {"requester", "maintainer"})
       : s \in ActiveStates}

BlockRoutes ==
    {Route(s, "dependency-blocked", "BLOCKED", None, {"system", "policy"})
       : s \in ActiveStates}
    \cup
    {Route(s, "partial-effect-recorded", "BLOCKED", None, {"system"})
       : s \in {"EXECUTING", "VERIFYING"}}
    \cup
    {RetryRoute("BLOCKED", "retry-requested", s, ReentryGate(s), {"maintainer"}, 3)
       : s \in ActiveStates \ {"HUMAN_REVIEW"}}
    \cup
    {Route("BLOCKED", "recovery-approved", s, ReentryGate(s),
           {"maintainer", "administrator"}) : s \in ActiveStates}

AuthorityRoutes ==
    {Route(s, "authorization-invalidated", "ACTIVATION_PENDING", None,
           {"system", "policy"}) : s \in CostBearingStates}
    \cup
    {Route("ACTIVATION_PENDING", "binding-revalidated", "ACTIVATION_PENDING", None,
           {"system", "policy"})}
    \cup
    {Route(s, "cancel-requested", "CANCELLED", None,
           {"requester", "maintainer", "administrator", "policy"})
       : s \in States \ TerminalStates}

ReviewedRoutes == ForwardRoutes \cup BackwardRoutes \cup PauseRoutes
                  \cup BlockRoutes \cup AuthorityRoutes

\* The exit rules of the reviewed Phase Contracts (phase-contracts/*.json): the
\* events on which a phase may be left for another one or for COMPLETED.
BaseExitEvents ==
    [s \in ActiveStates |->
        CASE s = "FRAMING"      -> {"frame-accepted"}
          [] s = "PLANNED"      -> {"execution-authorized"}
          [] s = "EXECUTING"    -> {"work-submitted"}
          [] s = "VERIFYING"    -> {"verification-passed"}
          [] s = "HUMAN_REVIEW" -> {"outcome-accepted"}]

\* The exit rules of demo-projects/security-dependency-remediation.
RemediationExitEvents ==
    [BaseExitEvents EXCEPT !["FRAMING"] = @ \cup {"clarification-recorded"},
                           !["VERIFYING"] = @ \cup {"replan-requested"}]

\* A contract set with an exit rule for every backward route: what
\* control-kernel.test.ts and demo-runtime.test.ts build to exercise them.
RepairExitEvents ==
    [BaseExitEvents EXCEPT !["PLANNED"] = @ \cup {"scope-repair-requested"},
                           !["VERIFYING"] = @ \cup {"repair-requested", "replan-requested"},
                           !["HUMAN_REVIEW"] = @ \cup {"revision-requested"}]
=============================================================================

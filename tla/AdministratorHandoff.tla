------------------------ MODULE AdministratorHandoff ------------------------
(***************************************************************************)
(* An administrative change by plan, confirmation and readback             *)
(* (src/administrator-handoff.ts): an apply plan for one target, a human's *)
(* confirmation of it, a readback before the one attempt of an adapter,    *)
(* and a readback after it.  The code judges documents and changes         *)
(* nothing: whoever calls it may hand it any of the documents there are,   *)
(* those of an earlier plan or confirmation too, while others change the   *)
(* target.                                                                 *)
(***************************************************************************)
EXTENDS Naturals, FiniteSets

CONSTANTS MaxAge,       \* freshness.maxAgeMs
          Lease,        \* how long a plan and a confirmation last
          MaxTime, MaxDocuments    \* bounds

VARIABLES clock,
          target,         \* the state of the target
          plans,          \* apply plans, each its generatedAt
          confirmations, befores, attempts, afters,
          judged          \* the calls that were answered desiredStateObserved
documents == <<plans, confirmations, befores, attempts, afters>>
vars == <<clock, target, documents, judged>>

States == {"expected", "desired", "other"}

Init == /\ clock = 0 /\ target = "expected"
        /\ plans = {} /\ confirmations = {} /\ befores = {} /\ attempts = {} /\ afters = {}
        /\ judged = {}

Tick == clock < MaxTime /\ clock' = clock + 1 /\ UNCHANGED <<target, documents, judged>>

\* Others change the target.
Drift == target' \in States \ {target} /\ UNCHANGED <<clock, documents, judged>>

Room == Cardinality(plans) + Cardinality(confirmations) + Cardinality(befores)
            + Cardinality(afters) < MaxDocuments

\* The attempt and idempotency identities digest the whole plan, its instants too.
PlanApply == /\ Room /\ plans' = plans \cup {clock}
             /\ UNCHANGED <<clock, target, confirmations, befores, attempts, afters, judged>>

\* The human binds the digest of one plan.
Confirm(plan) ==
    /\ Room /\ confirmations' = confirmations \cup {[plan |-> plan, at |-> clock]}
    /\ UNCHANGED <<clock, target, plans, befores, attempts, afters, judged>>

\* The adapter reads the target for a plan and a confirmation that it is given.
ReadBefore(plan, c) ==
    /\ Room
    /\ befores' = befores \cup {[plan |-> plan, confirmation |-> c, at |-> clock,
                                 actual |-> target]}
    /\ UNCHANGED <<clock, target, plans, confirmations, attempts, afters, judged>>

-----------------------------------------------------------------------------
(* The judgements. *)

Fresh(at) == at <= clock /\ clock - at <= MaxAge
NotExpired(at) == clock <= at + Lease

ReadbackBase(plan, readback) == readback.plan = plan /\ Fresh(readback.at)

\* The gate in front of the attempt.
Gate(plan, c, b) ==
    /\ ReadbackBase(plan, b)
    /\ c.plan = plan /\ b.confirmation = c
    /\ Fresh(c.at) /\ NotExpired(c.at) /\ NotExpired(plan)
    /\ b.actual = "expected"
    /\ plan <= c.at /\ c.at <= b.at

\* Mutant: the readback behind the attempt binds the plan and no more.
BindsPlan(c, b, a) == TRUE

Binds(c, b, a) == a.confirmation = c /\ a.before = b

PostApply(plan, c, b, a) ==
    /\ Gate(plan, c, b) /\ ReadbackBase(plan, a)
    /\ Binds(c, b, a)
    /\ b.at <= a.attempted /\ a.attempted <= a.at
    /\ a.actual = "desired"
    /\ a.acknowledged

-----------------------------------------------------------------------------
(* The adapter, which claims an attempt durably before it makes it. *)

Apply(plan, c, b) ==
    /\ Gate(plan, c, b) /\ \A t \in attempts : t.plan # plan
    /\ \E acknowledged \in BOOLEAN :
          /\ attempts' = attempts \cup {[plan |-> plan, confirmation |-> c, before |-> b,
                                         attempted |-> clock, acknowledged |-> acknowledged]}
          /\ target' \in IF acknowledged THEN {"desired"} ELSE {"desired", target}
    /\ UNCHANGED <<clock, plans, confirmations, befores, afters, judged>>

\* The attempt receipt goes into the readback behind it.
ReadAfter(t) ==
    /\ Room
    /\ afters' = afters \cup {[plan |-> t.plan, confirmation |-> t.confirmation,
                               before |-> t.before, attempted |-> t.attempted,
                               acknowledged |-> t.acknowledged,
                               at |-> clock, actual |-> target]}
    /\ UNCHANGED <<clock, target, plans, confirmations, befores, attempts, judged>>

Judge(plan, c, b, a) ==
    /\ PostApply(plan, c, b, a)
    /\ judged' = judged \cup {[plan |-> plan, confirmation |-> c, before |-> b, after |-> a,
                               at |-> clock]}
    /\ UNCHANGED <<clock, target, documents>>

Next == \/ Tick \/ Drift \/ PlanApply
        \/ \E plan \in plans : Confirm(plan)
        \/ \E plan \in plans, c \in confirmations : ReadBefore(plan, c)
        \/ \E plan \in plans, c \in confirmations, b \in befores : Apply(plan, c, b)
        \/ \E t \in attempts : ReadAfter(t)
        \/ \E plan \in plans, c \in confirmations, b \in befores, a \in afters :
              Judge(plan, c, b, a)

Spec == Init /\ [][Next]_vars

-----------------------------------------------------------------------------

\* Types.
TypeOK ==
    /\ clock \in 0 .. MaxTime /\ target \in States
    /\ plans \subseteq 0 .. clock
    /\ \A c \in confirmations : c.plan \in plans /\ c.at <= clock
    /\ \A b \in befores : b.plan \in plans /\ b.confirmation \in confirmations
    /\ \A t \in attempts : t.plan \in plans /\ t.before \in befores

\* Whatever documents are handed in together, a change that is said to be observed is
\* one that the adapter made once, was told of, and made under that confirmation and
\* behind that readback: the human confirmed, then the target was as expected, then
\* came the attempt, then the target was as desired, and all of it is recent.
OneChain == \A j \in judged :
    \E t \in attempts :
        /\ t.plan = j.plan /\ t.acknowledged
        /\ t.confirmation = j.confirmation /\ t.before = j.before
        /\ \A u \in attempts : u.plan = t.plan => u = t
        /\ j.confirmation.plan = j.plan /\ j.plan <= j.confirmation.at
        /\ j.confirmation.at <= j.before.at /\ j.before.at <= t.attempted
        /\ t.attempted <= j.after.at /\ j.after.at <= j.at
        /\ j.before.actual = "expected" /\ j.after.actual = "desired"
        /\ j.at - j.confirmation.at <= MaxAge /\ j.at <= j.plan + Lease
=============================================================================

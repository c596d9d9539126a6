-------------------------- MODULE ProviderEvidence --------------------------
(***************************************************************************)
(* What the provider usage ledger promises the cost ledger                 *)
(* (EngineeringProviderUsageLedger and DurableProviderEvidence of          *)
(* src/durable-engineering-stores.ts): one attempt for each phase of a     *)
(* reservation and one answer for each attempt, neither ever changed.      *)
(***************************************************************************)
EXTENDS CostTerms

VARIABLES attempts,  \* the attempts durably begun
          usages     \* the durable answers: what each attempt cost, or Unknown
evidence == <<attempts, usages>>

Usage == UNION {[attempt: {a}, cost: CostsOf(a) \cup {Unknown}] : a \in Attempt}

Begin(a) ==
    /\ \A other \in attempts : other.res = a.res => other.phase # a.phase
    /\ attempts' = attempts \cup {a}
    /\ UNCHANGED usages

Answer(u) ==
    /\ \A other \in usages : other.attempt # u.attempt
    /\ usages' = usages \cup {u}
    /\ UNCHANGED attempts

EvidenceInit == attempts = {} /\ usages = {}
EvidenceNext == \/ \E a \in Attempt : Begin(a)
                \/ \E u \in Usage : Answer(u)
EvidenceSpec == EvidenceInit /\ [][EvidenceNext]_evidence
=============================================================================

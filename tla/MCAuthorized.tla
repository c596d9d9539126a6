---------------------------- MODULE MCAuthorized -----------------------------
(***************************************************************************)
(* Effects under an authority that ages, for TLC: the model calls of a     *)
(* demo run (DemoSchedule), the delivery of an authorized execution        *)
(* (RuntimeExecution), an administrator's change (AdministratorHandoff)    *)
(* and an installation (Installation).  They share no state, so a          *)
(* behaviour is one of one of them, and the others rest.                   *)
(***************************************************************************)
EXTENDS DemoSchedule, TLC

CONSTANTS None, Jobs, Operators, Versions, Irreversible, Capacity,
          MaxAge, Lease,     \* maxEvidenceAgeMs, and how long what is signed lasts
          MaxTime, MaxStates, MaxAsks, MaxFaults,    \* bounds of an execution
          MaxClock, MaxDocuments,                    \* of a change
          MaxPlans, MaxSlips, MaxCommits             \* and of an installation

ASSUME AuthorityAssumption ==
    /\ MaxAge \in Nat /\ Lease \in Nat
    /\ MaxTime \in Nat /\ MaxStates \in Nat /\ MaxClock \in Nat /\ Capacity \in Nat
    /\ None \notin [nonce : Nat, redeemed : Nat]    \* nor is it a bundle

VARIABLES part,
          now, states, revoked, redeemed, asks, held, bundles, job, evidence, moved, github,
          decided, told, faults,
          clock, target, plans, confirmations, befores, tries, afters, judged,
          inst, journal, been, designs, step, hand, answered, slips
execution == <<now, states, revoked, redeemed, asks, held, bundles, job, evidence, moved, github,
               decided, told, faults>>
handoff == <<clock, target, plans, confirmations, befores, tries, afters, judged>>
installation == <<inst, journal, been, designs, step, hand, answered, slips>>

Exec == INSTANCE RuntimeExecution
Handoff == INSTANCE AdministratorHandoff WITH MaxTime <- MaxClock, attempts <- tries
Install == INSTANCE Installation WITH
    MaxFaults <- MaxSlips,
    seen <- been, plans <- designs, held <- hand, told <- answered, faults <- slips

PartsInit == /\ part \in {"schedule", "execution", "handoff", "installation"}
             /\ Init /\ Exec!Init /\ Handoff!Init /\ Install!Init

PartsNext ==
    /\ UNCHANGED part
    /\ \/ part = "schedule" /\ Next /\ UNCHANGED <<execution, handoff, installation>>
       \/ part = "execution" /\ Exec!Next /\ UNCHANGED <<vars, handoff, installation>>
       \/ part = "handoff" /\ Handoff!Next /\ UNCHANGED <<vars, execution, installation>>
       \/ part = "installation" /\ Install!Next /\ UNCHANGED <<vars, execution, handoff>>

PartsSpec == PartsInit /\ [][PartsNext]_<<part, vars, execution, handoff, installation>>

\* Two of the workflows, which are the jobs and the operators too, are interchangeable.
Symmetry == Permutations(Jobs)

-----------------------------------------------------------------------------

\* DeliveryWithinAuthority of RuntimeExecution: effects are decided under a fresh
\* authorization, and a delivery that is told stands.
DeliveryWithinAuthority == part = "execution" => Exec!TypeOK /\ Exec!DeliveryWithinAuthority

\* OneChain of AdministratorHandoff: a change that is judged observed is one chain.
OneChain == part = "handoff" => Handoff!TypeOK /\ Handoff!OneChain

\* JournalExplains of Installation: what is told is persisted, and receipts follow.
JournalExplains == part = "installation" => Install!TypeOK /\ Install!JournalExplains
=============================================================================

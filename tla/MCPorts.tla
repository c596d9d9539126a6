------------------------------ MODULE MCPorts ------------------------------
(***************************************************************************)
(* The ports of the durable stores for TLC: the provider usage ledger of   *)
(* the engineering slice (ProviderUsage), the single-record ports of the   *)
(* demo (DemoPorts), the backup of the stores below them (StoreBackup) and *)
(* a domain run with its grant store (DomainRun).  They share no state, so *)
(* a behaviour is one of one of them, and the others rest.                 *)
(***************************************************************************)
EXTENDS ProviderUsage, Sequences, TLC

CONSTANTS r1, p1, p2, s1, s2, run1, run2, x, y, \* model values
          Keys, What, When, Stores, Operators, Runs, Artifacts, Foreign, None,
          MaxPortFaults, MaxWrites, MaxEnabled, MaxObservations,      \* bounds
          MaxPushes, MaxRunFaults, MaxDrafts, MaxRevisions, MaxStarts

VARIABLES part,
          port, ports, claims, lookups, portFaults, at, slot, content, record, read, told,
          live, writes, guard, sets, work, trusted, cuts,
          grants, proposal, moved, faults, where, job, applied,
          revision, guards, run, starts, trail
backup == <<live, writes, guard, sets, work, trusted, cuts>>
demo == <<port, ports, claims, lookups, portFaults, at, slot, content, record, read, told>>
domain == <<grants, proposal, moved, faults, where, job, applied, revision, guards, run,
            starts, trail>>

Demo == INSTANCE DemoPorts WITH
            Callers <- Processes, Marks <- Stamps, MaxFaults <- MaxPortFaults,
            records <- ports, faults <- portFaults, pc <- at, draft <- record, first <- read
Backup == INSTANCE StoreBackup
Domain == INSTANCE DomainRun WITH
            Workers <- Processes, Marks <- Stamps, MaxFaults <- MaxRunFaults,
            claims <- grants, pc <- where

ASSUME PortsAssumption ==
    /\ Stores \in Seq(Backup!Ids)
    /\ Demo!Content # {}
    /\ None \notin Demo!Attempts \cup Demo!Usages
    /\ {None, Foreign} \cap [artifact: Artifacts, at: Stamps] = {}
    /\ Foreign # None
    /\ MaxDrafts \in Nat

PartsInit == /\ part \in {"usage", "demo", "backup", "domain"}
             /\ Init /\ Demo!Init /\ Backup!Init /\ Domain!Init
             /\ part # "demo" => port = "attempt"

PartsNext == /\ UNCHANGED part
             /\ \/ part = "usage" /\ Next /\ UNCHANGED <<demo, backup, domain>>
                \/ part = "demo" /\ Demo!Next /\ UNCHANGED <<vars, backup, domain>>
                \/ part = "backup" /\ Backup!Next /\ UNCHANGED <<vars, demo, domain>>
                \/ part = "domain" /\ Domain!Next /\ UNCHANGED <<vars, demo, backup>>

PartsSpec == PartsInit /\ [][PartsNext]_<<part, vars, demo, backup, domain>>

-----------------------------------------------------------------------------

OwnLease == [r \in Reservations |-> r]
OneEach == [r \in Reservations |-> [phase \in Phase |-> 1]]
TwoCalls == [r \in Reservations |-> 2]
\* One phase, and two settlement histories that its attempt may be begun for.
FirstPhase == {c \in Call : c.attempt.phase = 1}
TwoStores == <<"evidence-store", "operation-grant-store">>
Symmetry == Permutations(Processes) \cup Permutations(Stamps)
            \cup Permutations(Runs) \cup Permutations(Artifacts)

\* Of the engineering ports (ToldIsStored of ProviderUsage) and the demo ports
\* (ToldWhatIsStored of DemoPorts): whoever is answered holds the one record that is
\* stored for its operation, and it records what the caller asked for.
ToldWhatIsStored == ToldIsStored /\ Demo!ToldWhatIsStored

\* LookedUpOnce of DemoPorts: the provider is asked once for the usage of a call.
LookedUpOnce == Demo!LookedUpOnce

\* WritersResumeWhole of StoreBackup: backups are cuts, and so is what writers resume on.
WritersResumeWhole == Backup!WritersResumeWhole

\* GrantSpentOnce of DomainPackage: a redemption key and an operation are spent once.
GrantSpentOnce == Domain!GrantSpentOnce

\* PackageTold of DomainRun: one package, and its outcome as it was.
PackageTold == Domain!TypeOK /\ Domain!PackageTold

\* ClosureUndisturbed of DomainRun: a closure stands on one head and one revision.
ClosureUndisturbed == Domain!ClosureUndisturbed
=============================================================================

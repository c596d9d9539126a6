------------------------------ MODULE MCDemoRun ------------------------------
(***************************************************************************)
(* For TLC, two components with liveness: a demo run on a short journey    *)
(* over the reviewed lifecycle (DemoRun), and the opening of a store file  *)
(* below it (DurableOpen) by three openers: two that agree, one of them of *)
(* a later release, and one of another deployment.  They share no state: a *)
(* behaviour is one of one of them.                                        *)
(***************************************************************************)
EXTENDS DemoRun

CONSTANTS Openers, Identities, Wanted, Format, NoProcess, NoIdentity

ASSUME OpenAssumption ==
    /\ Wanted \in [Openers -> Identities] /\ NoIdentity \notin Identities
    /\ Format \in [Openers -> Nat \ {0}] /\ NoProcess \notin Openers

VARIABLES part, version, meta, lock, at, made
file == <<version, meta, lock, at, made>>

ShortJourney == <<"ACTIVATION_PENDING", "FRAMING", "FRAMING", "PLANNED">>

SomeOpeners == {"ours", "ours, later", "theirs"}
SomeWanted == [p \in SomeOpeners |-> IF p = "theirs" THEN "theirs" ELSE "ours"]
SomeFormat == [p \in SomeOpeners |-> IF p = "ours, later" THEN 2 ELSE 1]
Open == INSTANCE DurableOpen WITH Processes <- Openers, pc <- at

PartsInit == part \in {"run", "open"} /\ Init /\ Open!Init
PartsNext == /\ UNCHANGED part
             /\ \/ part = "run" /\ Next /\ UNCHANGED file
                \/ part = "open" /\ Open!Next /\ UNCHANGED vars
PartsVars == <<part, vars, file>>

\* The fairness of each component, in the behaviours that are its own.
Running(A) == part = "run" /\ A
PartsSpec ==
    /\ PartsInit /\ [][PartsNext]_PartsVars
    /\ WF_vars(Running(Mirror))
    /\ \A w \in Workers : WF_vars(Running(Step(w))) /\ WF_vars(Running(Look(w)))
    /\ \A p \in Openers : WF_file(part = "open" /\ Open!Statement(p))

-----------------------------------------------------------------------------

\* ProvisionedWhole of DurableOpen: a file is provisioned whole or not at all.
ProvisionedWhole == Open!ProvisionedWhole

\* OpenEnds of DurableOpen: an open always ends.
OpenEnds == Open!OpenEnds
=============================================================================

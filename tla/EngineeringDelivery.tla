------------------------ MODULE EngineeringDelivery ------------------------
(***************************************************************************)
(* What the engineering slice of src/engineering-slice.ts shows GitHub, the*)
(* cost ledger and the kernel, whoever runs, resumes, dies or races: one   *)
(* patch, its effects once each and in order, and after an independent     *)
(* human merge the return of what was not spent before anything is closed. *)
(***************************************************************************)
EXTENDS Naturals, Sequences

CONSTANTS Patches, None,
          SliceEffects,  \* how many effects come before the human merge
          AllEffects     \* and how many there are

VARIABLE delivery
\* [patch, written, merged, freed, accepted]

Init == delivery = [patch |-> None, written |-> <<>>, merged |-> FALSE,
                    freed |-> FALSE, accepted |-> FALSE]

Submit(patch) ==
    /\ delivery.patch = None
    /\ delivery' = [delivery EXCEPT !.patch = patch]

\* The next effect is written, of the patch the kernel was told of; those that
\* close the work item only once it is merged and its budget has come back.
Write ==
    /\ delivery.patch # None
    /\ Len(delivery.written) < AllEffects
    /\ Len(delivery.written) >= SliceEffects => delivery.merged /\ delivery.freed
    /\ delivery' = [delivery EXCEPT !.written = Append(@, delivery.patch)]

\* What a human merges has been written and reviewed to the end.
Merge ==
    /\ Len(delivery.written) = SliceEffects
    /\ delivery' = [delivery EXCEPT !.merged = TRUE]

Free ==
    /\ ~ delivery.freed
    /\ delivery' = [delivery EXCEPT !.freed = TRUE]

Accept ==
    /\ Len(delivery.written) = AllEffects
    /\ delivery' = [delivery EXCEPT !.accepted = TRUE]

Next == \/ \E patch \in Patches : Submit(patch)
        \/ Write \/ Merge \/ Free \/ Accept

Spec == Init /\ [][Next]_delivery
=============================================================================

---------------------------- MODULE StoreBackup -----------------------------
(***************************************************************************)
(* Backing up the stores of a deployment and restoring them                *)
(* (openDurableStoreComposition of src/durable-store-composition.ts): the  *)
(* stores are copied one after the other between two readings of the       *)
(* guard that says that writers are disabled, the copies are bound by one  *)
(* signed manifest, and restored files are compared with it one by one.    *)
(***************************************************************************)
EXTENDS Naturals, Sequences, SequencesExt

CONSTANTS Stores,         \* in the order in which they are copied and verified
          Operators,      \* callers of backup and verifyRestoredBackup
          MaxWrites, MaxEnabled, MaxObservations   \* bounds

VARIABLES live,    \* the journal of each store
          writes,  \* writes so far, each of another record
          guard,   \* are writers disabled, since which generation, who looked last, is it current
          sets,    \* the backup sets that were returned
          work,    \* what each operator is doing
          trusted, \* no file was put in place since the stores were verified
          cuts     \* history: what the stores have held together
vars == <<live, writes, guard, sets, work, trusted, cuts>>

Ids == ToSet(Stores)
Idle == [at |-> "idle"]

Init == /\ live = [s \in Ids |-> <<>>] /\ writes = 0
        /\ guard = [disabled |-> FALSE, generation |-> 0, observation |-> 0, current |-> FALSE]
        /\ sets = {} /\ work = [o \in Operators |-> Idle]
        /\ trusted = TRUE /\ cuts = {live}

-----------------------------------------------------------------------------
(* Writers, the guard, and the operator's hands. *)

Write(s) == /\ ~ guard.disabled /\ writes < MaxWrites
            /\ writes' = writes + 1
            /\ live' = [live EXCEPT ![s] = Append(@, writes')]
            /\ cuts' = cuts \cup {live'}
            /\ UNCHANGED <<guard, sets, work, trusted>>

\* Writers have stopped, and a signed observation says so.
Disable == /\ ~ guard.disabled
           /\ guard' = [guard EXCEPT !.disabled = TRUE, !.observation = @ + 1, !.current = TRUE]
           /\ UNCHANGED <<live, writes, sets, work, trusted, cuts>>

\* The observation runs out, and another is made of the same generation.  It
\* names the checkpoint of the writers, so that files nobody has verified have none.
Expire == /\ guard.current
          /\ guard' = [guard EXCEPT !.current = FALSE]
          /\ UNCHANGED <<live, writes, sets, work, trusted, cuts>>

Observe == /\ guard.disabled /\ trusted /\ guard.observation < MaxObservations
           /\ guard' = [guard EXCEPT !.observation = @ + 1, !.current = TRUE]
           /\ UNCHANGED <<live, writes, sets, work, trusted, cuts>>

\* "Only after every namespace in every store verifies, allow new writes."
Enable == /\ guard.disabled /\ trusted /\ guard.generation < MaxEnabled
          /\ guard' = [guard EXCEPT !.disabled = FALSE, !.generation = @ + 1, !.current = FALSE]
          /\ UNCHANGED <<live, writes, sets, work, trusted, cuts>>

\* Files of backups, of one or of several, take the place of live ones, and the
\* stores are opened again.
Place == /\ guard.disabled /\ sets # {}
         /\ \A o \in Operators : work[o] = Idle
         /\ \E from \in [Ids -> sets] : live' = [s \in Ids |-> from[s].files[s]]
         /\ trusted' = FALSE
         /\ guard' = [guard EXCEPT !.current = FALSE]
         /\ UNCHANGED <<writes, sets, work, cuts>>

-----------------------------------------------------------------------------
(* backup. *)

Evidence == [generation |-> guard.generation, observation |-> guard.observation]
Quiescent == guard.disabled /\ guard.current

Do(o, what) == work' = [work EXCEPT ![o] = what]

StartBackup(o) ==
    /\ work[o] = Idle
    /\ Quiescent
    /\ Do(o, [at |-> "copying", before |-> Evidence, files |-> <<>>])
    /\ UNCHANGED <<live, writes, guard, sets, trusted, cuts>>

Copy(o) ==
    /\ work[o].at = "copying" /\ Len(work[o].files) < Len(Stores)
    /\ Do(o, [work[o] EXCEPT !.files = Append(@, live[Stores[Len(@) + 1]])])
    /\ UNCHANGED <<live, writes, guard, sets, trusted, cuts>>

\* Mutant: writers only have to be disabled again.
DisabledAgain(before) == Quiescent

\* The guard reads as it did before the first copy.
StillQuiescent(before) == Quiescent /\ Evidence = before

CloseBackup(o) ==
    /\ work[o].at = "copying" /\ Len(work[o].files) = Len(Stores)
    /\ StillQuiescent(work[o].before)
    /\ sets' = sets \cup {[quiescence |-> Evidence,
                           files |-> [s \in Ids |-> work[o].files[CHOOSE i \in DOMAIN Stores :
                                                                     Stores[i] = s]]]}
    /\ Do(o, Idle)
    /\ UNCHANGED <<live, writes, guard, trusted, cuts>>

-----------------------------------------------------------------------------
(* verifyRestoredBackup. *)

\* The signed manifest names these store manifests.
Bound(set, manifests) == manifests = set.files

StartVerify(o) ==
    /\ work[o] = Idle
    /\ \E set \in sets, from \in [Ids -> sets] :
          LET manifests == [s \in Ids |-> from[s].files[s]]
          IN /\ Bound(set, manifests)
             /\ Do(o, [at |-> "verifying", manifests |-> manifests, verified |-> 0])
    /\ UNCHANGED <<live, writes, guard, sets, trusted, cuts>>

\* The inventory of the store is what its manifest says.
Verify(o) ==
    /\ work[o].at = "verifying" /\ work[o].verified < Len(Stores)
    /\ LET s == Stores[work[o].verified + 1]
       IN IF live[s] = work[o].manifests[s] THEN Do(o, [work[o] EXCEPT !.verified = @ + 1])
          ELSE Do(o, Idle)   \* RESTORE_MISMATCH
    /\ UNCHANGED <<live, writes, guard, sets, trusted, cuts>>

EndVerify(o) ==
    /\ work[o].at = "verifying" /\ work[o].verified = Len(Stores)
    /\ trusted' = TRUE
    /\ Do(o, Idle)
    /\ UNCHANGED <<live, writes, guard, sets, cuts>>

\* The process dies, the directory changes under it, or the guard says no.
Abandon(o) == work[o] # Idle /\ Do(o, Idle) /\ UNCHANGED <<live, writes, guard, sets, trusted, cuts>>

Next == \/ \E s \in Ids : Write(s)
        \/ Disable \/ Expire \/ Observe \/ Enable \/ Place
        \/ \E o \in Operators : \/ StartBackup(o) \/ Copy(o) \/ CloseBackup(o)
                                \/ StartVerify(o) \/ Verify(o) \/ EndVerify(o)
                                \/ Abandon(o)

Spec == Init /\ [][Next]_vars

-----------------------------------------------------------------------------

\* Every backup set that is returned holds what the stores held together at one
\* instant, although they are copied one after the other while writers may be
\* enabled and disabled again; and when writers resume, after a restore of
\* files of any of the sets, the stores hold such a cut (backup,
\* verifyRestoredBackup; docs/runbooks/recovery.md: "do not mix manifests or
\* store files from different backup operations").
WritersResumeWhole == /\ \A set \in sets : set.files \in cuts
                      /\ ~ guard.disabled => live \in cuts
=============================================================================

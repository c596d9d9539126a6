---------------------------- MODULE Installation -----------------------------
(***************************************************************************)
(* Installing the package at a customer (src/packaging.ts): plans are made *)
(* from documents that were observed before, humans authorize them, and    *)
(* operators apply them through a trusted adapter that compares and swaps  *)
(* the installation and appends a signed receipt (applyInstallationPlan),  *)
(* or reconcile what was applied (reconcileInstallation).  The adapter may *)
(* fail in the middle, its answer may be lost, an operator may die, and    *)
(* others commit to the repository.                                        *)
(***************************************************************************)
EXTENDS Naturals, SequencesExt

CONSTANTS Operators, None,
          Versions,        \* of the package, 1 .. n
          Irreversible,    \* the v whose migration to v + 1 cannot be undone
          Capacity,        \* MAX_INSTALLATION_RECEIPTS
          MaxPlans, MaxFaults, MaxCommits    \* bounds

VARIABLES
    inst,     \* the installation, as the adapter observes it
    journal,  \* the receipts; each is the plan that it is the receipt of
    seen,     \* the states the installation has been in
    plans,    \* the authorized plans
    step, held,   \* of each operator: what it does, and the plan it holds
    told,     \* the plans whose receipt was returned
    faults
adapter == <<inst, journal, seen>>
vars == <<adapter, plans, step, held, told, faults>>

NotInstalled == [status |-> "stable", version |-> None, sequence |-> 0, commits |-> 0]

Init == /\ inst = NotInstalled /\ journal = <<>> /\ seen = {NotInstalled}
        /\ plans = {} /\ told = {} /\ faults = 0
        /\ step = [o \in Operators |-> "idle"]
        /\ held = [o \in Operators |-> None]

Becomes(state) == inst' = state /\ seen' = seen \cup {state}

\* Others commit to the repository, and its head is another.
Commit == /\ inst.commits < MaxCommits
          /\ Becomes([inst EXCEPT !.commits = @ + 1])
          /\ UNCHANGED <<journal, plans, step, held, told, faults>>

Goto(o, s) == step' = [step EXCEPT ![o] = s]
End(o) == Goto(o, "idle") /\ held' = [held EXCEPT ![o] = None]
Tell(o) == End(o) /\ told' = told \cup {held[o]}

-----------------------------------------------------------------------------
(* Planning. *)

\* A chain of receipts, each from the state the one before it has left, up to the state.
Authentic(receipts, state) ==
    /\ \A k \in 2 .. Len(receipts) : receipts[k].expected = receipts[k - 1].result
    /\ receipts # <<>> => Last(receipts).result = state

\* Steps are contiguous; backwards, each must be reversible.
MigrationPath(from, to, current) ==
    (from # None /\ to # None) =>
        /\ from <= current /\ to <= current
        /\ \A v \in to .. from - 1 : v \notin Irreversible

Operations == {"install", "upgrade", "rollback", "recover", "uninstall"}

\* What each operation asks of the versions; `current` is the last of the manifest.
Selected(op, state, to, current) ==
    /\ state.version # None => state.version <= current
    /\ CASE op = "install"   -> state.version = None /\ to = current
         [] op = "upgrade"   -> state.version # None /\ state.version < to /\ to = current
         [] op = "rollback"  -> state.version # None /\ state.version > to
         [] op = "recover"   -> to = current
         [] op = "uninstall" -> state.version # None

Result(state, to) == [status |-> "stable", version |-> to,
                      sequence |-> state.sequence + 1, commits |-> state.commits]

\* The last completed stable state, which a recovery is bound to.
RecoveryBase(state) == {base \in seen : base.status = "stable"
                                        /\ base.sequence = state.sequence}

PlanWith(op, state, to, current, base) ==
    /\ (op = "recover") = (state.status = "partial")
    /\ state.sequence = Len(journal) /\ Len(journal) < Capacity
    /\ Authentic(journal, base)
    /\ Selected(op, state, to, current)
    /\ MigrationPath(base.version, to, current)
    /\ plans' = plans \cup {[op |-> op, expected |-> state, base |-> base,
                             result |-> Result(state, to)]}

\* The state was observed, and backed up, at some earlier time.
PlanInstallation ==
    /\ \E op \in Operations, state \in seen, current \in Versions :
       \E to \in IF op = "uninstall" THEN {None} ELSE Versions,
          base \in IF op = "recover" THEN RecoveryBase(state) ELSE {state} :
             PlanWith(op, state, to, current, base)
    /\ Cardinality(plans') <= MaxPlans
    /\ UNCHANGED <<adapter, step, held, told, faults>>

-----------------------------------------------------------------------------
(* Applying and reconciling. *)

Persisted(plan) == plan \in ToSet(journal)

\* A persisted receipt is all there is to return; otherwise the authorization must be
\* current, and the adapter verifies it.
Find(o) == /\ step[o] = "idle"
           /\ \E plan \in plans : held' = [held EXCEPT ![o] = plan]
                  /\ Goto(o, IF Persisted(plan) THEN "found" ELSE "authorized")
           /\ UNCHANGED <<adapter, plans, told, faults>>

ObserveFound(o) ==
    /\ step[o] = "found"
    /\ IF inst = held[o].result THEN Tell(o) ELSE End(o) /\ UNCHANGED told
    /\ UNCHANGED <<adapter, plans, faults>>

ObserveBefore(o) ==
    /\ step[o] = "authorized"
    /\ IF inst = held[o].expected THEN Goto(o, "applying") /\ UNCHANGED held ELSE End(o)
    /\ UNCHANGED <<adapter, plans, told, faults>>

\* The adapter compares the state and the head of the receipts with its effect.
Swaps(plan) == inst = plan.expected /\ Len(journal) = plan.expected.sequence

Apply(o) ==
    /\ step[o] = "applying"
    /\ IF Swaps(held[o])
       THEN /\ Becomes(held[o].result)
            /\ journal' = Append(journal, held[o])
            /\ Goto(o, "applied") /\ UNCHANGED held
       ELSE /\ UNCHANGED adapter
            /\ IF Persisted(held[o]) THEN Goto(o, "applied") /\ UNCHANGED held ELSE End(o)
    /\ UNCHANGED <<plans, told, faults>>

\* Half of an effect may claim either version.
Partial(plan) == {[plan.expected EXCEPT !.status = "partial", !.version = v] :
                     v \in {plan.expected.version, plan.result.version}}

\* The adapter fails in the middle of its effect, before its receipt is stored, or before
\* it has answered.
ApplyBadly(o) ==
    /\ step[o] = "applying" /\ Swaps(held[o])
    /\ faults < MaxFaults /\ faults' = faults + 1
    /\ \E state \in Partial(held[o]) \cup {inst, held[o].result} : Becomes(state)
    /\ journal' \in {journal, Append(journal, held[o])}
    /\ \/ Goto(o, "applied") /\ UNCHANGED held
       \/ End(o)
    /\ UNCHANGED <<plans, told>>

ObserveAfter(o) ==
    /\ step[o] = "applied"
    /\ IF inst = held[o].result THEN Goto(o, "observed") /\ UNCHANGED held ELSE End(o)
    /\ UNCHANGED <<adapter, plans, told, faults>>

\* Mutant: the receipt that was answered is taken for persisted.
FindUnread(o) ==
    /\ step[o] = "observed" /\ Tell(o)
    /\ UNCHANGED <<adapter, plans, faults>>

\* The receipt store is reread.
FindAgain(o) ==
    /\ step[o] = "observed"
    /\ IF Persisted(held[o]) THEN Tell(o) ELSE End(o) /\ UNCHANGED told
    /\ UNCHANGED <<adapter, plans, faults>>

\* An authorization that is not current, a refusal of the adapter, the operator's death.
Stop(o) == /\ step[o] # "idle" /\ End(o)
           /\ UNCHANGED <<adapter, plans, told, faults>>

Next == \/ Commit \/ PlanInstallation
        \/ \E o \in Operators :
              \/ Find(o) \/ ObserveFound(o) \/ ObserveBefore(o) \/ Apply(o) \/ ApplyBadly(o)
              \/ ObserveAfter(o) \/ FindAgain(o) \/ Stop(o)

Spec == Init /\ [][Next]_vars

-----------------------------------------------------------------------------

\* Types.
TypeOK ==
    /\ inst \in seen /\ inst.status \in {"stable", "partial"}
    /\ Len(journal) <= Capacity
    /\ \A o \in Operators : step[o] \in {"idle", "found", "authorized", "applying",
                                         "applied", "observed"}

Follows(plan, before) ==
    \/ plan.expected = before.result
    \/ /\ plan.op = "recover" /\ plan.base = before.result
       /\ plan.expected.status = "partial" /\ plan.expected.sequence = before.result.sequence

\* What an operator is told was installed is in the journal, and the installation has
\* been in that state; and the journal explains the installation: each receipt begins
\* where the one before it has ended, or recovers from a failure to go on from there,
\* and no version falls behind an irreversible migration while something is installed.
JournalExplains ==
    /\ \A plan \in told : Persisted(plan) /\ plan.result \in seen
    /\ \A k \in 2 .. Len(journal) :
          LET was == journal[k - 1].result.version
              is == journal[k].result.version
          IN  /\ Follows(journal[k], journal[k - 1])
              /\ was # None /\ is # None => \A v \in is .. was - 1 : v \notin Irreversible

\* While the installation is stable, and is what the last receipt of a complete journal
\* says, the next change can be planned (docs/architecture/packaging-and-replication.md
\* blocks normal operations on gaps, reordering, a wrong head, and a partial state).
StablePlannable ==
    /\ inst.status = "stable" /\ journal # <<>> /\ Len(journal) < Capacity
    /\ Len(journal) = inst.sequence /\ Last(journal).result = inst
    => Authentic(journal, inst)
=============================================================================

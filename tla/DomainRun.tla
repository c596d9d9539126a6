----------------------------- MODULE DomainRun ------------------------------
(***************************************************************************)
(* A run of a domain pack (runDomainPackDemonstration of                   *)
(* src/domain-packs.ts): a proposal is drafted and reviewed, its claims    *)
(* and rights are resolved, it is packaged, commented, approved and        *)
(* observed merged, and closed.  The repository and the authority over     *)
(* claims and rights change meanwhile, and nothing is locked between two   *)
(* steps but the authority, while a ref is moved or the closure appended.  *)
(*                                                                         *)
(* The services of a run (redeemer, classifiers, humans, evidence ledger)  *)
(* are its environment.  What they refuse, and every check that fails, is  *)
(* a run that stops, which it may at every step; nothing resumes it.       *)
(***************************************************************************)
EXTENDS DomainPackage

CONSTANTS MaxDrafts,     \* reviews of one proposal
          MaxRevisions,  \* revisions of the claims-and-rights authority (bound)
          MaxStarts      \* runs that are begun (bound)

VARIABLES revision,  \* the head of the claims-and-rights authority
          guards,    \* who holds it to its revision
          run,       \* what each worker has bound itself to, and its step after packaging
          starts,
          trail      \* history: the effects and checkpoints of each worker's run
vars == <<package, revision, guards, run, starts, trail>>
authority == <<revision, guards>>

NoRun == [id |-> None, head |-> None, revision |-> 0, step |-> 0]

Init == /\ PackageInit
        /\ revision = 1 /\ guards = {} /\ starts = 0
        /\ run = [w \in Workers |-> NoRun]
        /\ trail = [w \in Workers |-> <<>>]

\* What a run does once its package is on the proposal ref.
Closing == <<"head", "comment", "rights", "wait", "rights", "approve", "head", "rights",
             "merge", "head", "rights", "guard", "close">>

Ended == {"idle", "refused", "stale", "ambiguous", "stopped", "closed"}

-----------------------------------------------------------------------------

\* The refs have to be readable: the default ref is the base commit.
Start(w) ==
    /\ pc[w] \in Ended /\ starts < MaxStarts /\ ~ moved
    /\ starts' = starts + 1
    /\ \E id \in Runs : run' = [run EXCEPT ![w] = [NoRun EXCEPT !.id = id, !.head = Tip]]
    /\ job' = [job EXCEPT ![w] = NoJob]
    /\ applied' = [applied EXCEPT ![w] = FALSE]
    /\ trail' = [trail EXCEPT ![w] = <<>>]
    /\ Goto(w, "drafting")
    /\ UNCHANGED <<claims, proposal, moved, faults, authority>>

\* A draft and its review are two operations of the run each time; packaging
\* is the next one, and its grant binds the artifact set.
Draft(w) ==
    /\ pc[w] = "drafting"
    /\ \E drafts \in 1..MaxDrafts, a \in Artifacts :
          Note(w, "grant", [run |-> run[w].id, sequence |-> 2 * drafts + 1, artifact |-> a])
    /\ Goto(w, "resolving")
    /\ UNCHANGED <<claims, Refs, faults, authority, run, starts, trail>>

ResolveRights(w) ==
    /\ pc[w] = "resolving"
    /\ run' = [run EXCEPT ![w].revision = revision]
    /\ Goto(w, "bound")
    /\ UNCHANGED <<claims, Refs, faults, job, authority, starts, trail>>

\* The binding is read again before the package grant is redeemed.
CheckBinding(w) ==
    /\ pc[w] = "bound"
    /\ ~ moved /\ Tip = run[w].head
    /\ Goto(w, "authorized")
    /\ UNCHANGED <<claims, Refs, faults, job, authority, run, starts, trail>>

\* The authority is at the revision that was resolved.
RightsCurrent(w) == revision = run[w].revision

\* withCurrent holds the authority for as long as its callback runs.
Guard(w) ==
    /\ pc[w] = "authorized"
    /\ RightsCurrent(w)
    /\ guards' = guards \cup {w}
    /\ Goto(w, "packaging")
    /\ UNCHANGED <<claims, Refs, faults, job, revision, run, starts, trail>>

Release(w) == guards' = IF pc'[w] \in Ended THEN guards \ {w} ELSE guards

PackageStep(w) == /\ Package(w) /\ Release(w)
                  /\ UNCHANGED <<revision, run, starts, trail>>

-----------------------------------------------------------------------------
(* After the package. *)

At(w, what) == pc[w] = "closing" /\ Closing[run[w].step] = what
Advance(w) == run' = [run EXCEPT ![w].step = @ + 1]
Entry(w, what) == [what |-> what, head |-> Tip, revision |-> revision]
Record(w, what) == trail' = [trail EXCEPT ![w] = Append(@, Entry(w, what))]

Packaged(w) ==
    /\ pc[w] = "packaged"
    /\ guards' = guards \ {w}
    /\ run' = [run EXCEPT ![w].step = 1]
    /\ Record(w, "package")
    /\ Goto(w, "closing")
    /\ UNCHANGED <<claims, Refs, faults, job, revision, starts>>

\* Mutant: the commit is on the proposal, and others may be above it.
StillThere(w) == job[w].commit \in Range(proposal)

\* The binding is that of the package.
HeadUnmoved(w) == ~ moved /\ Tip = job[w].commit

CheckHead(w) == /\ At(w, "head") /\ HeadUnmoved(w) /\ Advance(w)
                /\ UNCHANGED <<package, authority, starts, trail>>

CheckRights(w) == /\ At(w, "rights") /\ RightsCurrent(w) /\ Advance(w)
                  /\ UNCHANGED <<package, authority, starts, trail>>

\* The comment, the checkpoint of the human wait, the approvals and the merge
\* observation, each at a time of its own.
Attest(w, what) == /\ At(w, what) /\ Record(w, what) /\ Advance(w)
                   /\ UNCHANGED <<package, authority, starts>>

GuardClosure(w) ==
    /\ At(w, "guard") /\ RightsCurrent(w) /\ Advance(w)
    /\ guards' = guards \cup {w}
    /\ UNCHANGED <<package, revision, starts, trail>>

Close(w) ==
    /\ At(w, "close") /\ Record(w, "close")
    /\ guards' = guards \ {w}
    /\ Goto(w, "closed")
    /\ UNCHANGED <<claims, Refs, faults, job, revision, run, starts>>

\* The run throws, or its process dies; whoever held the authority for it lets go.
Stop(w) ==
    /\ pc[w] \notin Ended
    /\ Fail(w, "stopped")
    /\ guards' = guards \ {w}
    /\ run' = [run EXCEPT ![w] = NoRun]
    /\ trail' = [trail EXCEPT ![w] = <<>>]
    /\ UNCHANGED <<claims, Refs, faults, revision, starts>>

Revise == /\ revision < MaxRevisions /\ guards = {}
          /\ revision' = revision + 1
          /\ UNCHANGED <<package, guards, run, starts, trail>>

Step(w) == \/ Start(w) \/ Draft(w) \/ ResolveRights(w) \/ CheckBinding(w) \/ Guard(w)
           \/ PackageStep(w) \/ Packaged(w)
           \/ CheckHead(w) \/ CheckRights(w)
           \/ \E what \in {"comment", "wait", "approve", "merge"} : Attest(w, what)
           \/ GuardClosure(w) \/ Close(w) \/ Stop(w)

Next == \/ \E w \in Workers : Step(w)
        \/ Revise
        \/ Others /\ UNCHANGED <<authority, run, starts, trail>>

Spec == Init /\ [][Next]_vars

-----------------------------------------------------------------------------

TypeOK == /\ guards \subseteq Workers
          /\ \A w \in Workers : /\ pc[w] \notin Ended => run[w].id \in Runs
                                /\ run[w].step \in 0..Len(Closing)

\* The proposal is moved by one package, whose grant was claimed before, however
\* many runs race for it; who is told that its package is in place, or that the
\* ref did not move, is told the truth whatever the transaction reported
\* (reconcileRefAttempt).
PackageTold ==
    /\ \A i \in DOMAIN proposal : proposal[i] # Foreign =>
          /\ i = 1
          /\ \E c \in Range(claims) : c.grant.artifact = proposal[i].artifact
    /\ \A w \in Workers :
          /\ pc[w] \in {"packaged", "closing", "closed"} =>
                job[w].commit \in Range(proposal) /\ job[w].claim \in Range(claims)
          /\ pc[w] = "stale" => ~ applied[w]

\* A closure stands on evidence of one proposal under one revision of its claims
\* and rights: while the package was commented, awaited, approved and observed
\* merged nobody moved either, although each step lets go of both.
ClosureUndisturbed ==
    \A w \in Workers : pc[w] = "closed" =>
       /\ [i \in 1..6 |-> trail[w][i].what]
              = <<"package", "comment", "wait", "approve", "merge", "close">>
       /\ \A i \in 1..6 : trail[w][i].revision = run[w].revision
       /\ \A i \in 2..5 : trail[w][i].head = job[w].commit
=============================================================================

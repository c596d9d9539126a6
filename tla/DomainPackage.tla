--------------------------- MODULE DomainPackage ----------------------------
(***************************************************************************)
(* The packaging of a domain proposal: a worker spends an operation grant  *)
(* in the durable grant store (src/durable-domain-stores.ts) and then      *)
(* moves the proposal ref of the repository from the base commit to the    *)
(* package (packageDraftPullRequest of src/domain-git-packager.ts), while  *)
(* others claim grants and move refs.                                      *)
(*                                                                         *)
(* Trees, patches, signatures and expiry are left out: what they refuse is *)
(* the worker that stops.                                                  *)
(***************************************************************************)
EXTENDS Naturals, Sequences, SequencesExt

CONSTANTS Workers,
          Runs,       \* authorized runs, each a run id and an attempt
          Artifacts,  \* the artifact sets a model may draft
          Marks,      \* challenges and instants: what two claims, or two commits, differ in
          Foreign,    \* a commit that is not a package
          None,
          MaxPushes,  \* commits that others push to the proposal ref (bound)
          MaxFaults   \* lost acknowledgements and failing transactions (bound)

VARIABLES claims,    \* the journal of the operation-grant store
          proposal,  \* what the proposal ref has pointed to since the base commit
          moved,     \* the default ref has left the base commit
          faults,
          pc,        \* where each worker is
          job,       \* its grant, store position, claim, commit, and what it saw
          applied    \* history: its ref transaction has moved the ref
package == <<claims, proposal, moved, faults, pc, job, applied>>

NoJob == [grant |-> None, position |-> 0, claim |-> None, commit |-> None,
          error |-> FALSE, default |-> FALSE, head |-> None]

PackageInit == /\ claims = <<>> /\ proposal = <<>>
               /\ moved = FALSE /\ faults = 0
               /\ pc = [w \in Workers |-> "idle"]
               /\ job = [w \in Workers |-> NoJob]
               /\ applied = [w \in Workers |-> FALSE]

Goto(w, where) == pc' = [pc EXCEPT ![w] = where]
Note(w, field, value) == job' = [job EXCEPT ![w][field] = value]
Fail(w, as) == Goto(w, as) /\ job' = [job EXCEPT ![w] = NoJob]
Refs == <<proposal, moved, applied>>
Fault == faults < MaxFaults /\ faults' = faults + 1

\* What the proposal ref points to; None is the base commit.
Tip == IF proposal = <<>> THEN None ELSE Last(proposal)

-----------------------------------------------------------------------------
(* The grant store: one slot for each position of the chain. *)

\* The packager takes no proposal that has commits of its own, and fences its
\* claim on the store head it reads.
ReadHead(w) ==
    /\ pc[w] = "packaging"
    /\ IF moved \/ Tip # None THEN Fail(w, "stale")
       ELSE Note(w, "position", Len(claims)) /\ Goto(w, "claiming")
    /\ UNCHANGED <<claims, Refs, faults>>

CheckFence(w) ==
    /\ pc[w] = "claiming"
    /\ IF Len(claims) = job[w].position THEN Goto(w, "scanning") /\ UNCHANGED job
       ELSE Fail(w, "refused")
    /\ UNCHANGED <<claims, Refs, faults>>

\* The redemption key is spent, or the operation of the run is, under another key.
Spent(claim, grant) ==
    \/ claim.grant = grant
    \/ claim.grant.run = grant.run /\ claim.grant.sequence = grant.sequence

\* The whole chain is searched, and the claim signed for the slot behind the fence.
Scan(w) ==
    /\ pc[w] = "scanning"
    /\ IF \E i \in DOMAIN claims : Spent(claims[i], job[w].grant)
       THEN Fail(w, "refused")
       ELSE /\ \E m \in Marks :
                  Note(w, "claim", [slot |-> job[w].position + 1, grant |-> job[w].grant,
                                    mark |-> m])
            /\ Goto(w, "appending")
    /\ UNCHANGED <<claims, Refs, faults>>

\* Mutant: the claim takes the next slot that is free.
AnySlot(claim) == TRUE

\* appendOnce to the key of the slot.
SlotFree(claim) == \A i \in DOMAIN claims : claims[i].slot # claim.slot

Landed(claim) == IF SlotFree(claim) THEN Append(claims, claim) ELSE claims

\* An occupied slot refuses, whatever it holds.
AppendClaim(w) ==
    /\ pc[w] = "appending"
    /\ claims' = Landed(job[w].claim)
    /\ IF SlotFree(job[w].claim) THEN Goto(w, "claimed") /\ UNCHANGED job
       ELSE Fail(w, "refused")
    /\ UNCHANGED <<Refs, faults>>

\* Without an acknowledgement the slot is read again; what is found in it, the
\* claim's own bytes included, is not proof that this worker won it.
AppendInDoubt(w) ==
    /\ pc[w] = "appending"
    /\ Fault
    /\ claims' \in {claims, Landed(job[w].claim)}
    /\ Fail(w, IF job[w].claim \in Range(claims') THEN "ambiguous" ELSE "refused")
    /\ UNCHANGED Refs

-----------------------------------------------------------------------------
(* The ref transaction, and its reconciliation by reads. *)

\* The commit is made from the artifact set and the instant, on the base commit.
Prepare(w) ==
    /\ pc[w] = "claimed"
    /\ IF moved \/ Tip # None THEN Fail(w, "stale")
       ELSE /\ \E m \in Marks :
                  Note(w, "commit", [artifact |-> job[w].grant.artifact, at |-> m])
            /\ Goto(w, "updating")
    /\ UNCHANGED <<claims, Refs, faults>>

\* "verify default base; update proposal commit base".
Movable == ~ moved /\ Tip = None

UpdateRef(w) ==
    /\ pc[w] = "updating" /\ Movable
    /\ proposal' = Append(proposal, job[w].commit)
    /\ applied' = [applied EXCEPT ![w] = TRUE]
    /\ Note(w, "error", FALSE)
    /\ Goto(w, "reconciling")
    /\ UNCHANGED <<claims, moved, faults>>

\* The transaction fails after it was applied, or is said to be done and is not.
UpdateMisreported(w) ==
    /\ pc[w] = "updating"
    /\ Fault
    /\ \/ /\ Movable /\ proposal' = Append(proposal, job[w].commit)
          /\ applied' = [applied EXCEPT ![w] = TRUE]
          /\ Note(w, "error", TRUE)
       \/ /\ UNCHANGED <<proposal, applied>>
          /\ Note(w, "error", FALSE)
    /\ Goto(w, "reconciling")
    /\ UNCHANGED <<claims, moved>>

\* The refs are read a last time before the transaction, which may still find
\* them moved.
UpdateRefused(w) ==
    /\ pc[w] = "updating" /\ ~ Movable
    /\ \/ Fail(w, "stale")
       \/ Note(w, "error", TRUE) /\ Goto(w, "reconciling")
    /\ UNCHANGED <<claims, Refs, faults>>

ReadDefault(w) ==
    /\ pc[w] = "reconciling"
    /\ Note(w, "default", ~ moved)
    /\ Goto(w, "default read")
    /\ UNCHANGED <<claims, Refs, faults>>

\* Mutant: the outcome is what the transaction said it was.
Believed(w) == IF job[w].error THEN None ELSE job[w].commit

\* The outcome is what the proposal ref points to.
Found(w) == Tip

ReadProposal(w) ==
    /\ pc[w] = "default read"
    /\ IF job[w].default /\ Found(w) \in {None, job[w].commit}
       THEN Note(w, "head", Found(w)) /\ Goto(w, "confirming")
       ELSE Fail(w, "ambiguous")
    /\ UNCHANGED <<claims, Refs, faults>>

\* One transaction verifies that the two readings are true together.
Confirm(w) ==
    /\ pc[w] = "confirming"
    /\ IF moved \/ Found(w) # job[w].head THEN Fail(w, "ambiguous")
       ELSE IF job[w].head = None THEN Fail(w, "stale")
       ELSE Goto(w, "packaged") /\ UNCHANGED job
    /\ UNCHANGED <<claims, Refs, faults>>

Package(w) ==
    \/ ReadHead(w) \/ CheckFence(w) \/ Scan(w) \/ AppendClaim(w) \/ AppendInDoubt(w)
    \/ Prepare(w) \/ UpdateRef(w) \/ UpdateMisreported(w) \/ UpdateRefused(w)
    \/ ReadDefault(w) \/ ReadProposal(w) \/ Confirm(w)

\* Others push on top of the proposal, or move the default branch.
Push == /\ Len(SelectSeq(proposal, LAMBDA c : c = Foreign)) < MaxPushes
        /\ proposal' = Append(proposal, Foreign)
        /\ UNCHANGED <<claims, moved, faults, pc, job, applied>>

MoveDefault == /\ ~ moved /\ moved' = TRUE
               /\ UNCHANGED <<claims, proposal, faults, pc, job, applied>>

Others == Push \/ MoveDefault

-----------------------------------------------------------------------------

\* A redemption key, and an operation of a run, is spent once: the fence of a
\* claim is its slot, so that whatever lands between the scan of the chain and
\* the append takes the slot (claim of openDurableDomainOperationGrantStore).
\* The slot of a record is its place in the chain, which every read asserts.
GrantSpentOnce ==
    \A i \in DOMAIN claims :
       /\ claims[i].slot = i
       /\ \A j \in DOMAIN claims : Spent(claims[i], claims[j].grant) => i = j
=============================================================================

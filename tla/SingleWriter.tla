---------------------------- MODULE SingleWriter ----------------------------
(***************************************************************************)
(* The Single Writer (GitHubSingleWriter of src/github-adapter.ts): how    *)
(* executions, of one claimant or of several, that were given the same     *)
(* idempotency key write one effect to GitHub and keep the authenticated   *)
(* chain of evidence about it.  Every await is a point where the others    *)
(* move; an execution may die at each of them; the evidence store and      *)
(* GitHub may fail, with or without having done what they were asked, and  *)
(* GitHub may read behind its writes.                                      *)
(***************************************************************************)
EXTENDS Naturals, Sequences

CONSTANTS Executions,
          Claimant,     \* the claimantId each execution was started with
          Plan,         \* the effect plan each execution was started with
          MaxAttempts,  \* retryPolicy.maxAttempts
          NoEffect, Foreign,    \* what GitHub shows apart from the planned effects
          ReviewComment,    \* the planned effect is a review comment
          MaxRuns       \* invocations of execute in all (bound of the model)

Claimants == {Claimant[e] : e \in Executions}
Plans == {Plan[e] : e \in Executions}

ASSUME WriterAssumption == /\ MaxAttempts \in 1 .. 16
                           /\ MaxRuns \in Nat
                           /\ ReviewComment \in BOOLEAN
                           /\ NoEffect \notin Plans
                           /\ Foreign \notin Plans \cup {NoEffect}

VARIABLES
    chain,      \* the evidence records of the idempotency key
    effect,     \* what stands on GitHub
    inFlight,   \* executions whose write GitHub has neither applied nor dropped
    landed,     \* writes GitHub has applied
    drifted,    \* the bound state has moved on since the plan was made
    due,        \* the latest retry deadline has passed
    pc,         \* where each execution is
    claim,      \* the length of the chain each execution builds on
    phase,      \* which of its resolutions it is in
    draft,      \* the record it is appending
    goal,       \* what it does once that record is durable
    local,      \* executions whose process remembers a retry deadline
    result,     \* how its last invocation ended
    sends,      \* writes sent to GitHub
    runs        \* invocations so far

outside == <<effect, inFlight, landed, drifted, due, sends>>
locals == <<claim, phase, draft, goal>>
vars == <<chain, outside, pc, locals, local, result, runs>>

EvidenceStates == {"pending", "retryable", "completed", "partial"}
Terminal == {"completed", "partial"}
Evidence == [state: EvidenceStates, claimant: Claimants, plan: Plans,
             effect: Plans \cup {NoEffect, Foreign}, writeAttempts: Nat]

Goals == {"claim", "attempt", "retryable", "partial", "reconciled", "applied"}
Succeeded == {"applied", "reconciled", "replayed"}

Latest == chain[Len(chain)]

\* readEvidence, through validateEvidence: every record must carry the plan of the execution.
ReplayConflict(e) == \E i \in DOMAIN chain : chain[i].plan # Plan[e]

\* What assertEvidenceTransition accepts of two neighbours.
Follows(previous, current) ==
    /\ current.claimant = previous.claimant
    /\ current.plan = previous.plan
    /\ previous.state \notin Terminal
    /\ CASE current.state = "pending" ->
                current.writeAttempts = previous.writeAttempts + 1
         [] current.state = "retryable" ->
                /\ previous.state = "pending"
                /\ current.writeAttempts = previous.writeAttempts
         [] current.state = "completed" ->
                current.writeAttempts = IF previous.writeAttempts = 0 THEN 1
                                        ELSE previous.writeAttempts
         [] current.state = "partial" ->
                current.writeAttempts = previous.writeAttempts

Starts(record) == record.state = "pending" /\ record.writeAttempts = 0

Record(e, state, seen, attempts) ==
    [state |-> state, claimant |-> Claimant[e], plan |-> Plan[e],
     effect |-> seen, writeAttempts |-> attempts]

-----------------------------------------------------------------------------
(* An execution goes to its next await, or ends. *)

Goto(e, where) == pc' = [pc EXCEPT ![e] = where]

End(e, how) ==
    /\ pc' = [pc EXCEPT ![e] = "idle"]
    /\ result' = [result EXCEPT ![e] = how]
    /\ claim' = [claim EXCEPT ![e] = 0]
    /\ phase' = [phase EXCEPT ![e] = "initial"]
    /\ draft' = [draft EXCEPT ![e] = Record(e, "pending", NoEffect, 0)]
    /\ goal' = [goal EXCEPT ![e] = "claim"]

\* The draft goes to conditionalAppendEvidence on top of the given claim.
Propose(e, base, record, purpose) ==
    /\ claim' = [claim EXCEPT ![e] = base]
    /\ draft' = [draft EXCEPT ![e] = record]
    /\ goal' = [goal EXCEPT ![e] = purpose]
    /\ Goto(e, "appending")
    /\ UNCHANGED <<phase, result>>

\* execute: the remembered deadline is checked before anything is read.
Start(e) ==
    /\ pc[e] = "idle"
    /\ runs < MaxRuns
    /\ runs' = runs + 1
    /\ IF e \in local /\ ~ due
       THEN End(e, "RETRY_NOT_BEFORE") /\ UNCHANGED local
       ELSE /\ local' = local \ {e}
            /\ Goto(e, "fresh")
            /\ UNCHANGED <<locals, result>>
    /\ UNCHANGED <<chain, outside>>

CheckFresh(e) ==
    /\ pc[e] = "fresh"
    /\ IF drifted THEN End(e, "STALE")
       ELSE Goto(e, "reading") /\ UNCHANGED <<locals, result>>
    /\ UNCHANGED <<chain, outside, local, runs>>

\* The part of resolveEvidence before its first await.
Standing(e, i) ==
    LET state == chain[i] IN
    IF state.state = "completed"
    THEN IF state.effect = Plan[e] THEN "replayed" ELSE "REPLAY_CONFLICT"
    ELSE IF state.state = "partial" THEN "PARTIAL_EFFECT"
    ELSE IF state.claimant # Claimant[e] THEN "CONCURRENCY_CONFLICT"
    ELSE IF state.state = "retryable" /\ state.writeAttempts >= MaxAttempts THEN "RETRY_EXHAUSTED"
    ELSE IF state.state = "retryable" /\ ~ due THEN "RETRY_NOT_BEFORE"
    ELSE "observe"

Resolve(e, i, which) ==
    IF Standing(e, i) = "observe"
    THEN /\ claim' = [claim EXCEPT ![e] = i]
         /\ phase' = [phase EXCEPT ![e] = which]
         /\ Goto(e, "observing")
         /\ UNCHANGED <<draft, goal, result>>
    ELSE End(e, Standing(e, i))

ReadEvidence(e) ==
    /\ pc[e] = "reading"
    /\ IF ReplayConflict(e) THEN End(e, "REPLAY_CONFLICT")
       ELSE IF chain = <<>>
       THEN Propose(e, 0, Record(e, "pending", NoEffect, 0), "claim")
       ELSE Resolve(e, Len(chain), "initial")
    /\ UNCHANGED <<chain, outside, local, runs>>

\* A read of GitHub may trail the write it looks for.
Visible == {effect, NoEffect}

\* Mutant: a write that nobody observed is sent again.
SettledUnlessSeen(e, seen) == seen # NoEffect

\* The claim cannot be resumed: something stands on GitHub, or a write was
\* recorded whose outcome nobody saw.
Settled(e, seen) ==
    LET state == chain[claim[e]] IN
    seen # NoEffect \/ (state.state = "pending" /\ state.writeAttempts > 0)

Larger(a, b) == IF a < b THEN b ELSE a

\* resolveEvidence from its observation on.
Observe(e) ==
    /\ pc[e] = "observing"
    /\ \E seen \in Visible :
          LET attempts == chain[claim[e]].writeAttempts IN
          IF Settled(e, seen)
          THEN IF seen = Plan[e]
               THEN Propose(e, claim[e], Record(e, "completed", seen, Larger(1, attempts)), "reconciled")
               ELSE Propose(e, claim[e], Record(e, "partial", seen, attempts), "partial")
          ELSE IF phase[e] = "recovering" THEN End(e, "CLAIM_RECONCILIATION_REQUIRED")
          ELSE /\ Goto(e, IF phase[e] = "initial" THEN "confirming" ELSE "refreshing")
               /\ UNCHANGED <<locals, result>>
    /\ UNCHANGED <<chain, outside, local, runs>>

\* The claim must still be the head when it is read once more.
Confirm(e) ==
    /\ pc[e] = "confirming"
    /\ IF ReplayConflict(e) THEN End(e, "REPLAY_CONFLICT")
       ELSE IF claim[e] # Len(chain) THEN End(e, "CONCURRENCY_CONFLICT")
       ELSE Resolve(e, claim[e], "confirmed")
    /\ UNCHANGED <<chain, outside, local, runs>>

RecordAttempt(e) ==
    /\ pc[e] = "refreshing"
    /\ LET attempts == chain[claim[e]].writeAttempts IN
       IF drifted THEN End(e, "STALE")
       ELSE IF attempts >= MaxAttempts THEN End(e, "RETRY_EXHAUSTED")
       ELSE Propose(e, claim[e], Record(e, "pending", NoEffect, attempts + 1), "attempt")
    /\ UNCHANGED <<chain, outside, local, runs>>

-----------------------------------------------------------------------------
(* appendEvidence *)

\* The expected head of conditionalAppendEvidence is the actual one.
HeadMatches(e) == claim[e] = Len(chain)

Land(e) == /\ HeadMatches(e)
           /\ chain' = Append(chain, draft[e])
           /\ due' = (due /\ draft[e].state # "retryable")
           /\ UNCHANGED <<effect, inFlight, landed, drifted, sends>>

AppendLands(e) ==
    /\ pc[e] = "appending"
    /\ Land(e)
    /\ Goto(e, "rereading")
    /\ UNCHANGED <<locals, local, result, runs>>

AppendConflicts(e) ==
    /\ pc[e] = "appending"
    /\ ~ HeadMatches(e)
    /\ Goto(e, "conflicted")
    /\ UNCHANGED <<chain, outside, locals, local, result, runs>>

\* The store fails; only an ambiguous failure may hide a landed record, and
\* only the first claim and the last record are looked for after it.
AppendFails(e) ==
    /\ pc[e] = "appending"
    /\ \E ambiguous \in BOOLEAN :
          /\ \/ ambiguous /\ Land(e)
             \/ UNCHANGED <<chain, outside>>
          /\ CASE ambiguous /\ goal[e] = "claim" ->
                      Goto(e, "recovering") /\ UNCHANGED <<locals, result>>
               [] ambiguous /\ goal[e] = "applied" ->
                      Goto(e, "acknowledging") /\ UNCHANGED <<locals, result>>
               [] OTHER -> End(e, "API_ERROR")
    /\ UNCHANGED <<local, runs>>

\* Mutant: an append that lost the head is sent again as it is.
ConflictedResends(e) ==
    /\ pc[e] = "conflicted"
    /\ IF ReplayConflict(e) THEN End(e, "REPLAY_CONFLICT")
       ELSE Goto(e, "appending") /\ UNCHANGED <<locals, result>>
    /\ UNCHANGED <<chain, outside, local, runs>>

\* After the head has moved: a completion that someone recorded in the same
\* words counts as this one, any other change after a write is a partial
\* effect.  The records carry times, so equal words may still differ.
Conflicted(e) ==
    /\ pc[e] = "conflicted"
    /\ IF ReplayConflict(e) THEN End(e, "REPLAY_CONFLICT")
       ELSE \/ /\ goal[e] \in {"reconciled", "applied"}
               /\ Latest = draft[e]
               /\ End(e, goal[e])
            \/ End(e, IF goal[e] \in {"claim", "attempt"} THEN "CONCURRENCY_CONFLICT"
                      ELSE "PARTIAL_EFFECT")
    /\ UNCHANGED <<chain, outside, local, runs>>

\* The appended record must be observed at the head.
Reread(e) ==
    /\ pc[e] = "rereading"
    /\ IF ReplayConflict(e) THEN End(e, "REPLAY_CONFLICT") /\ UNCHANGED local
       ELSE IF Len(chain) # claim[e] + 1
       THEN End(e, "EVIDENCE_CHAIN_INVALID") /\ UNCHANGED local
       ELSE CASE goal[e] \in {"claim", "attempt"} ->
                     /\ claim' = [claim EXCEPT ![e] = Len(chain)]
                     /\ Goto(e, IF goal[e] = "claim" THEN "confirming" ELSE "final")
                     /\ UNCHANGED <<phase, draft, goal, local, result>>
              [] goal[e] = "retryable" ->
                     /\ local' = local \cup {e}
                     /\ End(e, "RETRYABLE_WRITE_FAILURE")
              [] goal[e] = "partial" -> End(e, "PARTIAL_EFFECT") /\ UNCHANGED local
              [] OTHER -> End(e, goal[e]) /\ UNCHANGED local
    /\ UNCHANGED <<chain, outside, runs>>

\* The first claim in doubt: two reads must show the same head, which is
\* then resolved but never resumed by this invocation.
Recover(e) ==
    /\ pc[e] = "recovering"
    /\ IF ReplayConflict(e) THEN End(e, "REPLAY_CONFLICT")
       ELSE \/ End(e, "CONCURRENCY_CONFLICT")   \* nothing read, or the head moved
            \/ chain # <<>> /\ Resolve(e, Len(chain), "recovering")
    /\ UNCHANGED <<chain, outside, local, runs>>

\* The last record in doubt.
Acknowledge(e) ==
    /\ pc[e] = "acknowledging"
    /\ End(e, IF ReplayConflict(e) THEN "REPLAY_CONFLICT"
              ELSE IF Latest.state = "completed" /\ Latest.effect = Plan[e] THEN "applied"
              ELSE "PARTIAL_EFFECT")
    /\ UNCHANGED <<chain, outside, local, runs>>

-----------------------------------------------------------------------------
(* The write itself. *)

\* The state is read once more, except for a review comment, whose
\* preflight came before the attempt was recorded.
Send(e) ==
    /\ pc[e] = "final"
    /\ IF drifted /\ ~ ReviewComment THEN End(e, "STALE") /\ UNCHANGED <<inFlight, sends>>
       ELSE /\ inFlight' = inFlight \cup {e}
            /\ sends' = sends + 1
            /\ Goto(e, "applying")
            /\ UNCHANGED <<locals, result>>
    /\ UNCHANGED <<chain, effect, landed, drifted, due, local, runs>>

\* applyEffect returns: GitHub has applied the write.
Applied(e) ==
    /\ pc[e] = "applying"
    /\ e \notin inFlight
    /\ Goto(e, "verifying")
    /\ UNCHANGED <<chain, outside, locals, local, result, runs>>

\* A retryable, unambiguous error: GitHub has refused the write and will
\* never apply it, so the attempt is over and may be repeated.
RefusedForNow(e) ==
    /\ pc[e] = "applying"
    /\ e \in inFlight
    /\ Propose(e, claim[e],
               Record(e, "retryable", NoEffect, chain[claim[e]].writeAttempts), "retryable")
    /\ inFlight' = inFlight \ {e}
    /\ UNCHANGED <<chain, effect, landed, drifted, due, sends, local, runs>>

\* Any other error, of a write that GitHub may have applied, or still may.
Failed(e) ==
    /\ pc[e] = "applying"
    /\ Goto(e, "inspecting")
    /\ UNCHANGED <<chain, outside, locals, local, result, runs>>

\* Mutant: an error that may hide a success is taken for a success.
InspectTrusting(e) ==
    /\ pc[e] = "inspecting"
    /\ Propose(e, claim[e],
               Record(e, "completed", Plan[e], chain[claim[e]].writeAttempts), "reconciled")
    /\ UNCHANGED <<chain, outside, local, runs>>

Inspect(e) ==
    /\ pc[e] = "inspecting"
    /\ \E seen \in Visible :
          LET attempts == chain[claim[e]].writeAttempts IN
          IF seen = Plan[e]
          THEN Propose(e, claim[e], Record(e, "completed", seen, attempts), "reconciled")
          ELSE Propose(e, claim[e], Record(e, "partial", seen, attempts), "partial")
    /\ UNCHANGED <<chain, outside, local, runs>>

\* Read-after-write verification.
Verify(e) ==
    /\ pc[e] = "verifying"
    /\ \E seen \in Visible :
          LET attempts == chain[claim[e]].writeAttempts IN
          IF seen = Plan[e]
          THEN Propose(e, claim[e], Record(e, "completed", seen, attempts), "applied")
          ELSE Propose(e, claim[e], Record(e, "partial", seen, attempts), "partial")
    /\ UNCHANGED <<chain, outside, local, runs>>

\* A read fails beyond its bounded retries, or the process dies: the
\* invocation ends where it stands.
Abort(e) ==
    /\ pc[e] # "idle"
    /\ End(e, "API_ERROR")
    /\ UNCHANGED <<chain, outside, local, runs>>

Die(e) ==
    /\ End(e, "none")
    /\ local' = local \ {e}
    /\ UNCHANGED <<chain, outside, runs>>

-----------------------------------------------------------------------------
(* Outside the writer. *)

GitHubApplies(e) ==
    /\ e \in inFlight
    /\ inFlight' = inFlight \ {e}
    /\ landed' = landed + 1
    /\ effect' = Plan[e]
    /\ UNCHANGED <<chain, drifted, due, sends, pc, locals, local, result, runs>>

GitHubDrops(e) ==
    /\ e \in inFlight
    /\ pc[e] # "applying"
    /\ inFlight' = inFlight \ {e}
    /\ UNCHANGED <<chain, effect, landed, drifted, due, sends, pc, locals, local, result, runs>>

SomeoneEdits ==
    /\ effect' = Foreign
    /\ UNCHANGED <<chain, inFlight, landed, drifted, due, sends, pc, locals, local, result, runs>>

Drift ==
    /\ drifted' = TRUE
    /\ UNCHANGED <<chain, effect, inFlight, landed, due, sends, pc, locals, local, result, runs>>

DeadlinePasses ==
    /\ due' = TRUE
    /\ UNCHANGED <<chain, effect, inFlight, landed, drifted, sends, pc, locals, local, result, runs>>

Init ==
    /\ chain = <<>>
    /\ effect = NoEffect
    /\ inFlight = {} /\ landed = 0 /\ sends = 0
    /\ drifted = FALSE /\ due = TRUE
    /\ pc = [e \in Executions |-> "idle"]
    /\ claim = [e \in Executions |-> 0]
    /\ phase = [e \in Executions |-> "initial"]
    /\ draft = [e \in Executions |-> Record(e, "pending", NoEffect, 0)]
    /\ goal = [e \in Executions |-> "claim"]
    /\ local = {} /\ runs = 0
    /\ result = [e \in Executions |-> "none"]

\* The steps an invocation takes once it has begun.
Proceed(e) ==
    \/ CheckFresh(e) \/ ReadEvidence(e) \/ Observe(e) \/ Confirm(e)
    \/ RecordAttempt(e) \/ AppendLands(e) \/ AppendConflicts(e) \/ AppendFails(e)
    \/ Conflicted(e) \/ Reread(e) \/ Recover(e) \/ Acknowledge(e)
    \/ Send(e) \/ Applied(e) \/ RefusedForNow(e) \/ Failed(e) \/ Inspect(e) \/ Verify(e)

Next ==
    \/ \E e \in Executions :
          Start(e) \/ Proceed(e) \/ Abort(e) \/ Die(e) \/ GitHubApplies(e) \/ GitHubDrops(e)
    \/ SomeoneEdits \/ Drift \/ DeadlinePasses

Spec == Init /\ [][Next]_vars

\* Calls return or fail within their timeouts, and reads are retried a
\* bounded number of times, so an invocation that has begun goes on.
FairSpec == Spec /\ \A e \in Executions : WF_vars(Proceed(e))

-----------------------------------------------------------------------------
\* The type invariant.
TypeOK ==
    /\ chain \in Seq(Evidence)
    /\ effect \in Plans \cup {NoEffect, Foreign}
    /\ inFlight \subseteq Executions
    /\ landed \in Nat /\ sends \in Nat
    /\ drifted \in BOOLEAN /\ due \in BOOLEAN
    /\ pc \in [Executions -> {"idle", "fresh", "reading", "observing", "confirming",
                  "refreshing", "appending", "rereading", "conflicted", "recovering",
                  "acknowledging", "final", "applying", "inspecting", "verifying"}]
    /\ claim \in [Executions -> Nat]
    /\ phase \in [Executions -> {"initial", "confirmed", "recovering"}]
    /\ draft \in [Executions -> Evidence]
    /\ goal \in [Executions -> Goals]
    /\ local \subseteq Executions
    /\ runs \in 0 .. MaxRuns

\* However often and by whomever the idempotency key is executed, GitHub
\* applies at most one write: through retries, lost answers, crashes between
\* the recorded attempt and its answer, and writes that land late.
WrittenOnce == TypeOK /\ landed + (IF inFlight = {} THEN 0 ELSE 1) <= 1

\* Evidence goes ahead of the write: every write that was sent is an attempt on
\* record, within the retry policy.  The chain never says completed of an effect
\* that GitHub has not applied, and a caller told that the effect stands can
\* rely on the chain: its last record is completed for that caller's own plan.  And
\* no interleaving makes the writer append what its own validation refuses, which
\* would leave an idempotency key that nobody can read any more.
ChainTruthful ==
    /\ chain # <<>> => Starts(chain[1])
    /\ \A i \in 1 .. Len(chain) - 1 : Follows(chain[i], chain[i + 1])
    /\ sends > 0 => chain # <<>> /\ sends <= Latest.writeAttempts
    /\ chain # <<>> => Latest.writeAttempts <= MaxAttempts
    /\ \A i \in DOMAIN chain : chain[i].state = "completed" => landed = 1
    /\ \A e \in Executions :
           result[e] \in Succeeded =>
               chain # <<>> /\ Latest.state = "completed" /\ Latest.effect = Plan[e]

\* An invocation always ends, nothing waits for another writer: after the last
\* of the MaxRuns invocations every execution comes to rest.
InvocationEnds == <>[](\A e \in Executions : pc[e] = "idle")
=============================================================================

-------------------------- MODULE RuntimeExecution --------------------------
(***************************************************************************)
(* An authorized execution from the signed runtime state on its work item  *)
(* to the pull request: a workflow run observes the state, redeems its     *)
(* nonce, has a patch made and hands off a signed bundle                   *)
(* (scripts/runtime-pre-activation.ts, src/copilot-runtime.ts,             *)
(* src/execution-bridge.ts); a delivery job consumes the bundle, writes    *)
(* the four effects of a draft pull request and rebinds the work item      *)
(* (src/execution-delivery.ts over the effect adapter of                   *)
(* src/engineering-slice.ts).  Between any two steps time passes, states   *)
(* are revoked, the default branch moves and other runs and jobs go on.    *)
(***************************************************************************)
EXTENDS Naturals, Sequences, FiniteSets

CONSTANTS Jobs, None,
          MaxAge,     \* maxEvidenceAgeMs of the runtime policy
          Lease,      \* how long a state's activation lease lasts
          MaxTime, MaxStates, MaxAsks, MaxFaults    \* bounds

VARIABLES
    now,
    states,      \* the signed states the App has published, and when
    revoked,     \* the states whose lease was revoked before it was redeemed
    redeemed,    \* the nonces that the redeemer has consumed
    asks,        \* what workflow runs have asked of the redeemer: a nonce, and when
    held,        \* the authorizations that runs hold
    bundles,     \* the execution bundles handed off
    job,         \* what each delivery job does
    evidence,    \* of each effect: the plan, the state, and the time of its evidence
    moved,       \* the default branch has moved from the base of the grant
    github,      \* the head branch, the pull request and the canonical binding
    decided,     \* when an effect of each bundle was last decided
    told,        \* the bundles whose delivery was told complete
    faults
authority == <<states, revoked, redeemed, asks, held, bundles>>
delivery == <<job, evidence, moved, github, decided, told>>
vars == <<now, authority, delivery, faults>>

Ordinals == 1 .. 4   \* create-branch, create-commit, create-draft-pull-request, bind

NoJob == [step |-> "idle", bundle |-> None, ordinal |-> 1, read |-> None]

Init ==
    /\ now = 0
    /\ states = <<>> /\ revoked = {} /\ redeemed = {}
    /\ asks = {} /\ held = {} /\ bundles = {}
    /\ job = [j \in Jobs |-> NoJob]
    /\ evidence = [k \in Ordinals |-> [plan |-> None, state |-> "none", at |-> 0]]
    /\ moved = FALSE
    /\ github = [branch |-> FALSE, commit |-> None, pull |-> None, binding |-> None]
    /\ decided = [n \in 1 .. MaxStates |-> 0] /\ told = {}
    /\ faults = 0

Tick == now < MaxTime /\ now' = now + 1 /\ UNCHANGED <<authority, delivery, faults>>

Fault == faults < MaxFaults /\ faults' = faults + 1
Faultless == UNCHANGED faults

-----------------------------------------------------------------------------
(* The state, its revocation, and the default branch are in others' hands. *)

\* The App publishes the state a transition of the kernel ends in, with a fresh nonce.
Publish ==
    /\ Len(states) < MaxStates
    /\ states' = Append(states, now)
    /\ UNCHANGED <<now, revoked, redeemed, asks, held, bundles, delivery, faults>>

\* What is revoked after it was redeemed is read by nobody until its age is over.
Revoke ==
    /\ \E n \in DOMAIN states \ (redeemed \cup revoked) : revoked' = revoked \cup {n}
    /\ UNCHANGED <<now, states, redeemed, asks, held, bundles, delivery, faults>>

MoveBase == ~ moved /\ moved' = TRUE
            /\ UNCHANGED <<now, authority, job, evidence, github, decided, told, faults>>

-----------------------------------------------------------------------------
(* The workflow runs.  A run that has ended leaves nothing behind but its nonce. *)

Aged(at) == now - at > MaxAge
Expires(n) == states[n] + Lease

\* The newest trusted state marker is read, and read again unchanged; it is fresh.
\* The run reads its clock, and asks.  What asks for a nonce that is gone is refused.
Evaluate ==
    /\ states # <<>> /\ Cardinality(asks) < MaxAsks
    /\ LET n == Len(states)
       IN  /\ ~ Aged(states[n]) /\ now < Expires(n) /\ n \notin redeemed
           /\ asks' = asks \cup {[nonce |-> n, at |-> now]}
    /\ UNCHANGED <<now, states, revoked, redeemed, held, bundles, delivery>> /\ Faultless

\* The redeemer consumes a nonce once, if its state is the newest still, and stamps its
\* own instant.  What was redeemed after the clock was read the run refuses, and the
\* answer may be lost: the nonce is gone all the same.
Redeem(a) ==
    /\ a.nonce = Len(states) /\ a.nonce \notin redeemed \cup revoked
    /\ redeemed' = redeemed \cup {a.nonce}
    /\ asks' = {other \in asks : other.nonce # a.nonce}
    /\ \/ /\ held' = IF now =< a.at /\ now < Expires(a.nonce)
                     THEN held \cup {[nonce |-> a.nonce, redeemed |-> now]} ELSE held
          /\ Faultless
       \/ UNCHANGED held /\ Fault
    /\ UNCHANGED <<now, states, revoked, bundles, delivery>>

\* The applied kernel result and the redemption are within their age and the lease is
\* not over.  The scan, the artifact and the bundle are younger than the redemption
\* and expire no sooner, so that their own ages add nothing to these.
Fresh(b) == /\ ~ Aged(states[b.nonce]) /\ ~ Aged(b.redeemed)
            /\ now < Expires(b.nonce)

\* The model has answered, its output is scanned, the patch is executed in its worktree
\* and signed, and the bundle goes to the delivery if its evidence is fresh still.
Handoff(b) ==
    /\ held' = held \ {b}
    /\ bundles' = IF Fresh(b) THEN bundles \cup {b} ELSE bundles
    /\ UNCHANGED <<now, states, revoked, redeemed, asks, delivery>> /\ Faultless

-----------------------------------------------------------------------------
(* A delivery job. *)

Goto(j, step) == job' = [job EXCEPT ![j].step = step]
EndJob(j) == job' = [job EXCEPT ![j] = NoJob]
JobOnly == UNCHANGED <<now, authority, evidence, moved, github, decided, told>>

\* The exact artifact is downloaded, authenticated and revalidated.
Consume(j) ==
    /\ job[j].step = "idle"
    /\ \E b \in bundles : /\ Fresh(b)
                          /\ job' = [job EXCEPT ![j] = [NoJob EXCEPT !.step = "resolved",
                                                                     !.bundle = b]]
    /\ JobOnly /\ Faultless

\* The current binding is the one that was authorized, or its rebind by a delivery.
ReadCurrent(j) ==
    /\ job[j].step = "resolved"
    /\ job' = [job EXCEPT ![j].read = github.binding,
                          ![j].step = IF github.binding = None THEN "snapshot" ELSE "start"]
    /\ JobOnly /\ Faultless

\* A draft that an earlier delivery left behind is no obstacle; a moved base is.
Snapshot(j) ==
    /\ job[j].step = "snapshot"
    /\ IF moved THEN EndJob(j) ELSE Goto(j, "start")
    /\ JobOnly /\ Faultless

Advance(j) == job' = [job EXCEPT
    ![j].step = IF @ = "bound" \/ job[j].ordinal = 4 THEN "bound" ELSE "start",
    ![j].ordinal = IF @ = 4 THEN 4 ELSE @ + 1]

K(j) == job[j].ordinal
B(j) == job[j].bundle

\* The plan of the first effect holds nothing of the bundle.
Plan(j) == IF K(j) = 1 THEN None ELSE B(j)
State(j) == evidence[K(j)].state
Claimed(j) == evidence[K(j)].plan = Plan(j) /\ State(j) = "pending"
Recorded(j, state) ==
    evidence' = [evidence EXCEPT ![K(j)] = [plan |-> Plan(j), state |-> state, at |-> now]]

\* Evidence goes behind the claim it has made, and nowhere else.
Excused(j, state) == IF Claimed(j) THEN Recorded(j, state) ELSE UNCHANGED evidence

\* A written effect is observed by its plan.
Stands(j) == CASE K(j) = 1 -> github.branch
               [] K(j) = 2 -> github.commit = B(j)
               [] K(j) = 3 -> github.pull = B(j)
               [] OTHER -> github.binding = B(j)

\* The draft is observed afresh: with the binding that the job has read.
Replays(j) == Stands(j) /\ (K(j) = 3 => github.binding = job[j].read)

\* The evidence of the effect is read and, where it is free, claimed.
Begin(j) ==
    /\ job[j].step = "start"
    /\ IF \/ ~ Fresh(B(j))
          \/ State(j) # "none" /\ (evidence[K(j)].plan # Plan(j) \/ Aged(evidence[K(j)].at))
       THEN EndJob(j) /\ UNCHANGED evidence
       ELSE CASE State(j) = "completed" ->
                 /\ IF Replays(j) THEN Advance(j) ELSE EndJob(j)
                 /\ UNCHANGED evidence
              [] State(j) \in {"none", "rejected"} ->
                 Goto(j, "claimed") /\ Recorded(j, "pending")
              [] State(j) \in {"pending", "partial"} ->
                 IF Stands(j) THEN Advance(j) /\ Recorded(j, "completed")
                 ELSE EndJob(j) /\ UNCHANGED evidence
    /\ UNCHANGED <<now, authority, moved, github, decided, told>> /\ Faultless

\* What the snapshot must show before the effect is written.
Targets(j) == CASE K(j) = 1 -> ~ moved /\ ~ github.branch /\ github.pull = None
                [] K(j) = 2 -> github.branch /\ github.commit = None /\ github.pull = None
                [] K(j) = 3 -> ~ moved /\ github.commit = B(j) /\ github.pull = None
                [] OTHER -> github.pull = B(j)

Applied(j) == CASE K(j) = 1 -> [github EXCEPT !.branch = TRUE]
                [] K(j) = 2 -> [github EXCEPT !.commit = B(j)]
                [] K(j) = 3 -> [github EXCEPT !.pull = B(j)]
                [] OTHER -> IF github.binding = None THEN [github EXCEPT !.binding = B(j)] ELSE github

\* Mutant: the freshness that the claim was made under is taken for fresh still.
WriteLate(j) ==
    /\ job[j].step = "claimed"
    /\ IF Targets(j)
       THEN /\ github' = Applied(j)
            /\ decided' = [decided EXCEPT ![B(j).nonce] = now]
            /\ Goto(j, "applied") /\ UNCHANGED evidence /\ Faultless
       ELSE /\ EndJob(j) /\ Excused(j, "rejected")
            /\ UNCHANGED <<github, decided>> /\ Faultless
    /\ UNCHANGED <<now, authority, moved, told>>

\* The targets and the freshness are checked at the last moment, and the effect is
\* applied; the acknowledgement may be lost, and the write with it.
Write(j) ==
    /\ job[j].step = "claimed"
    /\ IF Targets(j) /\ Fresh(B(j))
       THEN \/ /\ github' = Applied(j)
               /\ decided' = [decided EXCEPT ![B(j).nonce] = now]
               /\ Goto(j, "applied") /\ UNCHANGED evidence /\ Faultless
            \/ /\ github' \in {Applied(j), github}
               /\ decided' = [decided EXCEPT ![B(j).nonce] = now]
               /\ EndJob(j) /\ Excused(j, "partial") /\ Fault
       ELSE /\ EndJob(j) /\ Excused(j, "rejected")
            /\ UNCHANGED <<github, decided>> /\ Faultless
    /\ UNCHANGED <<now, authority, moved, told>>

\* What was applied is observed, fresh still, and recorded complete.
Complete(j) ==
    /\ job[j].step = "applied"
    /\ IF Stands(j) /\ Fresh(B(j)) /\ Claimed(j)
       THEN Advance(j) /\ Recorded(j, "completed")
       ELSE EndJob(j) /\ Excused(j, "partial")
    /\ UNCHANGED <<now, authority, moved, github, decided, told>> /\ Faultless

\* The binding that is persisted is the exact rebind, and so the delivery is told.
Tell(j) ==
    /\ job[j].step = "bound"
    /\ told' = IF github.binding = B(j) THEN told \cup {B(j)} ELSE told
    /\ EndJob(j)
    /\ UNCHANGED <<now, authority, evidence, moved, github, decided>> /\ Faultless

\* A job dies, and what it has claimed stays pending.
DieJob(j) == /\ job[j].step # "idle" /\ EndJob(j) /\ Fault
             /\ JobOnly

-----------------------------------------------------------------------------

JobStep(j) == \/ Consume(j) \/ ReadCurrent(j) \/ Snapshot(j) \/ Begin(j) \/ Write(j)
              \/ Complete(j) \/ Tell(j) \/ DieJob(j)

Next == \/ Tick \/ Publish \/ Revoke \/ MoveBase
        \/ Evaluate
        \/ \E a \in asks : Redeem(a)
        \/ \E b \in held : Handoff(b)
        \/ \E j \in Jobs : JobStep(j)

Spec == Init /\ [][Next]_vars

-----------------------------------------------------------------------------

\* Types.
TypeOK ==
    /\ \A b \in held \cup bundles : b.nonce \in redeemed
    /\ \A j \in Jobs : /\ job[j].step \in {"idle", "resolved", "snapshot", "start", "claimed",
                                           "applied", "bound"}
                       /\ job[j].bundle \in bundles \cup {None}
    /\ told \subseteq bundles /\ github.binding \in bundles \cup {None}

\* No effect is decided longer than the age of the policy after its authorization was
\* redeemed, nor past its lease; and what a job tells is delivered stands on the branch,
\* in the draft and in the binding, with the evidence of each effect complete.
DeliveryWithinAuthority ==
    /\ \A b \in bundles : /\ decided[b.nonce] =< b.redeemed + MaxAge
                          /\ decided[b.nonce] < Expires(b.nonce)
    /\ \A b \in told :
           /\ github = [branch |-> TRUE, commit |-> b, pull |-> b, binding |-> b]
           /\ \A k \in Ordinals : evidence[k].state = "completed"
=============================================================================

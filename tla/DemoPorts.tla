----------------------------- MODULE DemoPorts ------------------------------
(***************************************************************************)
(* The single-record ports of the demo stores                              *)
(* (src/durable-demo-stores.ts) and the callers that rely on them: the     *)
(* claim of an activation (activateDemoIssue), the grant of a selected     *)
(* agent (resolveStageAgentSelection), the receipt of a dispatch           *)
(* (persistDemoDispatchDecision), and the attempt and the usage of a model *)
(* call.  A port gives each operation a namespace of its own, so callers   *)
(* of different ports never meet: a behaviour is about one port.           *)
(* Records are never changed, so that a caller that reads back what it was *)
(* answered finds it, and these readbacks are left out.                    *)
(***************************************************************************)
EXTENDS Naturals, FiniteSets

CONSTANTS Callers,
          Keys,       \* the operations: an event, a selection, a decision, an attempt
          What, When, \* what an operation is asked to record, and at what time it is asked
          Marks,      \* the clock readings and signatures two records may differ in
          None,
          MaxFaults   \* deaths, failures and lost acknowledgements in all (bound)

VARIABLES port,
          records,  \* what the store holds, one record for each slot
          claims,   \* the attempts whose usage lookup is claimed
          lookups,  \* how often the provider was asked for the usage of each key
          faults,
          pc, slot, content,  \* where each caller is, and the record it wants there
          draft,    \* the record it would write, once it is signed
          first,    \* what the first of two reads found
          told      \* the record its operation ended with
caller == <<pc, slot, content, draft, first, told>>
vars == <<port, records, claims, lookups, faults, caller>>

Ports == {"activation", "selection", "dispatch", "attempt"}
Content == [what: What, when: When]

\* A decision's digest is its key, so that two callers cannot want different
\* receipts; the other keys leave open what, and when, is recorded.
Contents == IF port = "dispatch" THEN {CHOOSE c \in Content : TRUE} ELSE Content

\* The slot of an operation, and the slot an attempt, as it was signed, gives
\* its usage.
Own == [key: Keys, attempt: {None}]
Attempts == [slot: Own, content: Content, mark: Marks]
OfUsage == [key: Keys, attempt: Attempts]
Usages == [slot: OfUsage, content: Content, mark: Marks]
At(s) == {r \in records : r.slot = s}

Init == /\ port \in Ports
        /\ records = {} /\ claims = {} /\ faults = 0
        /\ lookups = [k \in Keys |-> 0]
        /\ pc = [p \in Callers |-> "idle"]
        /\ slot = [p \in Callers |-> None] /\ content = [p \in Callers |-> None]
        /\ draft = [p \in Callers |-> None] /\ first = [p \in Callers |-> {}]
        /\ told = [p \in Callers |-> None]

-----------------------------------------------------------------------------

Goto(p, where) == pc' = [pc EXCEPT ![p] = where]
Kept == UNCHANGED <<slot, content, draft, first, told>>
Stored == <<port, records, claims, lookups, faults>>

Answer(p, r) == /\ Goto(p, "answered")
                /\ told' = [told EXCEPT ![p] = r]
                /\ first' = [first EXCEPT ![p] = {}]
                /\ UNCHANGED <<slot, content, draft>>

\* The operation ends without a record: a conflict, or an error that says that
\* nobody knows, or that the usage is pending.
Refuse(p, as) == /\ Goto(p, as)
                 /\ first' = [first EXCEPT ![p] = {}]
                 /\ UNCHANGED <<slot, content, draft, told>>

Fault == faults < MaxFaults /\ faults' = faults + 1

Start(p) ==
    /\ pc[p] = "idle"
    /\ \E s \in Own, c \in Contents :
          slot' = [slot EXCEPT ![p] = s] /\ content' = [content EXCEPT ![p] = c]
    /\ Goto(p, "looking")
    /\ UNCHANGED <<Stored, draft, first, told>>

\* Mutant: whatever is stored for the event is the operation.
SameEvent(p, r) == r.slot = slot[p]

\* sameClaim, sameGrant, sameDecision, sameAttempt, sameUsage: everything the
\* caller asked for, and not what the store added.
Same(p, r) == r.content = content[p]

\* A record that is there decides; otherwise one is built, signed and written.
Look(p) ==
    /\ pc[p] = "looking"
    /\ IF At(slot[p]) # {}
       THEN \E r \in At(slot[p]) : IF Same(p, r) THEN Answer(p, r)
                                   ELSE Refuse(p, "conflict")
       ELSE /\ IF draft[p] # None THEN UNCHANGED draft
               ELSE \E m \in Marks : draft' = [draft EXCEPT ![p] =
                        [slot |-> slot[p], content |-> content[p], mark |-> m]]
            /\ Goto(p, "writing") /\ UNCHANGED <<slot, content, first, told>>
    /\ UNCHANGED Stored

\* appendOnce: written, found with the same bytes, or with others.
Write(p) ==
    /\ pc[p] = "writing"
    /\ records' = IF At(slot[p]) = {} THEN records \cup {draft[p]} ELSE records
    /\ IF draft[p] \in records' THEN Answer(p, draft[p])
       ELSE Goto(p, "rereading") /\ Kept
    /\ UNCHANGED <<port, claims, lookups, faults>>

\* The acknowledgement is lost, before the write took place or after.
WriteInDoubt(p) ==
    /\ pc[p] = "writing"
    /\ Fault
    /\ records' \in {records, IF At(slot[p]) = {} THEN records \cup {draft[p]} ELSE records}
    /\ Goto(p, "in doubt") /\ Kept
    /\ UNCHANGED <<port, claims, lookups>>

\* Another writer came first: with the same operation, or in conflict.
Reread(p) ==
    /\ pc[p] = "rereading"
    /\ \E r \in At(slot[p]) : IF Same(p, r) THEN Answer(p, r) ELSE Refuse(p, "conflict")
    /\ UNCHANGED Stored

ReadOnce(p, next) == /\ first' = [first EXCEPT ![p] = At(slot[p])]
                     /\ Goto(p, next)
                     /\ UNCHANGED <<Stored, slot, content, draft, told>>

DoubtRead(p) == pc[p] = "in doubt" /\ ReadOnce(p, "in doubt still")

\* Two reads that agree on the operation decide.  A selection takes anything
\* else they agree on for a conflict; every other port fails.
DoubtReadAgain(p) ==
    /\ pc[p] = "in doubt still"
    /\ IF At(slot[p]) = first[p] /\ \E r \in first[p] : Same(p, r)
       THEN \E r \in first[p] : Answer(p, r)
       ELSE Refuse(p, IF port = "selection" /\ At(slot[p]) = first[p] THEN "conflict"
                      ELSE "failed")
    /\ UNCHANGED Stored

-----------------------------------------------------------------------------
(* The usage of an attempt, once the model has been called under it. *)

Reconcile(p) ==
    /\ pc[p] = "answered" /\ port = "attempt" /\ told[p] \in Attempts
    /\ slot' = [slot EXCEPT ![p] = [key |-> slot[p].key, attempt |-> told[p]]]
    /\ draft' = [draft EXCEPT ![p] = None]
    /\ told' = [told EXCEPT ![p] = None]
    /\ Goto(p, "finding usage")
    /\ UNCHANGED <<Stored, content, first>>

FindUsage(p) ==
    /\ pc[p] = "finding usage"
    /\ IF At(slot[p]) # {} THEN \E r \in At(slot[p]) : Answer(p, r)
       ELSE Goto(p, "claiming") /\ Kept
    /\ UNCHANGED Stored

\* The first claim of an attempt has the right to ask the provider.
Claimed(p) == slot[p] \in claims

Claim(p) ==
    /\ pc[p] = "claiming"
    /\ claims' = claims \cup {slot[p]}
    /\ Goto(p, IF Claimed(p) THEN "contending" ELSE "resolving") /\ Kept
    /\ UNCHANGED <<port, records, lookups, faults>>

ClaimInDoubt(p) ==
    /\ pc[p] = "claiming"
    /\ Fault
    /\ claims' \in {claims, claims \cup {slot[p]}}
    /\ Goto(p, "claim in doubt") /\ Kept
    /\ UNCHANGED <<port, records, lookups>>

\* Mutant: a claim that is found there after a lost acknowledgement is one's own.
ClaimIsOwn == "resolving"

\* Who finds a claim cannot know that it is its own.
ClaimFound == "contending"

\* The two reads of a claim: there, at both, or nobody knows.
DoubtClaim(p) ==
    /\ pc[p] = "claim in doubt"
    /\ IF slot[p] \in claims THEN Goto(p, ClaimFound) /\ Kept ELSE Refuse(p, "failed")
    /\ UNCHANGED Stored

Contend(p) ==
    /\ pc[p] = "contending"
    /\ IF At(slot[p]) # {} THEN \E r \in At(slot[p]) : Answer(p, r)
       ELSE Refuse(p, "pending")
    /\ UNCHANGED Stored

\* The provider is asked, and the answer signed, before it is written.
Resolve(p) ==
    /\ pc[p] = "resolving"
    /\ lookups' = [lookups EXCEPT ![slot[p].key] = @ + 1]
    /\ \E m \in Marks :
          draft' = [draft EXCEPT ![p] = [slot |-> slot[p], content |-> content[p], mark |-> m]]
    /\ Goto(p, "looking")
    /\ UNCHANGED <<port, records, claims, faults, slot, content, first, told>>

-----------------------------------------------------------------------------

Leave(p) == /\ Goto(p, "idle")
            /\ slot' = [slot EXCEPT ![p] = None] /\ content' = [content EXCEPT ![p] = None]
            /\ draft' = [draft EXCEPT ![p] = None] /\ first' = [first EXCEPT ![p] = {}]
            /\ told' = [told EXCEPT ![p] = None]

Ended == {"idle", "answered", "conflict", "failed", "pending"}

Return(p) == pc[p] \in Ended \ {"idle"} /\ Leave(p) /\ UNCHANGED Stored

\* A caller dies, or a store, the signer or the provider throws.
Die(p) == /\ pc[p] \notin Ended
          /\ Fault
          /\ Leave(p)
          /\ UNCHANGED <<port, records, claims, lookups>>

Operation(p) == \/ Look(p) \/ Write(p) \/ Reread(p) \/ DoubtRead(p) \/ DoubtReadAgain(p)
Usage(p) == \/ FindUsage(p) \/ Claim(p) \/ DoubtClaim(p) \/ Contend(p) \/ Resolve(p)
Next == \E p \in Callers : \/ Start(p) \/ Operation(p) \/ Return(p)
                           \/ Reconcile(p) \/ Usage(p)
                           \/ WriteInDoubt(p) \/ ClaimInDoubt(p) \/ Die(p)

Spec == Init /\ [][Next]_vars

-----------------------------------------------------------------------------

TypeOK ==
    /\ port \in Ports
    /\ records \subseteq Attempts \cup Usages
    /\ claims \subseteq OfUsage
    /\ lookups \in [Keys -> Nat]
    /\ \A p \in Callers : /\ slot[p] \in Own \cup OfUsage \cup {None}
                          /\ draft[p] \in Attempts \cup Usages \cup {None}
                          /\ told[p] \in Attempts \cup Usages \cup {None}
                          /\ first[p] \subseteq Attempts \cup Usages

\* Whoever is answered holds the one record that is stored for its operation,
\* and it records what the caller asked for: after a race it is the winner's
\* record with the loser's content, after a lost acknowledgement the record the
\* reads found, and never a draft that is not stored or another caller's content
\* (singleKeyIdempotentWrite, classifyAmbiguousWrite, and the reconciliation of
\* claim, grant, receipt and attempt by their callers).
ToldWhatIsStored ==
    /\ TypeOK
    /\ \A p \in Callers : pc[p] = "answered" =>
          /\ At(slot[p]) = {told[p]}
          /\ told[p].content = content[p]

\* For one attempt key the provider is asked for the usage of the call at most
\* once, however many callers begin the attempt again, race for its
\* reconciliation, lose the acknowledgement of their claim or die holding it
\* (reconcile: "must never call resolveUsage", "never guess who owns
\* reconciliation rights").
LookedUpOnce == \A k \in Keys : lookups[k] <= 1
=============================================================================

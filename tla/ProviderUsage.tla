--------------------------- MODULE ProviderUsage ----------------------------
(***************************************************************************)
(* The provider usage ledger (openDurableEngineeringProviderUsageLedger of *)
(* src/durable-engineering-stores.ts): processes begin attempts and        *)
(* reconcile what they cost, each with one content-keyed append.           *)
(***************************************************************************)
EXTENDS CostTerms

CONSTANTS Processes,
          Asks,       \* the calls the processes make
          Stamps,     \* the times and signatures two documents may differ in
          Nothing,    \* no call, no document
          Excess      \* the provider reports more than the attempt may cost

VARIABLES records,  \* the attempts and the answers in the receipt journal
          pc, call, draft,
          first,    \* what the first of two rereads found
          answer    \* how the call ended, and the document it was answered with
process == <<pc, call, draft, first, answer>>
vars == <<records, process>>

Call == [op: {"begin", "reconcile"}, attempt: Attempt]
ASSUME UsageAssumption == Asks \subseteq Call

Document ==
    [kind: {"attempt"}, attempt: Attempt, stamp: Stamps]
    \cup (UNION {[kind: {"usage"}, attempt: {a}, cost: CostsOf(a) \cup {Unknown},
                  stamp: Stamps] : a \in Attempt})

\* Mutant: a usage answer is keyed by its own content.
KeyWithCost(d) == IF d.kind = "attempt" THEN <<d.attempt.res, d.attempt.phase>>
                  ELSE <<d.attempt, d.cost>>

\* An attempt has its phase for a key, an answer has its attempt.
Key(d) == IF d.kind = "attempt" THEN <<d.attempt.res, d.attempt.phase>>
          ELSE <<d.attempt>>
Slot(d) == {other \in records : other.kind = d.kind /\ Key(other) = Key(d)}

Asked(c) == IF c.op = "begin" THEN [kind |-> "attempt", attempt |-> c.attempt]
            ELSE [kind |-> "usage", attempt |-> c.attempt, cost |-> Unknown]

Init == /\ records = {}
        /\ pc = [p \in Processes |-> "idle"]
        /\ call = [p \in Processes |-> Nothing]
        /\ draft = [p \in Processes |-> Nothing]
        /\ first = [p \in Processes |-> {}]
        /\ answer = [p \in Processes |-> [as |-> "none", document |-> Nothing]]

Start(p) == /\ pc[p] = "idle"
            /\ \E c \in Asks : call' = [call EXCEPT ![p] = c]
            /\ pc' = [pc EXCEPT ![p] = "looking"]
            /\ UNCHANGED <<records, draft, first, answer>>

End(p, as, document) ==
    /\ pc' = [pc EXCEPT ![p] = "ended"]
    /\ answer' = [answer EXCEPT ![p] = [as |-> as, document |-> document]]
    /\ first' = [first EXCEPT ![p] = {}]
    /\ UNCHANGED <<records, call, draft>>

\* The stored document is the one asked for: an attempt of the same settlement
\* history, or the answer, which is final whatever it says.
SameHistory(c, d) == c.attempt = d.attempt

Find(p) ==
    /\ pc[p] = "looking"
    /\ \E d \in Slot(Asked(call[p])) :
          IF SameHistory(call[p], d) THEN End(p, "done", d)
          ELSE End(p, "conflict", Nothing)

Prepare(p, d) == /\ draft' = [draft EXCEPT ![p] = d]
                 /\ pc' = [pc EXCEPT ![p] = "appending"]
                 /\ UNCHANGED <<records, call, first, answer>>

PrepareAttempt(p) ==
    /\ pc[p] = "looking" /\ call[p].op = "begin"
    /\ Slot(Asked(call[p])) = {}
    /\ \E stamp \in Stamps :
          Prepare(p, [kind |-> "attempt", attempt |-> call[p].attempt, stamp |-> stamp])

AskProvider(p) ==
    /\ pc[p] = "looking" /\ call[p].op = "reconcile"
    /\ Slot(Asked(call[p])) = {}
    /\ pc' = [pc EXCEPT ![p] = "observing"]
    /\ UNCHANGED <<records, call, draft, first, answer>>

Recordable(a) == CostsOf(a) \cup {Unknown}

\* The provider says what it knows; an overrun is refused.
Observe(p) ==
    /\ pc[p] = "observing"
    /\ \E cost \in CostsOf(call[p].attempt) \cup {Unknown, Excess}, stamp \in Stamps :
          IF cost \in Recordable(call[p].attempt)
          THEN Prepare(p, [kind |-> "usage", attempt |-> call[p].attempt,
                           cost |-> cost, stamp |-> stamp])
          ELSE End(p, "refused", Nothing)

GoTo(p, next) == /\ pc' = [pc EXCEPT ![p] = next]
                 /\ UNCHANGED <<call, draft, first, answer>>

\* appendOnce: the key is free, or holds these very bytes, or others.
AppendOnce(p) ==
    /\ pc[p] = "appending"
    /\ CASE Slot(draft[p]) = {} -> /\ records' = records \cup {draft[p]}
                                   /\ GoTo(p, "proving")
         [] draft[p] \in records -> GoTo(p, "proving") /\ UNCHANGED records
         [] OTHER -> End(p, "conflict", Nothing)

AppendAmbiguous(p) ==
    /\ pc[p] = "appending"
    /\ records' \in {records, IF Slot(draft[p]) = {} THEN records \cup {draft[p]}
                              ELSE records}
    /\ GoTo(p, "rereading")

Reread(p) ==
    /\ pc[p] = "rereading"
    /\ first' = [first EXCEPT ![p] = Slot(draft[p])]
    /\ pc' = [pc EXCEPT ![p] = "rereading again"]
    /\ UNCHANGED <<records, call, draft, answer>>

\* Two reads that agree decide; two that differ leave the outcome unknown.
RereadAgain(p) ==
    /\ pc[p] = "rereading again"
    /\ IF Slot(draft[p]) # first[p] THEN End(p, "ambiguous", Nothing)
       ELSE IF first[p] = {draft[p]} THEN GoTo(p, "proving") /\ UNCHANGED records
       ELSE End(p, "conflict", Nothing)

Prove(p) == /\ pc[p] = "proving"
            /\ Slot(draft[p]) = {draft[p]}
            /\ End(p, "done", draft[p])

\* A store, the provider or the signer fails.
Fail(p) == pc[p] \notin {"idle", "ended"} /\ End(p, "failed", Nothing)

Reset(p) == /\ pc' = [pc EXCEPT ![p] = "idle"]
            /\ call' = [call EXCEPT ![p] = Nothing]
            /\ draft' = [draft EXCEPT ![p] = Nothing]
            /\ first' = [first EXCEPT ![p] = {}]
            /\ answer' = [answer EXCEPT ![p] = [as |-> "none", document |-> Nothing]]
            /\ UNCHANGED records

Return(p) == pc[p] = "ended" /\ Reset(p)
Die(p) == pc[p] \notin {"idle", "ended"} /\ Reset(p)

Step(p) == \/ Find(p) \/ PrepareAttempt(p) \/ AskProvider(p) \/ Observe(p)
           \/ AppendOnce(p) \/ AppendAmbiguous(p) \/ Reread(p) \/ RereadAgain(p)
           \/ Prove(p)

Next == \E p \in Processes : Start(p) \/ Step(p) \/ Fail(p) \/ Return(p) \/ Die(p)

Spec == Init /\ [][Next]_vars

-----------------------------------------------------------------------------
\* The type invariant; an answer never says more than its attempt allows.
TypeOK ==
    /\ records \subseteq Document
    /\ \A p \in Processes : /\ call[p] \in Asks \cup {Nothing}
                            /\ draft[p] \in Document \cup {Nothing}
                            /\ first[p] \subseteq Document
                            /\ answer[p].document \in Document \cup {Nothing}

\* Two callers are never told different answers for one attempt, nor two
\* attempts for one phase: what either is told is what is stored, and is what it
\* asked for, whoever wrote it.
ToldIsStored ==
    /\ TypeOK
    /\ \A p \in Processes : answer[p].as = "done" =>
           /\ Slot(answer[p].document) = {answer[p].document}
           /\ answer[p].document.attempt = call[p].attempt

Evidence == INSTANCE ProviderEvidence WITH
    attempts <- {d.attempt : d \in {e \in records : e.kind = "attempt"}},
    usages <- {[attempt |-> d.attempt, cost |-> d.cost] :
                  d \in {e \in records : e.kind = "usage"}}

\* The ledger keeps the promise the cost ledger settles by.
ImplementsProviderEvidence == Evidence!EvidenceSpec
=============================================================================

----------------------------- MODULE CostLedger -----------------------------
(***************************************************************************)
(* The engineering cost ledger (openDurableEngineeringCostLedger of        *)
(* src/durable-engineering-stores.ts): processes reserve, hold, settle and *)
(* release against one journal, each deriving its entry from a snapshot    *)
(* and committing it by compare-and-swap on the head of that snapshot.     *)
(*                                                                         *)
(* A head is modelled by the number of entries before it, and a signed     *)
(* document by what it says; a second hold of a phase is never written, so *)
(* a hold is named by its reservation and its phase.                       *)
(***************************************************************************)
EXTENDS ProviderEvidence, Sequences

CONSTANTS Processes,
          Asked,        \* the calls the processes make
          Observed,     \* the attempts made, with what the provider may say
          MaxAttempts,  \* COST_LEDGER_MAX_ATTEMPTS
          Nothing       \* no call, no entry

Call ==
    [op: {"reserve"}, res: Reservations]
    \cup [op: {"hold"}, res: Reservations, phase: Phase, sequence: Phase]
    \cup (UNION {[op: {"settle"}, attempt: {a}, res: {a.res}, phase: {a.phase},
                  cost: CostsOf(a)] : a \in Attempt})
    \cup [op: {"release"}, res: Reservations, settled: 0 .. Phases,
          known: SUBSET Phase]

ASSUME LedgerAssumption == /\ Asked \subseteq Call
                           /\ Observed \subseteq Usage
                           /\ MaxAttempts \in Nat \ {0}

VARIABLES entries,  \* the journal of the ledger
          pc, call, seen, tries, draft,
          answer,   \* how the call ended, and the document it was answered with
          landed    \* history: the call has put its own entry in the journal
process == <<pc, call, seen, tries, draft, answer, landed>>
vars == <<entries, evidence, process>>

-----------------------------------------------------------------------------
(* Reading a journal L. *)

At(L, kinds, r) == {i \in DOMAIN L : L[i].kind \in kinds /\ L[i].res = r}
Holds(L, r) == At(L, {"hold"}, r)
Settlements(L, r) == At(L, {"settlement"}, r)
Lineage(L, r) == At(L, {"hold", "settlement"}, r)
Released(L, r) == At(L, {"release"}, r) # {}

SettledPhases(L, r) == {L[i].phase : i \in Settlements(L, r)}
OpenPhases(L, r) == {L[i].phase : i \in Holds(L, r)} \ SettledPhases(L, r)

Pooled(L) == IF L = <<>> THEN Budget ELSE L[Len(L)].pooled

\* The version a reservation says it has; a forged one may say zero.
ReservationVersion(L, r) == LET made == At(L, {"reservation"}, r) IN
                            IF made = {} THEN 0 ELSE L[Max(made)].version

LineageTip(L, r) == LET last == Lineage(L, r) IN
                    IF last = {} THEN ReservationVersion(L, r)
                    ELSE L[Max(last)].version

\* Mutant: what earlier settlements gave back is forgotten.
PriorForgetful(L, r) ==
    LET last == Settlements(L, r) IN
    IF last = {} THEN [calls |-> 0, spent |-> 0, returned |-> 0]
    ELSE [calls |-> L[Max(last)].calls, spent |-> L[Max(last)].spent,
          returned |-> 0]

\* The last settlement of r, or what stands for none.
Prior(L, r) ==
    LET last == Settlements(L, r) IN
    IF last = {} THEN [calls |-> 0, spent |-> 0, returned |-> 0]
    ELSE [calls |-> L[Max(last)].calls, spent |-> L[Max(last)].spent,
          returned |-> L[Max(last)].returned]

-----------------------------------------------------------------------------
(* What the derivation of a call c finds in a journal L. *)

\* Mutant: a settlement, too, is refused by a release before it is looked up.
PresentableOpen(L, c) ==
    c.op # "reserve" =>
        /\ At(L, {"reservation"}, c.res) # {}
        /\ c.op # "release" => ~Released(L, c.res)

\* The reservation is one this ledger made; a released one takes no hold.
Presentable(L, c) ==
    c.op # "reserve" =>
        /\ At(L, {"reservation"}, c.res) # {}
        /\ c.op = "hold" => ~Released(L, c.res)

\* Entry e is the one the call c asks for.
Performs(e, c) ==
    CASE c.op = "reserve" -> e.kind = "reservation" /\ Lease[e.res] = Lease[c.res]
      [] c.op = "hold" -> e.kind = "hold" /\ e.res = c.res
                          /\ e.phase = c.phase /\ e.sequence = c.sequence
      [] c.op = "settle" -> e.kind = "settlement" /\ e.attempt = c.attempt
      [] c.op = "release" -> e.kind = "release" /\ e.res = c.res
                             /\ e.settled = c.settled

Existing(L, c) == {i \in DOMAIN L : Performs(L[i], c)}

\* What is there is the same operation, not another under the same key.
Replays(L, c, e) ==
    CASE c.op = "reserve" -> e.res = c.res
      [] c.op = "hold" -> e.calls = Prior(L, c.res).calls + 1
      [] c.op = "settle" -> e.cost = c.cost
      [] c.op = "release" -> TRUE

\* Mutant: a second hold is taken while one is open.
AdmitsTwoHolds(L, c) ==
    /\ c.phase \notin {L[i].phase : i \in Holds(L, c.res)}
    /\ c.sequence = Cardinality(Holds(L, c.res)) + 1

AdmitsHold(L, c) ==
    /\ c.phase \notin {L[i].phase : i \in Holds(L, c.res)}
    /\ OpenPhases(L, c.res) = {}
    /\ c.phase \notin SettledPhases(L, c.res)
    /\ c.sequence = Cardinality(Holds(L, c.res)) + 1

HoldEntry(L, c) ==
    [kind |-> "hold", res |-> c.res, phase |-> c.phase, sequence |-> c.sequence,
     calls |-> Prior(L, c.res).calls + 1,
     version |-> LineageTip(L, c.res) + 1, pooled |-> Pooled(L)]

AdmitsReservation(L, c) == TotalReserved(c.res) <= Pooled(L)

ReservationEntry(L, c) ==
    [kind |-> "reservation", res |-> c.res, version |-> Len(L),
     pooled |-> Pooled(L) - TotalReserved(c.res)]

\* Mutant: the caller's usage is believed.
CallersEvidence(c) == c.attempt \in attempts

\* The attempt and what it cost are in the provider usage ledger.
Evidenced(c) == /\ c.attempt \in attempts
                /\ [attempt |-> c.attempt, cost |-> c.cost] \in usages

AdmitsSettlement(L, c) ==
    /\ Evidenced(c)
    /\ ~Released(L, c.res)
    /\ c.phase \in {L[i].phase : i \in Holds(L, c.res)}
    /\ c.phase = Cardinality(Settlements(L, c.res)) + 1
    /\ Prior(L, c.res).calls + 1 <= MaxCalls[c.res]
    /\ Prior(L, c.res).spent + Prior(L, c.res).returned
          + PhaseBudget[c.res][c.phase] <= TotalReserved(c.res)

SettlementEntry(L, c) ==
    LET back == PhaseBudget[c.res][c.phase] - c.cost
        hold == CHOOSE i \in Holds(L, c.res) : L[i].phase = c.phase
    IN [kind |-> "settlement", res |-> c.res, phase |-> c.phase,
        attempt |-> c.attempt, cost |-> c.cost,
        calls |-> Prior(L, c.res).calls + 1,
        spent |-> Prior(L, c.res).spent + c.cost,
        returned |-> Prior(L, c.res).returned + back,
        version |-> L[hold].version + 1, pooled |-> Pooled(L) + back]

\* Mutant: the open holds are the ones the caller knows of.
HeldByCaller(L, c) == c.known

\* The phases a release goes on holding: derived, never supplied.
Held(L, c) == OpenPhases(L, c.res)

\* What goes back: the reservation less what was spent, returned or is held.
Returned(L, c) ==
    TotalReserved(c.res) - (Prior(L, c.res).spent + Prior(L, c.res).returned
                            + BudgetOf(c.res, Held(L, c)))

AdmitsRelease(L, c) ==
    /\ ~Released(L, c.res)
    /\ c.settled = Cardinality(Settlements(L, c.res))
    /\ c.known \subseteq OpenPhases(L, c.res)
    /\ Prior(L, c.res).spent + Prior(L, c.res).returned
          + BudgetOf(c.res, Held(L, c)) <= TotalReserved(c.res)

ReleaseEntry(L, c) ==
    [kind |-> "release", res |-> c.res, settled |-> c.settled,
     open |-> Held(L, c), returned |-> Returned(L, c),
     version |-> LineageTip(L, c.res) + 1, pooled |-> Pooled(L) + Returned(L, c)]

Admits(L, c) == CASE c.op = "reserve" -> AdmitsReservation(L, c)
                  [] c.op = "hold" -> AdmitsHold(L, c)
                  [] c.op = "settle" -> AdmitsSettlement(L, c)
                  [] c.op = "release" -> AdmitsRelease(L, c)

Entry(L, c) == CASE c.op = "reserve" -> ReservationEntry(L, c)
                 [] c.op = "hold" -> HoldEntry(L, c)
                 [] c.op = "settle" -> SettlementEntry(L, c)
                 [] c.op = "release" -> ReleaseEntry(L, c)

-----------------------------------------------------------------------------
(* mutate: read, derive, commit, prove; at most MaxAttempts commits. *)

NoAnswer == [as |-> "none", document |-> Nothing]

Init ==
    /\ EvidenceInit
    /\ entries = <<>>
    /\ pc = [p \in Processes |-> "idle"]
    /\ call = [p \in Processes |-> Nothing]
    /\ seen = [p \in Processes |-> 0]
    /\ tries = [p \in Processes |-> 0]
    /\ draft = [p \in Processes |-> Nothing]
    /\ answer = [p \in Processes |-> NoAnswer]
    /\ landed = [p \in Processes |-> FALSE]

Start(p) ==
    /\ pc[p] = "idle"
    /\ \E c \in Asked : call' = [call EXCEPT ![p] = c]
    /\ pc' = [pc EXCEPT ![p] = "reading"]
    /\ UNCHANGED <<entries, evidence, seen, tries, draft, answer, landed>>

End(p, as, document) ==
    /\ pc' = [pc EXCEPT ![p] = "ended"]
    /\ answer' = [answer EXCEPT ![p] = [as |-> as, document |-> document]]
    /\ seen' = [seen EXCEPT ![p] = 0]
    /\ tries' = [tries EXCEPT ![p] = 0]
    /\ draft' = [draft EXCEPT ![p] = Nothing]
    /\ UNCHANGED <<call, landed>>

Read(p) ==
    /\ pc[p] = "reading"
    /\ seen' = [seen EXCEPT ![p] = Len(entries)]
    /\ pc' = [pc EXCEPT ![p] = "deriving"]
    /\ UNCHANGED <<entries, evidence, call, tries, draft, answer, landed>>

Snapshot(p) == SubSeq(entries, 1, seen[p])

\* The operation is in the journal already, as this call asks for it.
AnswerReplay(p) ==
    /\ pc[p] = "deriving"
    /\ Presentable(Snapshot(p), call[p])
    /\ \E i \in Existing(Snapshot(p), call[p]) :
          /\ Replays(Snapshot(p), call[p], entries[i])
          /\ End(p, "done", entries[i])
    /\ UNCHANGED <<entries, evidence>>

Derives(p) == /\ Presentable(Snapshot(p), call[p])
              /\ Existing(Snapshot(p), call[p]) = {}
              /\ Admits(Snapshot(p), call[p])

TriesLeft(p) == tries[p] < MaxAttempts

Derive(p) ==
    /\ pc[p] = "deriving"
    /\ TriesLeft(p)
    /\ Derives(p)
    /\ draft' = [draft EXCEPT ![p] = Entry(Snapshot(p), call[p])]
    /\ pc' = [pc EXCEPT ![p] = "committing"]
    /\ UNCHANGED <<entries, evidence, call, seen, tries, answer, landed>>

\* The last derivation finds the operation still undone.
GiveUp(p) ==
    /\ pc[p] = "deriving"
    /\ ~TriesLeft(p)
    /\ Derives(p)
    /\ End(p, "contended", Nothing)
    /\ UNCHANGED <<entries, evidence>>

Refuse(p) ==
    /\ pc[p] = "deriving"
    /\ ~Derives(p)
    /\ ~(/\ Presentable(Snapshot(p), call[p])
         /\ \E i \in Existing(Snapshot(p), call[p]) :
               Replays(Snapshot(p), call[p], entries[i]))
    /\ End(p, "refused", Nothing)
    /\ UNCHANGED <<entries, evidence>>

\* Mutant: the entry is appended whatever the head is.
AnyHead(p) == seen[p] <= Len(entries)

HeadExpected(p) == Len(entries) = seen[p]

\* A pool beyond its bounds ends the call before anything is written.
Committing(p) == pc[p] = "committing" /\ draft[p].pooled \in 0 .. Budget

Land(p) == /\ entries' = Append(entries, draft[p])
           /\ landed' = [landed EXCEPT ![p] = TRUE]

Commit(p) ==
    /\ Committing(p)
    /\ HeadExpected(p)
    /\ Land(p)
    /\ pc' = [pc EXCEPT ![p] = "proving"]
    /\ UNCHANGED <<evidence, call, seen, tries, draft, answer>>

\* Another process has written the very same bytes in the slot.
CommitExisting(p) ==
    /\ Committing(p)
    /\ seen[p] < Len(entries)
    /\ entries[seen[p] + 1] = draft[p]
    /\ pc' = [pc EXCEPT ![p] = "proving"]
    /\ UNCHANGED <<entries, evidence, call, seen, tries, draft, answer, landed>>

Retry(p) == /\ tries' = [tries EXCEPT ![p] = @ + 1]
            /\ pc' = [pc EXCEPT ![p] = "reading"]
            /\ draft' = [draft EXCEPT ![p] = Nothing]
            /\ seen' = [seen EXCEPT ![p] = 0]
            /\ UNCHANGED <<evidence, call, answer>>

CommitConflict(p) ==
    /\ Committing(p)
    /\ seen[p] < Len(entries)
    /\ Retry(p)
    /\ UNCHANGED <<entries, landed>>

\* The acknowledgement is lost, of a commit that landed or of one that did not.
CommitAmbiguous(p) ==
    /\ Committing(p)
    /\ \/ HeadExpected(p) /\ Land(p)
       \/ UNCHANGED <<entries, landed>>
    /\ Retry(p)

Prove(p) ==
    /\ pc[p] = "proving"
    /\ End(p, "done", draft[p])
    /\ UNCHANGED <<entries, evidence>>

\* A store or the signer fails, or the pool would leave its bounds.
Fail(p) ==
    /\ pc[p] \in {"reading", "deriving", "committing", "proving"}
    /\ End(p, "failed", Nothing)
    /\ UNCHANGED <<entries, evidence>>

Reset(p) ==
    /\ pc' = [pc EXCEPT ![p] = "idle"]
    /\ call' = [call EXCEPT ![p] = Nothing]
    /\ seen' = [seen EXCEPT ![p] = 0]
    /\ tries' = [tries EXCEPT ![p] = 0]
    /\ draft' = [draft EXCEPT ![p] = Nothing]
    /\ answer' = [answer EXCEPT ![p] = NoAnswer]
    /\ landed' = [landed EXCEPT ![p] = FALSE]
    /\ UNCHANGED <<entries, evidence>>

Return(p) == pc[p] = "ended" /\ Reset(p)

\* A process dies; nothing of the ledger is kept outside its journal.
Die(p) == pc[p] \notin {"idle", "ended"} /\ Reset(p)

-----------------------------------------------------------------------------
\* An attempt is begun under a hold its caller was given.
BeginAttempt ==
    /\ \E u \in Observed :
          LET a == u.attempt IN
          /\ a.phase \in {entries[i].phase : i \in Holds(entries, a.res)}
          /\ a.calls <= Cardinality(Settlements(entries, a.res)) + 1
          /\ Begin(a)
    /\ UNCHANGED <<entries, process>>

Reconcile == /\ \E u \in Observed : u.attempt \in attempts /\ Answer(u)
             /\ UNCHANGED <<entries, process>>

Step(p) == \/ Read(p) \/ AnswerReplay(p) \/ Derive(p) \/ GiveUp(p) \/ Refuse(p)
           \/ Commit(p) \/ CommitExisting(p) \/ CommitConflict(p)
           \/ CommitAmbiguous(p) \/ Prove(p) \/ Fail(p)

Next == \/ \E p \in Processes : Start(p) \/ Step(p) \/ Return(p) \/ Die(p)
        \/ BeginAttempt \/ Reconcile

Spec == Init /\ [][Next]_vars

-----------------------------------------------------------------------------
Kinds == {"reservation", "hold", "settlement", "release"}

\* The type invariant.
TypeOK ==
    /\ \A i \in DOMAIN entries : /\ entries[i].kind \in Kinds
                                 /\ entries[i].res \in Reservations
                                 /\ entries[i].pooled \in 0 .. Budget
    /\ attempts \subseteq Attempt
    /\ usages \subseteq Usage
    /\ pc \in [Processes -> {"idle", "reading", "deriving", "committing",
                              "proving", "ended"}]
    /\ call \in [Processes -> Asked \cup {Nothing}]
    /\ seen \in [Processes -> 0 .. Len(entries)]
    /\ tries \in [Processes -> 0 .. MaxAttempts]
    /\ landed \in [Processes -> BOOLEAN]

\* Entries d and e perform one operation.
SameOperation(d, e) ==
    /\ d.kind = e.kind
    /\ CASE d.kind = "reservation" -> Lease[d.res] = Lease[e.res]
         [] d.kind \in {"hold", "settlement"} -> d.res = e.res /\ d.phase = e.phase
         [] d.kind = "release" -> d.res = e.res

\* However callers race, retry and die, a lease reserves once, a phase is held
\* once and settled once, and a reservation is released once.
OncePerOperation ==
    \A i, j \in DOMAIN entries : i < j => ~SameOperation(entries[i], entries[j])

\* ADR 0016: either a hold lands and the release derives it, or the release
\* lands and the hold is refused: nothing is written of a reservation after
\* its release, and the release keeps exactly the holds that were open.
ReleaseCloses ==
    \A i \in DOMAIN entries : entries[i].kind = "release" =>
        /\ entries[i].open = OpenPhases(entries, entries[i].res)
        /\ \A j \in i + 1 .. Len(entries) : entries[j].res # entries[i].res

\* The ledger positions release e of journal L claims: of each settlement its
\* own and its hold's, of each hold still open its own.
Claimed(L, e) ==
    LET settled == {L[k].version : k \in Settlements(L, e.res)}
    IN settled \cup {v - 1 : v \in settled}
       \cup {L[k].version : k \in {h \in Holds(L, e.res) : L[h].phase \in e.open}}

\* validateCostRelease of engineering-slice.ts accepts every release: the
\* settlements it covers and the holds it carries claim each ledger position
\* between the reservation and the release once.
LineageWalks ==
    \A i \in DOMAIN entries : entries[i].kind = "release" =>
        LET r == entries[i].res
            claimed == Claimed(entries, entries[i])
        IN /\ claimed = ReservationVersion(entries, r) + 1 .. entries[i].version - 1
           /\ Cardinality(claimed) = 2 * Cardinality(Settlements(entries, r))
                                     + Cardinality(entries[i].open)

\* Budget leaves a hold only through a settlement that proves what was spent:
\* the provider usage ledger has the attempt and its cost, and the settlement
\* stands directly behind the hold of its phase.
SettlementsProven ==
    \A i \in DOMAIN entries : entries[i].kind = "settlement" =>
        /\ entries[i].attempt \in attempts
        /\ [attempt |-> entries[i].attempt, cost |-> entries[i].cost] \in usages
        /\ \E h \in Holds(entries, entries[i].res) :
              /\ h < i
              /\ entries[h].phase = entries[i].phase
              /\ entries[i].version = entries[h].version + 1

\* A document a caller is given is in the journal and is what it asked for; and
\* a caller whose reservation, settlement or release landed is never refused it,
\* however the acknowledgement was lost.
ToldIsDurable ==
    TypeOK /\ \A p \in Processes :
        /\ answer[p].as = "done" =>
               /\ \E i \in DOMAIN entries : entries[i] = answer[p].document
               /\ Performs(answer[p].document, call[p])
               /\ call[p].op = "reserve" => answer[p].document.res = call[p].res
               /\ call[p].op = "settle" => answer[p].document.cost = call[p].cost
        /\ landed[p] /\ call[p].op # "hold" =>
               answer[p].as \notin {"refused", "contended"}

\* The comment on the last derivation: if the operation is present, it is
\* returned.  This is what it says of every operation, holds included.
PresentIsReturned ==
    \A p \in Processes :
        landed[p] => answer[p].as \notin {"refused", "contended"}

-----------------------------------------------------------------------------
(* The ledger implements the pool. *)

SpentOf(r) == [n \in 1 .. Cardinality(Settlements(entries, r)) |->
    entries[CHOOSE i \in Settlements(entries, r) : entries[i].calls = n].cost]

AccountOf(r) ==
    [stage |-> IF Released(entries, r) THEN "released"
               ELSE IF At(entries, {"reservation"}, r) # {} THEN "open" ELSE "none",
     held |-> OpenPhases(entries, r),
     spent |-> SpentOf(r)]

Pool == INSTANCE CostPool WITH
    pool <- Pooled(entries), account <- [r \in Reservations |-> AccountOf(r)]

\* Every entry is one indivisible step of the pool and nothing else is one, for
\* pool and accounts are read off the journal; and at every instant the pool
\* and what the reservations account for add up to the budget.
ImplementsCostPool ==
    /\ Pool!PoolInit
    /\ [][entries' # entries /\ Pool!PoolNext /\ Pool!BudgetConserved']_entries
=============================================================================

-------------------------- MODULE CostLedgerProofs --------------------------
(* Proofs about the cost ledger for every set of reservations, phases,       *)
(* budgets and processes, and for journals of any length.                    *)
EXTENDS CostLedger, TLAPS, FiniteSetTheorems, SequenceTheorems, WellFoundedInduction

(* What holds of every journal L the ledger writes. *)

\* Every entry belongs to a reservation the ledger has made.
Rooted(L) == \A i \in DOMAIN L : \E k \in DOMAIN L :
                /\ L[k].kind = "reservation"
                /\ L[k].res = L[i].res

\* The settlements of a reservation are of its first phases.
InPhaseOrder(L) ==
    \A i \in DOMAIN L : L[i].kind = "settlement" =>
        L[i].phase \in 1 .. Cardinality(Settlements(L, L[i].res))

Once(L) == \A i, j \in DOMAIN L : i < j => ~SameOperation(L[i], L[j])

Closed(L) == \A i \in DOMAIN L : L[i].kind = "release" =>
                /\ L[i].open = OpenPhases(L, L[i].res)
                /\ \A j \in i + 1 .. Len(L) : L[j].res # L[i].res

Pooling(L) == \A i \in DOMAIN L : /\ L[i].kind \in Kinds
                                  /\ L[i].res \in Reservations

Sound(L) == Rooted(L) /\ InPhaseOrder(L) /\ Once(L) /\ Closed(L) /\ Pooling(L)

\* What a derivation that ends in an entry has found in its snapshot.
Allowed(L, c) ==
    /\ Presentable(L, c)
    /\ Existing(L, c) = {}
    /\ c.op = "hold" => c.phase \notin {L[i].phase : i \in Holds(L, c.res)}
    /\ c.op = "settle" => c.phase = Cardinality(Settlements(L, c.res)) + 1
    /\ c.op \in {"settle", "release"} => ~Released(L, c.res)

KindOf(c) == CASE c.op = "reserve" -> "reservation" [] c.op = "hold" -> "hold"
               [] c.op = "settle" -> "settlement" [] c.op = "release" -> "release"

-----------------------------------------------------------------------------
(* Sequences and the entries a call derives *)

LEMMA AppendFacts ==
    ASSUME NEW S, NEW L \in Seq(S), NEW e
    PROVE  /\ Append(L, e) \in Seq(S \cup {e})
           /\ Len(L) \in Nat /\ DOMAIN L = 1 .. Len(L)
           /\ Len(Append(L, e)) = Len(L) + 1
           /\ DOMAIN Append(L, e) = 1 .. Len(L) + 1
           /\ \A i \in 1 .. Len(L) : Append(L, e)[i] = L[i]
           /\ Append(L, e)[Len(L) + 1] = e
  <1>1. L \in Seq(S \cup {e})
    BY SeqMonotonic
  <1> QED BY <1>1

LEMMA PrefixOfAppend ==
    ASSUME NEW S, NEW L \in Seq(S), NEW e, NEW n \in 0 .. Len(L)
    PROVE  SubSeq(Append(L, e), 1, n) = SubSeq(L, 1, n)
  <1> DEFINE T == S \cup {e}
  <1>1. /\ L \in Seq(T) /\ Append(L, e) \in Seq(T)
        /\ \A i \in 1 .. Len(L) : Append(L, e)[i] = L[i]
        /\ Len(L) \in Nat /\ Len(Append(L, e)) = Len(L) + 1
    BY SeqMonotonic, AppendFacts
  <1>2. /\ \A i \in 1 .. n : L[i] \in T /\ Append(L, e)[i] = L[i]
        /\ n \in Nat
    BY <1>1
  <1>3. \A i \in 1 .. n : Append(L, e)[i] \in T
    BY <1>2
  <1> HIDE DEF T
  <1>4. /\ SubSeq(L, 1, n) \in Seq(T)
        /\ Len(SubSeq(L, 1, n)) = IF 1 <= n THEN n - 1 + 1 ELSE 0
        /\ \A i \in 1 .. n - 1 + 1 : SubSeq(L, 1, n)[i] = L[1 + i - 1]
    BY <1>2, SubSeqProperties
  <1>5. /\ SubSeq(Append(L, e), 1, n) \in Seq(T)
        /\ Len(SubSeq(Append(L, e), 1, n)) = IF 1 <= n THEN n - 1 + 1 ELSE 0
        /\ \A i \in 1 .. n - 1 + 1 :
              SubSeq(Append(L, e), 1, n)[i] = Append(L, e)[1 + i - 1]
    BY <1>2, <1>3, SubSeqProperties
  <1>6. \A i \in 1 .. Len(SubSeq(L, 1, n)) :
            SubSeq(Append(L, e), 1, n)[i] = SubSeq(L, 1, n)[i]
    BY <1>2, <1>4, <1>5
  <1> QED BY <1>4, <1>5, <1>6, SeqEqual

LEMMA WholePrefix ==
    ASSUME NEW S, NEW L \in Seq(S)
    PROVE  SubSeq(L, 1, Len(L)) = L
  OBVIOUS

\* Which positions of a journal an entry at its end adds to.
LEMMA AppendAt ==
    ASSUME NEW S, NEW L \in Seq(S), NEW e, NEW kinds, NEW r
    PROVE  At(Append(L, e), kinds, r) =
               IF e.kind \in kinds /\ e.res = r
               THEN At(L, kinds, r) \cup {Len(L) + 1} ELSE At(L, kinds, r)
  BY AppendFacts DEF At

\* The entry of a call is of its kind, reservation and phase.
LEMMA EntryOfCall ==
    ASSUME NEW L, NEW c \in Call
    PROVE  /\ Entry(L, c).kind = KindOf(c)
           /\ Entry(L, c).res = c.res
           /\ c.op \in {"hold", "settle"} => Entry(L, c).phase = c.phase
           /\ c.op = "release" => Entry(L, c).open = OpenPhases(L, c.res)
  <1>1. c.op \in {"reserve", "hold", "settle", "release"}
    BY DEF Call
  <1>2. CASE c.op = "reserve"
    BY <1>2 DEF Entry, ReservationEntry, KindOf
  <1>3. CASE c.op = "hold"
    BY <1>3 DEF Entry, HoldEntry, KindOf
  <1>4. CASE c.op = "settle"
    BY <1>4 DEF Entry, SettlementEntry, KindOf
  <1>5. CASE c.op = "release"
    BY <1>5 DEF Entry, ReleaseEntry, Held, KindOf
  <1> QED BY <1>1, <1>2, <1>3, <1>4, <1>5

LEMMA CallFacts ==
    ASSUME NEW c \in Call
    PROVE  /\ c.op \in {"reserve", "hold", "settle", "release"}
           /\ c.res \in Reservations
           /\ c.op \in {"hold", "settle"} => c.phase \in Phase
  BY DEF Call, Attempt

LEMMA SettlementsFinite ==
    ASSUME NEW S, NEW L \in Seq(S), NEW r
    PROVE  /\ IsFiniteSet(Settlements(L, r))
           /\ Cardinality(Settlements(L, r)) \in Nat
           /\ Len(L) + 1 \notin Settlements(L, r)
  <1>1. Len(L) \in Nat /\ DOMAIN L = 1 .. Len(L)
    BY AppendFacts
  <1>2. Settlements(L, r) \subseteq 1 .. Len(L)
    BY <1>1 DEF Settlements, At
  <1>3. IsFiniteSet(1 .. Len(L))
    BY <1>1, FS_Interval
  <1>4. IsFiniteSet(Settlements(L, r))
    BY <1>2, <1>3, FS_Subset
  <1> QED BY <1>1, <1>2, <1>4, FS_CardinalityType

\* An allowed entry keeps the journal sound.
LEMMA AppendKeepsSound ==
    ASSUME NEW S, NEW L \in Seq(S), Sound(L),
           NEW c \in Call, Allowed(L, c)
    PROVE  Sound(Append(L, Entry(L, c)))
  <1> DEFINE e == Entry(L, c)
             M == Append(L, e)
             n == Len(L) + 1
  <1>1. /\ Len(L) \in Nat /\ DOMAIN L = 1 .. Len(L)
        /\ Len(M) = n /\ DOMAIN M = 1 .. n
        /\ \A i \in 1 .. Len(L) : M[i] = L[i]
        /\ M[n] = e
    BY AppendFacts
  <1>2. /\ e.kind = KindOf(c) /\ e.res = c.res
        /\ c.op \in {"hold", "settle"} => e.phase = c.phase
        /\ c.op = "release" => e.open = OpenPhases(L, c.res)
    BY EntryOfCall
  <1>3. /\ c.op \in {"reserve", "hold", "settle", "release"}
        /\ c.res \in Reservations
        /\ c.op \in {"hold", "settle"} => c.phase \in Phase
    BY CallFacts
  <1>4. \A kinds, r : At(M, kinds, r) = IF e.kind \in kinds /\ e.res = r
                                       THEN At(L, kinds, r) \cup {n} ELSE At(L, kinds, r)
    BY AppendAt
  <1>5. \A i \in 1 .. n : i \in 1 .. Len(L) \/ i = n
    BY <1>1
  <1>6. e.kind \in Kinds
    BY <1>2, <1>3 DEF KindOf, Kinds
  <1> HIDE DEF e, M, n
  <1>7. Pooling(M)
    BY <1>1, <1>2, <1>3, <1>5, <1>6 DEF Pooling, Sound
  <1>8. Rooted(M)
    <2>1. \A i \in 1 .. Len(L) : i \in 1 .. n
      BY <1>1 DEF n
    <2>2. n \in 1 .. n
      BY <1>1 DEF n
    <2>3. \E k \in DOMAIN M : M[k].kind = "reservation" /\ M[k].res = e.res
      <3>1. CASE c.op = "reserve"
        BY <3>1, <1>1, <1>2, <2>2 DEF KindOf
      <3>2. CASE c.op # "reserve"
        <4>1. PICK k \in DOMAIN L : L[k].kind = "reservation" /\ L[k].res = c.res
          BY <3>2 DEF Allowed, Presentable, At
        <4> QED BY <4>1, <2>1, <1>1, <1>2
      <3> QED BY <3>1, <3>2
    <2> QED BY <2>1, <2>3, <1>1, <1>5 DEF Rooted, Sound
  <1>9. ~Released(L, c.res) \/ c.op = "reserve"
    BY <1>3 DEF Allowed, Presentable
  <1>10. c.op = "reserve" => \A i \in DOMAIN L : L[i].res # c.res
    <2>1. SUFFICES ASSUME c.op = "reserve", NEW i \in DOMAIN L, L[i].res = c.res
                   PROVE  FALSE
      OBVIOUS
    <2>2. PICK k \in DOMAIN L : L[k].kind = "reservation" /\ L[k].res = c.res
      BY <2>1 DEF Sound, Rooted
    <2>3. k \in Existing(L, c)
      BY <2>1, <2>2 DEF Existing, Performs
    <2> QED BY <2>3 DEF Allowed
  <1>11. InPhaseOrder(M)
    <2>1. \A r : Settlements(L, r) \subseteq Settlements(M, r)
      BY <1>4 DEF Settlements
    <2>2. \A r : Cardinality(Settlements(M, r)) \in Nat
      <3>1. M \in Seq(S \cup {e})
        BY AppendFacts DEF M
      <3> QED BY <3>1, SettlementsFinite
    <2>3. \A r : /\ Cardinality(Settlements(L, r)) \in Nat
                 /\ Cardinality(Settlements(L, r)) <= Cardinality(Settlements(M, r))
      <3>1. M \in Seq(S \cup {e})
        BY AppendFacts DEF M
      <3>2. \A r : IsFiniteSet(Settlements(M, r))
        BY <3>1, SettlementsFinite
      <3> QED BY <3>2, <2>1, SettlementsFinite, FS_Subset
    <2>4. ASSUME NEW i \in 1 .. Len(L), M[i].kind = "settlement"
          PROVE  M[i].phase \in 1 .. Cardinality(Settlements(M, M[i].res))
      <3>1. M[i].phase \in 1 .. Cardinality(Settlements(L, M[i].res))
        BY <2>4, <1>1 DEF Sound, InPhaseOrder
      <3> QED BY <3>1, <2>2, <2>3
    <2>5. ASSUME e.kind = "settlement"
          PROVE  e.phase \in 1 .. Cardinality(Settlements(M, e.res))
      <3>1. c.op = "settle"
        BY <2>5, <1>2, <1>3 DEF KindOf
      <3>2. Settlements(M, c.res) = Settlements(L, c.res) \cup {n}
        BY <1>4, <1>2, <2>5 DEF Settlements
      <3>3. /\ IsFiniteSet(Settlements(L, c.res)) /\ n \notin Settlements(L, c.res)
            /\ Cardinality(Settlements(L, c.res)) \in Nat
        BY SettlementsFinite DEF n
      <3>4. Cardinality(Settlements(M, c.res)) = Cardinality(Settlements(L, c.res)) + 1
        BY <3>2, <3>3, FS_AddElement
      <3>5. e.phase = Cardinality(Settlements(L, c.res)) + 1
        BY <3>1, <1>2 DEF Allowed
      <3> QED BY <3>3, <3>4, <3>5, <1>2
    <2> QED BY <2>4, <2>5, <1>1, <1>5 DEF InPhaseOrder
  <1>12. Once(M)
    <2>1. ASSUME NEW i \in 1 .. Len(L) PROVE ~SameOperation(L[i], e)
      <3>1. CASE c.op = "reserve"
        <4>1. i \notin Existing(L, c)
          BY DEF Allowed
        <4> QED BY <4>1, <3>1, <1>1, <1>2 DEF Existing, Performs, SameOperation, KindOf
      <3>2. CASE c.op = "hold"
        <4>1. L[i].kind = "hold" /\ L[i].res = c.res => L[i].phase # c.phase
          BY <3>2, <1>1 DEF Allowed, Holds, At
        <4> QED BY <4>1, <3>2, <1>2 DEF SameOperation, KindOf
      <3>3. CASE c.op = "settle"
        <4>1. L[i].kind = "settlement" /\ L[i].res = c.res =>
                 L[i].phase \in 1 .. Cardinality(Settlements(L, c.res))
          BY <1>1 DEF Sound, InPhaseOrder
        <4>2. c.phase = Cardinality(Settlements(L, c.res)) + 1
          BY <3>3 DEF Allowed
        <4>3. Cardinality(Settlements(L, c.res)) \in Nat
          BY SettlementsFinite
        <4>4. L[i].kind = "settlement" /\ L[i].res = c.res => L[i].phase # c.phase
          BY <4>1, <4>2, <4>3
        <4> QED BY <4>4, <3>3, <1>2 DEF SameOperation, KindOf
      <3>4. CASE c.op = "release"
        <4>1. ~(L[i].kind = "release" /\ L[i].res = c.res)
          BY <3>4, <1>1 DEF Allowed, Released, At
        <4> QED BY <4>1, <3>4, <1>2 DEF SameOperation, KindOf
      <3> QED BY <1>3, <3>1, <3>2, <3>3, <3>4
    <2>2. ASSUME NEW i \in 1 .. n, NEW j \in 1 .. n, i < j
          PROVE  ~SameOperation(M[i], M[j])
      <3>1. i \in 1 .. Len(L)
        BY <2>2, <1>1 DEF n
      <3>2. CASE j = n
        BY <3>1, <3>2, <2>1, <1>1
      <3>3. CASE j \in 1 .. Len(L)
        BY <3>1, <3>3, <2>2, <1>1 DEF Sound, Once
      <3> QED BY <3>2, <3>3, <1>5
    <2> QED BY <2>2, <1>1 DEF Once
  <1>13. Closed(M)
    <2>1. ASSUME NEW r, ~(e.kind \in {"hold", "settlement"} /\ e.res = r)
          PROVE  OpenPhases(M, r) = OpenPhases(L, r)
      <3>1. Holds(M, r) = Holds(L, r) /\ Settlements(M, r) = Settlements(L, r)
        BY <2>1, <1>4 DEF Holds, Settlements
      <3>2. \A i \in Holds(L, r) \cup Settlements(L, r) : M[i] = L[i]
        BY <1>1 DEF Holds, Settlements, At
      <3> QED BY <3>1, <3>2 DEF OpenPhases, SettledPhases
    <2>2. ASSUME NEW i \in 1 .. Len(L), M[i].kind = "release"
          PROVE  /\ M[i].open = OpenPhases(M, M[i].res)
                 /\ \A j \in i + 1 .. n : M[j].res # M[i].res
      <3>1. L[i].kind = "release" /\ M[i] = L[i]
        BY <2>2, <1>1
      <3>2. L[i].res # c.res
        <4>1. CASE c.op = "reserve"
          BY <4>1, <1>1, <1>10
        <4>2. CASE ~Released(L, c.res)
          BY <4>2, <3>1, <1>1 DEF Released, At
        <4> QED BY <4>1, <4>2, <1>9
      <3>3. OpenPhases(M, L[i].res) = OpenPhases(L, L[i].res)
        BY <2>1, <3>2, <1>2
      <3>4. /\ L[i].open = OpenPhases(L, L[i].res)
            /\ \A j \in i + 1 .. Len(L) : L[j].res # L[i].res
        BY <3>1, <1>1 DEF Sound, Closed
      <3>5. ASSUME NEW j \in i + 1 .. n PROVE M[j].res # M[i].res
        <4>1. j = n \/ (j \in i + 1 .. Len(L) /\ j \in 1 .. Len(L))
          BY <1>1 DEF n
        <4> QED BY <4>1, <3>1, <3>2, <3>4, <1>1, <1>2
      <3> QED BY <3>1, <3>3, <3>4, <3>5
    <2>3. ASSUME e.kind = "release"
          PROVE  /\ e.open = OpenPhases(M, e.res)
                 /\ \A j \in n + 1 .. n : FALSE
      <3>1. c.op = "release"
        BY <2>3, <1>2, <1>3 DEF KindOf
      <3>2. e.open = OpenPhases(L, c.res)
        BY <3>1, <1>2
      <3>3. OpenPhases(M, c.res) = OpenPhases(L, c.res)
        BY <2>1, <2>3
      <3>4. \A j \in n + 1 .. n : FALSE
        BY <1>1 DEF n
      <3> QED BY <3>2, <3>3, <3>4, <1>2
    <2> QED BY <2>2, <2>3, <1>1, <1>5 DEF Closed
  <1> QED BY <1>7, <1>8, <1>11, <1>12, <1>13 DEF Sound, M, e

-----------------------------------------------------------------------------
(* The inductive invariant: the journal is sound, and what a process is      *)
(* about to commit is what its call derives from the prefix it has seen.     *)

Typed == /\ TypeOK
         /\ \E S : entries \in Seq(S)
         /\ DOMAIN draft = Processes

Asking == \A p \in Processes :
    pc[p] \in {"reading", "deriving", "committing", "proving"} => call[p] \in Asked

Drafted == \A p \in Processes : pc[p] = "committing" =>
    /\ TriesLeft(p)
    /\ Allowed(Snapshot(p), call[p])
    /\ draft[p] = Entry(Snapshot(p), call[p])

LedgerInv == Typed /\ Asking /\ Sound(entries) /\ Drafted

\* An action that writes no entry, with what it does to the process p.
Quiet(p) ==
    /\ UNCHANGED <<entries, evidence>>
    /\ \A q \in Processes \ {p} : /\ pc'[q] = pc[q] /\ call'[q] = call[q]
                                  /\ seen'[q] = seen[q] /\ tries'[q] = tries[q]
                                  /\ draft'[q] = draft[q]
    /\ pc'[p] = "committing" =>
          /\ pc[p] = "deriving" /\ Derives(p) /\ TriesLeft(p)
          /\ call'[p] = call[p] /\ seen'[p] = seen[p] /\ tries'[p] = tries[p]
          /\ draft'[p] = Entry(Snapshot(p), call[p])

\* A commit that lands, whether or not its acknowledgement comes back.
Landing(p) ==
    /\ Committing(p) /\ HeadExpected(p)
    /\ entries' = Append(entries, draft[p])
    /\ UNCHANGED <<evidence, call>>
    /\ pc' \in {[pc EXCEPT ![p] = "proving"], [pc EXCEPT ![p] = "reading"]}
    /\ \A q \in Processes \ {p} : /\ seen'[q] = seen[q] /\ tries'[q] = tries[q]
                                  /\ draft'[q] = draft[q]

Evidencing == (\E a \in Attempt : Begin(a)) \/ (\E u \in Usage : Answer(u))

LEMMA ProcessSteps ==
    ASSUME Typed, NEW p \in Processes, Start(p) \/ Step(p) \/ Return(p) \/ Die(p)
    PROVE  Quiet(p) \/ Landing(p)
  <1> USE DEF Typed, TypeOK
  <1>1. CASE Start(p)
    BY <1>1 DEF Start, Quiet
  <1>2. CASE Read(p)
    BY <1>2 DEF Read, Quiet
  <1>3. CASE AnswerReplay(p)
    BY <1>3 DEF AnswerReplay, End, Quiet
  <1>4. CASE Derive(p)
    BY <1>4 DEF Derive, Quiet
  <1>5. CASE GiveUp(p)
    BY <1>5 DEF GiveUp, End, Quiet
  <1>6. CASE Refuse(p)
    BY <1>6 DEF Refuse, End, Quiet
  <1>7. CASE Commit(p)
    BY <1>7 DEF Commit, Land, Landing
  <1>8. CASE CommitExisting(p)
    BY <1>8 DEF CommitExisting, Quiet
  <1>9. CASE CommitConflict(p)
    BY <1>9 DEF CommitConflict, Retry, Quiet
  <1>10. CASE CommitAmbiguous(p)
    <2>1. CASE HeadExpected(p) /\ Land(p)
      BY <1>10, <2>1 DEF CommitAmbiguous, Land, Retry, Landing
    <2>2. CASE UNCHANGED <<entries, landed>>
      BY <1>10, <2>2 DEF CommitAmbiguous, Retry, Quiet
    <2> QED BY <1>10, <2>1, <2>2 DEF CommitAmbiguous
  <1>11. CASE Prove(p)
    BY <1>11 DEF Prove, End, Quiet
  <1>12. CASE Fail(p)
    BY <1>12 DEF Fail, End, Quiet
  <1>13. CASE Return(p) \/ Die(p)
    BY <1>13 DEF Return, Die, Reset, Quiet
  <1> QED BY <1>1, <1>2, <1>3, <1>4, <1>5, <1>6, <1>7, <1>8, <1>9, <1>10,
             <1>11, <1>12, <1>13 DEF Step

LEMMA DerivesAllowed ==
    ASSUME NEW p \in Processes, call[p] \in Call, Derives(p)
    PROVE  Allowed(Snapshot(p), call[p])
  <1> DEFINE L == Snapshot(p)
             c == call[p]
  <1>1. /\ c.op \in {"reserve", "hold", "settle", "release"}
        /\ Presentable(L, c) /\ Existing(L, c) = {} /\ Admits(L, c)
    BY CallFacts DEF Derives
  <1> HIDE DEF L, c
  <1>2. c.op = "hold" => c.phase \notin {L[i].phase : i \in Holds(L, c.res)}
    BY <1>1 DEF Admits, AdmitsHold
  <1>3. c.op = "settle" => /\ c.phase = Cardinality(Settlements(L, c.res)) + 1
                           /\ ~Released(L, c.res)
    BY <1>1 DEF Admits, AdmitsSettlement
  <1>4. c.op = "release" => ~Released(L, c.res)
    BY <1>1 DEF Admits, AdmitsRelease
  <1>5. Allowed(L, c)
    BY <1>1, <1>2, <1>3, <1>4 DEF Allowed
  <1> QED BY <1>5 DEF L, c

LEMMA InitHolds == ASSUME Init PROVE LedgerInv
  <1>1. entries = <<>> /\ Len(entries) = 0 /\ DOMAIN entries = {}
    BY DEF Init
  <1>2. TypeOK
    BY <1>1, LedgerAssumption DEF Init, EvidenceInit, TypeOK
  <1>3. Sound(entries)
    BY <1>1 DEF Sound, Rooted, InPhaseOrder, Once, Closed, Pooling
  <1>4. Asking /\ Drafted
    BY DEF Init, Asking, Drafted
  <1>5. entries \in Seq({}) /\ DOMAIN draft = Processes
    BY <1>1 DEF Init
  <1> QED BY <1>2, <1>3, <1>4, <1>5 DEF LedgerInv, Typed

\* Types survive each step of a process.
LEMMA ProcessTyped ==
    ASSUME Typed, Sound(entries), Asking, Drafted, NEW p \in Processes,
           Start(p) \/ Step(p) \/ Return(p) \/ Die(p)
    PROVE  Typed' /\ Asking'
  <1>1. PICK S : entries \in Seq(S)
    BY DEF Typed
  <1>2. Len(entries) \in Nat
    BY <1>1
  <1> USE DEF Typed, TypeOK, Asking, evidence
  <1>3. CASE Start(p)
    BY <1>3 DEF Start
  <1>4. CASE Read(p)
    BY <1>2, <1>4 DEF Read
  <1>5. CASE AnswerReplay(p)
    BY <1>2, <1>5, LedgerAssumption DEF AnswerReplay, End
  <1>6. CASE Derive(p)
    BY <1>6 DEF Derive
  <1>7. CASE GiveUp(p)
    BY <1>2, <1>7, LedgerAssumption DEF GiveUp, End
  <1>8. CASE Refuse(p)
    BY <1>2, <1>8, LedgerAssumption DEF Refuse, End
  <1>9. CASE Prove(p)
    BY <1>2, <1>9, LedgerAssumption DEF Prove, End
  <1>10. CASE Fail(p)
    BY <1>2, <1>10, LedgerAssumption DEF Fail, End
  <1>11. CASE Return(p) \/ Die(p)
    <2>1. /\ pc' = [pc EXCEPT ![p] = "idle"]
          /\ call' = [call EXCEPT ![p] = Nothing]
          /\ seen' = [seen EXCEPT ![p] = 0]
          /\ tries' = [tries EXCEPT ![p] = 0]
          /\ draft' = [draft EXCEPT ![p] = Nothing]
          /\ landed' = [landed EXCEPT ![p] = FALSE]
          /\ UNCHANGED <<entries, attempts, usages>>
      BY <1>11 DEF Return, Die, Reset
    <2> QED BY <1>2, <2>1, LedgerAssumption
  <1>12. CASE CommitExisting(p)
    BY <1>12 DEF CommitExisting, Committing
  <1>13. Committing(p) => tries[p] + 1 \in 0 .. MaxAttempts
    BY LedgerAssumption DEF Drafted, Committing, TriesLeft
  <1>14. CASE CommitConflict(p)
    BY <1>2, <1>13, <1>14 DEF CommitConflict, Retry, Committing
  <1>15. ASSUME Committing(p), HeadExpected(p), Land(p)
         PROVE  /\ \E T : entries' \in Seq(T)
                /\ \A i \in DOMAIN entries' : /\ entries'[i].kind \in Kinds
                                              /\ entries'[i].res \in Reservations
                                              /\ entries'[i].pooled \in 0 .. Budget
                /\ landed' \in [Processes -> BOOLEAN]
                /\ Len(entries') = Len(entries) + 1
    <2>1. /\ entries' \in Seq(S \cup {draft[p]})
          /\ DOMAIN entries = 1 .. Len(entries)
          /\ DOMAIN entries' = 1 .. Len(entries) + 1
          /\ Len(entries') = Len(entries) + 1
          /\ \A i \in 1 .. Len(entries) : entries'[i] = entries[i]
          /\ entries'[Len(entries) + 1] = draft[p]
      BY <1>1, <1>15, AppendFacts DEF Land
    <2>2. call[p] \in Call /\ draft[p] = Entry(Snapshot(p), call[p])
      BY <1>15, LedgerAssumption DEF Committing, Drafted
    <2>3. draft[p].kind \in Kinds /\ draft[p].res \in Reservations
      <3>1. /\ draft[p].kind = KindOf(call[p]) /\ draft[p].res = call[p].res
            /\ call[p].op \in {"reserve", "hold", "settle", "release"}
            /\ call[p].res \in Reservations
        BY <2>2, EntryOfCall, CallFacts
      <3> QED BY <3>1 DEF KindOf, Kinds
    <2>4. draft[p].pooled \in 0 .. Budget
      BY <1>15 DEF Committing
    <2>5. \A i \in 1 .. Len(entries) + 1 : i \in 1 .. Len(entries) \/ i = Len(entries) + 1
      BY <1>2
    <2>6. landed' \in [Processes -> BOOLEAN]
      BY <1>15 DEF Land
    <2> QED BY <2>1, <2>3, <2>4, <2>5, <2>6
  <1>16. CASE Commit(p)
    <2>1. Committing(p) /\ HeadExpected(p) /\ Land(p)
      BY <1>16 DEF Commit
    <2>2. UNCHANGED <<evidence, call, seen, tries, draft>>
          /\ pc' = [pc EXCEPT ![p] = "proving"]
      BY <1>16 DEF Commit
    <2> HIDE DEF Land
    <2> QED BY <1>2, <1>15, <2>1, <2>2 DEF Committing
  <1>17. CASE CommitAmbiguous(p)
    <2>1. Committing(p) /\ Retry(p)
      BY <1>17 DEF CommitAmbiguous
    <2>2. CASE HeadExpected(p) /\ Land(p)
      BY <1>2, <1>13, <1>15, <2>1, <2>2 DEF Retry, Committing
    <2>3. CASE UNCHANGED <<entries, landed>>
      BY <1>2, <1>13, <2>1, <2>3 DEF Retry, Committing
    <2> QED BY <1>17, <2>2, <2>3 DEF CommitAmbiguous
  <1> QED BY <1>3, <1>4, <1>5, <1>6, <1>7, <1>8, <1>9, <1>10, <1>11, <1>12,
             <1>14, <1>16, <1>17 DEF Step

LEMMA QuietKeeps ==
    ASSUME LedgerInv, NEW p \in Processes, Quiet(p)
    PROVE  Sound(entries') /\ Drafted'
  <1>1. entries' = entries
    BY DEF Quiet
  <1>2. Sound(entries')
    BY <1>1 DEF LedgerInv
  <1>3. ASSUME NEW q \in Processes, pc'[q] = "committing"
        PROVE  /\ TriesLeft(q)'
               /\ Allowed(SubSeq(entries, 1, seen'[q]), call'[q])
               /\ draft'[q] = Entry(SubSeq(entries, 1, seen'[q]), call'[q])
    <2>1. CASE q = p
      <3>1. /\ Derives(p) /\ TriesLeft(p) /\ call[p] \in Call
            /\ call'[p] = call[p] /\ seen'[p] = seen[p] /\ tries'[p] = tries[p]
            /\ draft'[p] = Entry(Snapshot(p), call[p])
        BY <1>3, <2>1, LedgerAssumption DEF Quiet, LedgerInv, Asking
      <3>2. Allowed(Snapshot(p), call[p])
        BY <3>1, DerivesAllowed
      <3> QED BY <2>1, <3>1, <3>2 DEF Snapshot, TriesLeft
    <2>2. CASE q # p
      BY <1>3, <2>2 DEF Quiet, LedgerInv, Drafted, Snapshot, TriesLeft
    <2> QED BY <2>1, <2>2
  <1> QED BY <1>1, <1>2, <1>3 DEF Drafted, Snapshot

LEMMA LandingKeeps ==
    ASSUME LedgerInv, NEW p \in Processes, Landing(p)
    PROVE  Sound(entries') /\ Drafted'
  <1>1. PICK S : entries \in Seq(S)
    BY DEF LedgerInv, Typed
  <1>2. /\ pc[p] = "committing" /\ Len(entries) = seen[p]
        /\ entries' = Append(entries, draft[p])
        /\ call' = call /\ pc'[p] # "committing"
        /\ \A q \in Processes \ {p} : /\ pc'[q] = pc[q] /\ seen'[q] = seen[q]
                                      /\ tries'[q] = tries[q] /\ draft'[q] = draft[q]
    BY DEF Landing, Committing, HeadExpected, LedgerInv, Typed, TypeOK
  <1>3. /\ call[p] \in Call /\ Allowed(entries, call[p])
        /\ draft[p] = Entry(entries, call[p])
    BY <1>1, <1>2, WholePrefix, LedgerAssumption
       DEF LedgerInv, Drafted, Asking, Snapshot
  <1>4. Sound(Append(entries, draft[p]))
    BY <1>1, <1>3, AppendKeepsSound DEF LedgerInv
  <1>5. Sound(entries')
    BY <1>2, <1>4
  <1>6. ASSUME NEW q \in Processes, pc'[q] = "committing"
        PROVE  /\ TriesLeft(q)'
               /\ Allowed(SubSeq(entries', 1, seen'[q]), call'[q])
               /\ draft'[q] = Entry(SubSeq(entries', 1, seen'[q]), call'[q])
    <2>1. q # p /\ seen[q] \in 0 .. Len(entries)
      BY <1>2, <1>6 DEF LedgerInv, Typed, TypeOK
    <2>2. SubSeq(entries', 1, seen[q]) = SubSeq(entries, 1, seen[q])
      BY <1>1, <1>2, <2>1, PrefixOfAppend
    <2>3. seen'[q] = seen[q] /\ tries'[q] = tries[q] /\ draft'[q] = draft[q]
          /\ pc[q] = "committing" /\ call'[q] = call[q]
      BY <1>2, <1>6, <2>1
    <2> QED BY <2>2, <2>3 DEF LedgerInv, Drafted, Snapshot, TriesLeft
  <1> QED BY <1>5, <1>6 DEF Drafted, Snapshot

LEMMA EvidenceKeeps ==
    ASSUME LedgerInv, BeginAttempt \/ Reconcile
    PROVE  LedgerInv'
  <1>1. UNCHANGED <<entries, process>>
    BY DEF BeginAttempt, Reconcile
  <1>2. attempts' \subseteq Attempt /\ usages' \subseteq Usage
    <2>1. CASE BeginAttempt
      <3>1. PICK u \in Usage : Begin(u.attempt)
        BY <2>1, LedgerAssumption DEF BeginAttempt
      <3>2. u.attempt \in Attempt
        BY DEF Usage
      <3> QED BY <3>1, <3>2 DEF Begin, LedgerInv, Typed, TypeOK
    <2>2. CASE Reconcile
      BY <2>2, LedgerAssumption DEF Reconcile, Answer, LedgerInv, Typed, TypeOK
    <2> QED BY <2>1, <2>2
  <1>3. Typed' /\ Asking'
    BY <1>1, <1>2 DEF LedgerInv, Typed, TypeOK, Asking, process
  <1>4. Sound(entries') /\ Drafted'
    BY <1>1 DEF LedgerInv, process, Drafted, Snapshot, TriesLeft
  <1> QED BY <1>3, <1>4 DEF LedgerInv

LEMMA StepKeeps == ASSUME LedgerInv, [Next]_vars PROVE LedgerInv'
  <1>1. CASE UNCHANGED vars
    <2>1. UNCHANGED <<entries, evidence, process>>
      BY <1>1 DEF vars
    <2>2. Typed' /\ Asking'
      BY <2>1 DEF LedgerInv, Typed, TypeOK, Asking, process, evidence
    <2>3. Sound(entries') /\ Drafted'
      BY <2>1 DEF LedgerInv, process, Drafted, Snapshot, TriesLeft
    <2> QED BY <2>2, <2>3 DEF LedgerInv
  <1>2. ASSUME NEW p \in Processes, Start(p) \/ Step(p) \/ Return(p) \/ Die(p)
        PROVE  LedgerInv'
    <2>1. Typed' /\ Asking'
      BY <1>2, ProcessTyped DEF LedgerInv
    <2>2. Quiet(p) \/ Landing(p)
      BY <1>2, ProcessSteps DEF LedgerInv
    <2>3. Sound(entries') /\ Drafted'
      BY <2>2, QuietKeeps, LandingKeeps
    <2> QED BY <2>1, <2>3 DEF LedgerInv
  <1>3. CASE BeginAttempt \/ Reconcile
    BY <1>3, EvidenceKeeps
  <1> QED BY <1>1, <1>2, <1>3 DEF Next

LEMMA Invariance == Spec => []LedgerInv
  BY InitHolds, StepKeeps, PTL DEF Spec

-----------------------------------------------------------------------------
(* The theorems. *)

\* The type invariant: in particular, no entry leaves the pool outside its
\* bounds, whatever its derivation comes to (the check at the head of commit).
THEOREM TypeCorrect == Spec => []TypeOK
  <1>1. LedgerInv => TypeOK
    BY DEF LedgerInv, Typed
  <1> QED BY <1>1, Invariance, PTL

\* However callers race, retry and die, a lease reserves once, a phase is held
\* once and settled once, and a reservation is released once.
THEOREM ReservedHeldSettledReleasedOnce == Spec => []OncePerOperation
  <1>1. LedgerInv => OncePerOperation
    BY DEF LedgerInv, Sound, Once, OncePerOperation
  <1> QED BY <1>1, Invariance, PTL

\* ADR 0016: the race of a hold and a release ends in a hold the release
\* derives or in a refusal, and a release is the last entry of its reservation.
THEOREM ReleaseIsLast == Spec => []ReleaseCloses
  <1>1. LedgerInv => ReleaseCloses
    BY DEF LedgerInv, Sound, Closed, ReleaseCloses
  <1> QED BY <1>1, Invariance, PTL

-----------------------------------------------------------------------------
(* A settlement proves what was spent *)

\* What a settlement of call c needs besides what is allowed.
SettlementFounded(L, c) ==
    c.op = "settle" =>
        Evidenced(c) /\ c.phase \in {L[i].phase : i \in Holds(L, c.res)}

Founded == \A p \in Processes :
    pc[p] = "committing" => SettlementFounded(Snapshot(p), call[p])

ProvenInv == SettlementsProven /\ Founded

LEMMA SettlementFacts ==
    ASSUME NEW L, NEW c \in Call, c.op = "settle",
           c.phase \in {L[i].phase : i \in Holds(L, c.res)}
    PROVE  LET e == Entry(L, c) IN
           /\ e.attempt = c.attempt /\ e.cost = c.cost
           /\ \E h \in Holds(L, c.res) : L[h].phase = c.phase /\ e.version = L[h].version + 1
  <1> DEFINE hold == CHOOSE i \in Holds(L, c.res) : L[i].phase = c.phase
  <1>1. hold \in Holds(L, c.res) /\ L[hold].phase = c.phase
    OBVIOUS
  <1> HIDE DEF hold
  <1>2. /\ Entry(L, c).attempt = c.attempt /\ Entry(L, c).cost = c.cost
        /\ Entry(L, c).version = L[hold].version + 1
    BY DEF Entry, SettlementEntry, hold
  <1> QED BY <1>1, <1>2

\* What was proven by the evidence at one time is proven by more of it.
LEMMA SettlementAppended ==
    ASSUME NEW S, NEW L \in Seq(S), NEW c \in Call, SettlementFounded(L, c),
           L = entries, entries' = Append(entries, Entry(L, c)), SettlementsProven,
           UNCHANGED evidence
    PROVE  SettlementsProven'
  <1> DEFINE e == Entry(L, c)
  <1>0. PICK n : n = Len(L) + 1
    OBVIOUS
  <1>1. /\ Len(L) \in Nat /\ DOMAIN L = 1 .. Len(L) /\ DOMAIN entries' = 1 .. n
        /\ \A i \in 1 .. Len(L) : entries'[i] = L[i]
        /\ entries'[n] = e
    BY <1>0, AppendFacts
  <1>2. \A r : Holds(L, r) \subseteq Holds(entries', r)
    BY <1>0, <1>1 DEF Holds, At
  <1>3. \A r : \A h \in Holds(L, r) : h \in 1 .. Len(L) /\ entries'[h] = L[h]
    BY <1>1 DEF Holds, At
  <1>4. e.kind = KindOf(c) /\ e.res = c.res /\ (c.op \in {"hold", "settle"} => e.phase = c.phase)
        /\ c.op \in {"reserve", "hold", "settle", "release"}
    BY EntryOfCall, CallFacts
  <1> HIDE DEF e
  <1>e. attempts' = attempts /\ usages' = usages
    BY DEF evidence
  <1> SUFFICES ASSUME NEW i \in DOMAIN entries', entries'[i].kind = "settlement"
               PROVE  /\ entries'[i].attempt \in attempts
                      /\ [attempt |-> entries'[i].attempt, cost |-> entries'[i].cost] \in usages
                      /\ \E h \in Holds(entries', entries'[i].res) :
                            /\ h < i
                            /\ entries'[h].phase = entries'[i].phase
                            /\ entries'[i].version = entries'[h].version + 1
    BY <1>e, Zenon DEF SettlementsProven
  <1>i. i \in 1 .. n
    BY <1>1
  <1>5. CASE i \in 1 .. Len(L)
    <2>1. entries'[i] = L[i] /\ i \in DOMAIN entries
      BY <1>1, <1>5
    <2>2. /\ L[i].attempt \in attempts
          /\ [attempt |-> L[i].attempt, cost |-> L[i].cost] \in usages
      BY <2>1 DEF SettlementsProven
    <2>3. PICK h \in Holds(L, L[i].res) :
              h < i /\ L[h].phase = L[i].phase /\ L[i].version = L[h].version + 1
      BY <2>1 DEF SettlementsProven
    <2> QED BY <1>2, <1>3, <2>1, <2>2, <2>3
  <1>6. CASE i = n
    <2>1. c.op = "settle"
      BY <1>1, <1>4, <1>6 DEF KindOf
    <2>2. /\ c.attempt \in attempts /\ [attempt |-> c.attempt, cost |-> c.cost] \in usages
          /\ c.phase \in {L[j].phase : j \in Holds(L, c.res)}
      BY <2>1 DEF SettlementFounded, Evidenced
    <2>3. e.attempt = c.attempt /\ e.cost = c.cost
      BY <2>1, <2>2, SettlementFacts DEF e
    <2>4. PICK h \in Holds(L, c.res) : L[h].phase = c.phase /\ e.version = L[h].version + 1
      BY <2>1, <2>2, SettlementFacts DEF e
    <2>5. h < n
      BY <1>0, <1>1, <1>3
    <2> QED BY <1>1, <1>2, <1>3, <1>4, <1>6, <2>1, <2>2, <2>3, <2>4, <2>5
  <1>7. i \in 1 .. Len(L) \/ i = n
    BY <1>0, <1>1
  <1> QED BY <1>5, <1>6, <1>7

LEMMA StepProven ==
    ASSUME LedgerInv, ProvenInv, [Next]_vars
    PROVE  ProvenInv'
  <1>1. ASSUME UNCHANGED entries, attempts \subseteq attempts', usages \subseteq usages'
        PROVE  SettlementsProven'
    BY <1>1 DEF ProvenInv, SettlementsProven, Holds, At
  <1>2. CASE UNCHANGED <<entries, process>> /\ attempts \subseteq attempts' /\ usages \subseteq usages'
    <2>1. Founded'
      BY <1>2 DEF ProvenInv, Founded, SettlementFounded, Evidenced, Snapshot, process, Holds, At
    <2> QED BY <1>1, <1>2, <2>1 DEF ProvenInv
  <1>3. BeginAttempt \/ Reconcile \/ UNCHANGED vars =>
            UNCHANGED <<entries, process>> /\ attempts \subseteq attempts' /\ usages \subseteq usages'
    BY DEF BeginAttempt, Reconcile, Begin, Answer, vars, evidence
  <1>4. ASSUME NEW p \in Processes, Quiet(p)
        PROVE  ProvenInv'
    <2>1. UNCHANGED <<entries, attempts, usages>>
      BY <1>4 DEF Quiet, evidence
    <2>2. ASSUME NEW q \in Processes, pc'[q] = "committing"
          PROVE  SettlementFounded(SubSeq(entries, 1, seen'[q]), call'[q])
      <3>1. CASE q = p
        <4>1. Derives(p) /\ call[p] \in Call /\ call'[p] = call[p] /\ seen'[p] = seen[p]
          BY <1>4, <2>2, <3>1, LedgerAssumption DEF Quiet, LedgerInv, Asking
        <4>2. call[p].op = "settle" => AdmitsSettlement(Snapshot(p), call[p])
          BY <4>1 DEF Derives, Admits
        <4>3. SettlementFounded(Snapshot(p), call[p])
          BY <4>2 DEF AdmitsSettlement, SettlementFounded
        <4> QED BY <3>1, <4>1, <4>3 DEF Snapshot
      <3>2. CASE q # p
        BY <1>4, <2>2, <3>2 DEF Quiet, ProvenInv, Founded, Snapshot
      <3> QED BY <3>1, <3>2
    <2>3. Founded'
      BY <2>1, <2>2 DEF Founded, Snapshot, SettlementFounded, Evidenced, Holds, At
    <2> QED BY <1>1, <2>1, <2>3 DEF ProvenInv
  <1>5. ASSUME NEW p \in Processes, Landing(p)
        PROVE  ProvenInv'
    <2>1. PICK S : entries \in Seq(S)
      BY DEF LedgerInv, Typed
    <2>2. /\ pc[p] = "committing" /\ Len(entries) = seen[p]
          /\ entries' = Append(entries, draft[p]) /\ UNCHANGED evidence
          /\ call' = call /\ pc'[p] # "committing"
          /\ \A q \in Processes \ {p} : pc'[q] = pc[q] /\ seen'[q] = seen[q]
      BY <1>5 DEF Landing, Committing, HeadExpected, LedgerInv, Typed, TypeOK
    <2>3. /\ call[p] \in Call /\ draft[p] = Entry(entries, call[p])
          /\ SettlementFounded(entries, call[p])
      BY <2>1, <2>2, WholePrefix, LedgerAssumption
         DEF LedgerInv, ProvenInv, Drafted, Founded, Asking, Snapshot
    <2>4. SettlementsProven'
      BY <2>1, <2>2, <2>3, SettlementAppended DEF ProvenInv
    <2>5. ASSUME NEW q \in Processes, pc'[q] = "committing"
          PROVE  SettlementFounded(SubSeq(entries', 1, seen'[q]), call'[q])
      <3>1. q # p /\ seen[q] \in 0 .. Len(entries)
        BY <2>2, <2>5 DEF LedgerInv, Typed, TypeOK
      <3>2. SubSeq(entries', 1, seen[q]) = SubSeq(entries, 1, seen[q])
        BY <2>1, <2>2, <3>1, PrefixOfAppend
      <3> QED BY <2>2, <2>5, <3>1, <3>2 DEF ProvenInv, Founded, Snapshot
    <2>6. Founded'
      BY <2>2, <2>5 DEF Founded, Snapshot, SettlementFounded, Evidenced, Holds, At, evidence
    <2> QED BY <2>4, <2>6 DEF ProvenInv
  <1>6. ASSUME NEW p \in Processes, Start(p) \/ Step(p) \/ Return(p) \/ Die(p)
        PROVE  ProvenInv'
    BY <1>4, <1>5, <1>6, ProcessSteps DEF LedgerInv
  <1> QED BY <1>2, <1>3, <1>6 DEF Next

\* However the ledger, the provider's answers and the deaths of callers
\* interleave, no budget leaves a hold but through a settlement whose attempt
\* and cost the provider usage ledger holds, directly behind the hold.
THEOREM SettlementsAreProven == Spec => []SettlementsProven
  <1>1. Init => ProvenInv
    BY DEF Init, ProvenInv, SettlementsProven, Founded
  <1>2. LedgerInv /\ ProvenInv /\ [Next]_vars => ProvenInv'
    BY StepProven
  <1>3. ProvenInv => SettlementsProven
    BY DEF ProvenInv
  <1> QED BY <1>1, <1>2, <1>3, Invariance, PTL DEF Spec

-----------------------------------------------------------------------------
(* What a caller is told is durable *)

\* Document e answers call c.
Answers(e, c) ==
    /\ Performs(e, c)
    /\ c.op = "reserve" => e.res = c.res
    /\ c.op = "settle" => e.cost = c.cost

InJournal(e) == \E i \in DOMAIN entries : entries[i] = e

\* A derivation of c from L would find c done, and answer with it.
Own(L, c) ==
    /\ c.op # "reserve" => At(L, {"reservation"}, c.res) # {}
    /\ \E i \in Existing(L, c) : Answers(L[i], c)

\* A process that is not through has been told nothing, a process that has
\* landed its entry derives from a journal that holds it, and what a process
\* will be told, or has been, is in the journal.
Told(p) ==
    /\ pc[p] # "ended" => answer[p] = NoAnswer
    /\ pc[p] \in {"idle", "committing"} => ~landed[p]
    /\ pc[p] = "proving" => InJournal(draft[p]) /\ Answers(draft[p], call[p])
    /\ answer[p].as = "done" =>
           InJournal(answer[p].document) /\ Answers(answer[p].document, call[p])
    /\ landed[p] =>
           /\ call[p] \in Asked
           /\ Own(entries, call[p])
           /\ pc[p] = "deriving" => Own(Snapshot(p), call[p])
           /\ call[p].op # "hold" => answer[p].as \notin {"refused", "contended"}

ToldInv == /\ answer = [p \in Processes |-> answer[p]]
           /\ \A p \in Processes : Told(p)

LEMMA EntryAnswers ==
    ASSUME NEW L, NEW c \in Call
    PROVE  Answers(Entry(L, c), c)
  <1>1. c.op \in {"reserve", "hold", "settle", "release"}
    BY CallFacts
  <1>2. CASE c.op = "reserve"
    BY <1>2 DEF Entry, ReservationEntry, Answers, Performs
  <1>3. CASE c.op = "hold"
    BY <1>3 DEF Entry, HoldEntry, Answers, Performs
  <1>4. CASE c.op = "settle"
    BY <1>4 DEF Entry, SettlementEntry, Answers, Performs
  <1>5. CASE c.op = "release"
    BY <1>5 DEF Entry, ReleaseEntry, Answers, Performs
  <1> QED BY <1>1, <1>2, <1>3, <1>4, <1>5

LEMMA OwnGrows ==
    ASSUME NEW S, NEW L \in Seq(S), NEW e, NEW c
    PROVE  /\ Own(L, c) => Own(Append(L, e), c)
           /\ Presentable(L, c) /\ Answers(e, c) => Own(Append(L, e), c)
  <1> DEFINE M == Append(L, e)
  <1>1. PICK n : n = Len(L) + 1
    OBVIOUS
  <1>2. /\ Len(L) \in Nat /\ DOMAIN L = 1 .. Len(L) /\ DOMAIN M = 1 .. n
        /\ \A i \in 1 .. Len(L) : M[i] = L[i]
        /\ M[n] = e
    BY <1>1, AppendFacts
  <1> HIDE DEF M
  <1>3. \A i \in DOMAIN L : i \in DOMAIN M /\ M[i] = L[i]
    BY <1>1, <1>2
  <1>4. At(L, {"reservation"}, c.res) # {} => At(M, {"reservation"}, c.res) # {}
    BY <1>3 DEF At
  <1>5. ASSUME Own(L, c) PROVE Own(M, c)
    BY <1>3, <1>4, <1>5 DEF Own, Existing
  <1>6. ASSUME Presentable(L, c), Answers(e, c) PROVE Own(M, c)
    <2>1. n \in DOMAIN M /\ M[n] = e /\ Performs(e, c)
      BY <1>1, <1>2, <1>6 DEF Answers
    <2> QED BY <1>4, <1>6, <2>1 DEF Own, Existing, Presentable
  <1> QED BY <1>5, <1>6 DEF M

\* Where an operation is done, no derivation begins and none is refused.
LEMMA OwnDecides ==
    ASSUME NEW c \in Call, NEW L, Own(L, c)
    PROVE  /\ Existing(L, c) # {}
           /\ c.op # "hold" => /\ Presentable(L, c)
                               /\ \E i \in Existing(L, c) : Replays(L, c, L[i])
  <1>1. c.op \in {"reserve", "hold", "settle", "release"}
    BY CallFacts
  <1>2. PICK i \in Existing(L, c) : Answers(L[i], c)
    BY DEF Own
  <1>3. c.op # "hold" => Replays(L, c, L[i])
    BY <1>1, <1>2 DEF Answers, Replays
  <1> QED BY <1>2, <1>3 DEF Own, Presentable

LEMMA PrefixFacts ==
    ASSUME NEW S, NEW L \in Seq(S), NEW n \in 0 .. Len(L)
    PROVE  \A i \in DOMAIN SubSeq(L, 1, n) : i \in DOMAIN L /\ SubSeq(L, 1, n)[i] = L[i]
  OBVIOUS

\* The others see the journal stay or grow, and nothing else.
LEMMA OthersTold ==
    ASSUME LedgerInv, ToldInv, NEW q \in Processes, NEW e,
           entries' = entries \/ entries' = Append(entries, e),
           /\ pc'[q] = pc[q] /\ call'[q] = call[q] /\ seen'[q] = seen[q]
           /\ draft'[q] = draft[q] /\ answer'[q] = answer[q] /\ landed'[q] = landed[q]
    PROVE  Told(q)'
  <1>1. PICK S : entries \in Seq(S)
    BY DEF LedgerInv, Typed
  <1>2. seen[q] \in 0 .. Len(entries)
    BY DEF LedgerInv, Typed, TypeOK
  <1>3. SubSeq(entries', 1, seen[q]) = SubSeq(entries, 1, seen[q])
    BY <1>1, <1>2, PrefixOfAppend
  <1>4. \A d : InJournal(d) => InJournal(d)'
    BY <1>1, AppendFacts DEF InJournal
  <1>5. \A c : Own(entries, c) => Own(entries', c)
    BY <1>1, OwnGrows
  <1> QED BY <1>3, <1>4, <1>5 DEF ToldInv, Told, Snapshot

\* A call that is not through and ends, or goes on, without a document.
LEMMA EndTold ==
    ASSUME LedgerInv, ToldInv, NEW p \in Processes, NEW as, NEW document,
           End(p, as, document), entries' = entries,
           as = "done" => InJournal(document) /\ Answers(document, call[p]),
           landed[p] /\ call[p].op # "hold" => as \notin {"refused", "contended"}
    PROVE  Told(p)'
  <1>1. /\ pc'[p] = "ended" /\ answer'[p] = [as |-> as, document |-> document]
        /\ call' = call /\ landed' = landed
    BY DEF End, LedgerInv, Typed, TypeOK, ToldInv
  <1>2. \A d : InJournal(d) => InJournal(d)'
    BY DEF InJournal
  <1>3. PICK given : given = answer'[p]
    OBVIOUS
  <1>4. given.as = as /\ given.document = document
    BY <1>1, <1>3
  <1>5. landed[p] => call[p] \in Asked /\ Own(entries, call[p])
    BY DEF ToldInv, Told
  <1> QED BY <1>1, <1>2, <1>3, <1>4, <1>5 DEF Told

LEMMA DecidedTold ==
    ASSUME LedgerInv, ToldInv, NEW p \in Processes,
           AnswerReplay(p) \/ GiveUp(p) \/ Refuse(p) \/ Prove(p) \/ Fail(p)
    PROVE  Told(p)'
  <1>1. PICK S : entries \in Seq(S)
    BY DEF LedgerInv, Typed
  <1>2. \A i \in DOMAIN Snapshot(p) : i \in DOMAIN entries /\ Snapshot(p)[i] = entries[i]
    BY <1>1, PrefixFacts DEF Snapshot, LedgerInv, Typed, TypeOK
  <1>3. PICK c : c = call[p]
    OBVIOUS
  <1>4. ASSUME pc[p] = "deriving"
        PROVE  c \in Call /\ (landed[p] => Own(Snapshot(p), c))
    BY <1>3, <1>4, LedgerAssumption DEF LedgerInv, Asking, ToldInv, Told
  <1>5. CASE AnswerReplay(p)
    <2>1. PICK i \in Existing(Snapshot(p), c) :
              Replays(Snapshot(p), c, entries[i]) /\ End(p, "done", entries[i])
      BY <1>3, <1>5 DEF AnswerReplay
    <2>2. i \in DOMAIN entries /\ Performs(entries[i], c)
      BY <1>2, <2>1 DEF Existing
    <2>3. c.op \in {"reserve", "hold", "settle", "release"}
      BY <1>4, <1>5, CallFacts DEF AnswerReplay
    <2>4. InJournal(entries[i]) /\ Answers(entries[i], c)
      BY <2>1, <2>2, <2>3 DEF InJournal, Answers, Replays
    <2> QED BY <1>3, <1>5, <2>1, <2>4, EndTold DEF AnswerReplay
  <1>6. CASE GiveUp(p)
    <2>1. pc[p] = "deriving" /\ Existing(Snapshot(p), c) = {}
      BY <1>3, <1>6 DEF GiveUp, Derives
    <2>2. ~landed[p]
      BY <1>4, <2>1, OwnDecides
    <2> QED BY <1>6, <2>2, EndTold DEF GiveUp
  <1>7. CASE Refuse(p)
    <2>1. /\ pc[p] = "deriving"
          /\ ~(/\ Presentable(Snapshot(p), c)
               /\ \E i \in Existing(Snapshot(p), c) : Replays(Snapshot(p), c, entries[i]))
      BY <1>3, <1>7 DEF Refuse
    <2>2. \A i \in Existing(Snapshot(p), c) : entries[i] = Snapshot(p)[i]
      BY <1>2 DEF Existing
    <2>3. landed[p] => c.op = "hold"
      BY <1>4, <2>1, <2>2, OwnDecides
    <2> QED BY <1>3, <1>7, <2>3, EndTold DEF Refuse
  <1>8. CASE Prove(p)
    BY <1>8, EndTold DEF Prove, ToldInv, Told
  <1>9. CASE Fail(p)
    BY <1>9, EndTold DEF Fail
  <1> QED BY <1>5, <1>6, <1>7, <1>8, <1>9

LEMMA LandedTold ==
    ASSUME LedgerInv, ToldInv, NEW p \in Processes, Landing(p), Land(p),
           UNCHANGED <<answer, draft>> \/ (pc'[p] = "reading" /\ UNCHANGED answer)
    PROVE  Told(p)'
  <1>1. PICK S : entries \in Seq(S)
    BY DEF LedgerInv, Typed
  <1>2. /\ pc[p] = "committing" /\ Len(entries) = seen[p]
        /\ entries' = Append(entries, draft[p]) /\ call' = call
        /\ pc'[p] \in {"proving", "reading"} /\ answer'[p] = answer[p]
        /\ answer[p] = NoAnswer
        /\ pc'[p] = "proving" => draft'[p] = draft[p]
    BY DEF Landing, Committing, HeadExpected, LedgerInv, Typed, TypeOK, ToldInv, Told
  <1>3. /\ call[p] \in Call /\ call[p] \in Asked /\ Presentable(entries, call[p])
        /\ draft[p] = Entry(entries, call[p])
    BY <1>1, <1>2, WholePrefix, LedgerAssumption
       DEF LedgerInv, Drafted, Asking, Snapshot, Allowed
  <1>4. Answers(draft[p], call[p])
    BY <1>3, EntryAnswers
  <1>5. Own(entries', call[p])
    BY <1>1, <1>2, <1>3, <1>4, OwnGrows
  <1>6. \E i \in DOMAIN entries' : entries'[i] = draft[p]
    <2>1. Len(entries) + 1 \in DOMAIN entries' /\ entries'[Len(entries) + 1] = draft[p]
      BY <1>1, <1>2, AppendFacts
    <2> QED BY <2>1
  <1> QED BY <1>2, <1>3, <1>4, <1>5, <1>6 DEF Told, InJournal, NoAnswer

LEMMA GoesOnTold ==
    ASSUME LedgerInv, ToldInv, NEW p \in Processes,
           Start(p) \/ Read(p) \/ Derive(p) \/ CommitExisting(p) \/ Return(p) \/ Die(p)
           \/ (Committing(p) /\ Retry(p) /\ UNCHANGED <<entries, landed>>)
    PROVE  Told(p)'
  <1>1. PICK S : entries \in Seq(S)
    BY DEF LedgerInv, Typed
  <1> USE DEF LedgerInv, Typed, TypeOK, ToldInv
  <1>2. CASE Start(p)
    <2>1. /\ pc[p] = "idle" /\ pc'[p] = "reading" /\ answer'[p] = answer[p]
          /\ landed'[p] = landed[p]
      BY <1>2 DEF Start
    <2> QED BY <2>1 DEF Told, NoAnswer
  <1>3. CASE Read(p)
    <2>1. /\ pc[p] = "reading" /\ pc'[p] = "deriving" /\ seen'[p] = Len(entries)
          /\ UNCHANGED <<entries, call, answer, landed>>
      BY <1>3 DEF Read
    <2>2. SubSeq(entries', 1, seen'[p]) = entries
      BY <1>1, <2>1, WholePrefix
    <2>3. answer[p] = NoAnswer /\ (landed[p] => call[p] \in Asked /\ Own(entries, call[p]))
      BY <2>1 DEF Told
    <2>4. Snapshot(p)' = entries
      BY <2>2 DEF Snapshot
    <2> HIDE DEF LedgerInv, Typed, TypeOK, ToldInv
    <2> QED BY <2>1, <2>3, <2>4 DEF Told, NoAnswer
  <1>4. CASE Derive(p)
    <2>1. /\ pc[p] = "deriving" /\ pc'[p] = "committing"
          /\ Existing(Snapshot(p), call[p]) = {}
          /\ UNCHANGED <<entries, call, answer, landed>>
      BY <1>4 DEF Derive, Derives
    <2>2. ~landed[p]
      BY <2>1, OwnDecides, LedgerAssumption DEF Told
    <2> QED BY <2>1, <2>2 DEF Told, NoAnswer
  <1>5. CASE CommitExisting(p)
    <2>1. /\ pc[p] = "committing" /\ pc'[p] = "proving"
          /\ seen[p] < Len(entries) /\ entries[seen[p] + 1] = draft[p]
          /\ UNCHANGED <<entries, call, answer, landed, draft>>
      BY <1>5 DEF CommitExisting, Committing
    <2>2. call[p] \in Call /\ draft[p] = Entry(Snapshot(p), call[p])
      BY <2>1, LedgerAssumption DEF Drafted, Asking
    <2>3. Answers(draft[p], call[p])
      BY <2>2, EntryAnswers
    <2>4. seen[p] + 1 \in DOMAIN entries
      BY <1>1, <2>1
    <2> QED BY <2>1, <2>3, <2>4 DEF Told, InJournal, NoAnswer
  <1>6. CASE Return(p) \/ Die(p)
    <2>1. pc'[p] = "idle" /\ answer'[p] = NoAnswer /\ ~landed'[p]
      BY <1>6 DEF Return, Die, Reset
    <2> QED BY <2>1 DEF Told, NoAnswer
  <1>7. CASE Committing(p) /\ Retry(p) /\ UNCHANGED <<entries, landed>>
    <2>1. /\ pc[p] = "committing" /\ pc'[p] = "reading"
          /\ UNCHANGED <<entries, call, answer, landed>>
      BY <1>7 DEF Committing, Retry
    <2> QED BY <2>1 DEF Told, NoAnswer
  <1> QED BY <1>2, <1>3, <1>4, <1>5, <1>6, <1>7

LEMMA StepTold ==
    ASSUME LedgerInv, ToldInv, [Next]_vars
    PROVE  ToldInv'
  <1>1. CASE UNCHANGED <<entries, process>>
    <2>1. UNCHANGED <<entries, pc, call, seen, draft, answer, landed>>
      BY <1>1 DEF process
    <2> QED BY <2>1, OthersTold DEF ToldInv
  <1>2. ASSUME NEW p \in Processes, Start(p) \/ Step(p) \/ Return(p) \/ Die(p)
        PROVE  ToldInv'
    <2>1. Told(p)'
      <3>1. CASE AnswerReplay(p) \/ GiveUp(p) \/ Refuse(p) \/ Prove(p) \/ Fail(p)
        BY <3>1, DecidedTold
      <3>2. CASE \/ Start(p) \/ Read(p) \/ Derive(p) \/ CommitExisting(p)
                 \/ Return(p) \/ Die(p)
        BY <3>2, GoesOnTold
      <3>3. CASE Commit(p)
        <4>1. Landing(p) /\ Land(p) /\ UNCHANGED <<answer, draft>>
          BY <3>3 DEF Commit, Land, Landing
        <4> QED BY <4>1, LandedTold
      <3>4. CASE CommitConflict(p)
        BY <3>4, GoesOnTold DEF CommitConflict
      <3>5. CASE CommitAmbiguous(p)
        <4>1. CASE HeadExpected(p) /\ Land(p)
          <5>1. /\ Landing(p) /\ Land(p) /\ UNCHANGED answer /\ pc'[p] = "reading"
            BY <3>5, <4>1 DEF CommitAmbiguous, Land, Retry, Landing, LedgerInv, Typed, TypeOK
          <5> QED BY <5>1, LandedTold
        <4>2. CASE UNCHANGED <<entries, landed>>
          BY <3>5, <4>2, GoesOnTold DEF CommitAmbiguous
        <4> QED BY <3>5, <4>1, <4>2 DEF CommitAmbiguous
      <3> QED BY <1>2, <3>1, <3>2, <3>3, <3>4, <3>5 DEF Step
    <2>2. /\ \E value : answer' = [answer EXCEPT ![p] = value]
          /\ entries' = entries \/ entries' = Append(entries, draft[p])
          /\ \A q \in Processes \ {p} :
                /\ pc'[q] = pc[q] /\ call'[q] = call[q] /\ seen'[q] = seen[q]
                /\ draft'[q] = draft[q] /\ landed'[q] = landed[q]
      <3> USE DEF LedgerInv, Typed, TypeOK
      <3>0. answer = [answer EXCEPT ![p] = answer[p]]
        BY DEF ToldInv
      <3>1. CASE AnswerReplay(p) \/ GiveUp(p) \/ Refuse(p) \/ Prove(p) \/ Fail(p)
        BY <3>1 DEF AnswerReplay, GiveUp, Refuse, Prove, Fail, End
      <3>2. CASE Start(p) \/ Read(p) \/ Derive(p) \/ CommitExisting(p)
        BY <3>0, <3>2 DEF Start, Read, Derive, CommitExisting
      <3>3. CASE Return(p) \/ Die(p)
        BY <3>3 DEF Return, Die, Reset
      <3>4. CASE Commit(p) \/ CommitConflict(p) \/ CommitAmbiguous(p)
        BY <3>0, <3>4 DEF Commit, CommitConflict, CommitAmbiguous, Retry, Land
      <3> QED BY <1>2, <3>1, <3>2, <3>3, <3>4 DEF Step
    <2>3. PICK value : answer' = [answer EXCEPT ![p] = value]
      BY <2>2
    <2>4. \A q \in Processes \ {p} : answer'[q] = answer[q]
      BY <2>3 DEF ToldInv
    <2>5. \A q \in Processes \ {p} : Told(q)'
      BY <2>2, <2>4, OthersTold
    <2>6. answer' = [q \in Processes |-> answer'[q]]
      BY <2>3 DEF ToldInv
    <2> QED BY <2>1, <2>5, <2>6 DEF ToldInv
  <1>3. BeginAttempt \/ Reconcile \/ UNCHANGED vars => UNCHANGED <<entries, process>>
    BY DEF BeginAttempt, Reconcile, vars
  <1> QED BY <1>1, <1>2, <1>3 DEF Next

\* A document a caller is given is in the journal and is what it asked for,
\* and a caller whose entry landed unheard is never refused it when it comes
\* back, unless it was a hold.
THEOREM TellsOnlyTheDurable == Spec => []ToldIsDurable
  <1>1. Init => ToldInv
    BY DEF Init, ToldInv, Told, NoAnswer
  <1>2. LedgerInv /\ ToldInv /\ [Next]_vars => ToldInv'
    BY StepTold
  <1>3. LedgerInv /\ ToldInv => ToldIsDurable
    <2> SUFFICES ASSUME LedgerInv, ToldInv, NEW p \in Processes
                 PROVE  /\ TypeOK
                        /\ answer[p].as = "done" =>
                               /\ InJournal(answer[p].document)
                               /\ Answers(answer[p].document, call[p])
                        /\ landed[p] /\ call[p].op # "hold" =>
                               answer[p].as \notin {"refused", "contended"}
      BY DEF ToldIsDurable, InJournal, Answers, LedgerInv, Typed
    <2> QED BY DEF LedgerInv, Typed, ToldInv, Told
  <1> QED BY <1>1, <1>2, <1>3, Invariance, PTL DEF Spec

-----------------------------------------------------------------------------
(* Sums over finite sets.  What a fold comes to is found by induction, and     *)
(* the induction is by least counterexample: a set of natural numbers, or of   *)
(* subsets of a finite set, that is not empty has a least member.              *)

\* A set of natural numbers that is not empty has a least member.
LEMMA LeastNatural ==
    ASSUME NEW T, T \subseteq Nat, T # {}
    PROVE  \E m \in T : \A n \in T : m <= n
  <1> DEFINE R == {p \in Nat \X Nat : p[1] < p[2]}
  <1>1. IsWellFoundedOn(R, Nat)
    BY NatLessThanWellFounded DEF OpToRel
  <1>2. PICK m \in T : \A n \in T : ~ (<<n, m>> \in R)
    BY <1>1, WFMin
  <1>3. ASSUME NEW n \in T PROVE m <= n
    <2>1. m \in Nat /\ n \in Nat
      OBVIOUS
    <2>2. n < m => <<n, m>> \in R
      BY <2>1
    <2> QED BY <1>2, <2>1, <2>2
  <1> QED BY <1>3

LEMMA SmallestSet ==
    ASSUME NEW S, IsFiniteSet(S), NEW T, T \subseteq SUBSET S, T # {}
    PROVE  \E s \in T : \A t \in T : t \subseteq s => t = s
  <1>1. IsWellFoundedOn(StrictSubsetOrdering(S), SUBSET S)
    BY FS_StrictSubsetOrderingWellFounded, FS_FiniteSubsetsOfFinite
  <1>2. PICK s \in T : \A t \in T : ~ (<<t, s>> \in StrictSubsetOrdering(S))
    BY <1>1, WFMin
  <1> QED BY <1>2 DEF StrictSubsetOrdering

AnyOf(s) == CHOOSE x \in s : TRUE
\* One step of the fold that adds up g.
FoldStep(g, h, s) == IF s = {} THEN 0 ELSE g[AnyOf(s)] + h[s \ {AnyOf(s)}]

LEMMA AnyOfIn == \A s : s # {} => AnyOf(s) \in s
  BY DEF AnyOf

\* The recursion has a solution on the subsets of a finite set.
LEMMA FoldExists ==
    ASSUME NEW S, IsFiniteSet(S), NEW g \in [S -> Nat]
    PROVE  \E h : h = [s \in SUBSET S |-> FoldStep(g, h, s)] /\ h \in [SUBSET S -> Nat]
  <1> DEFINE Solves(h, n) == \A s \in SUBSET S : Cardinality(s) <= n => h[s] = FoldStep(g, h, s)
             T == {n \in Nat : ~ \E h \in [SUBSET S -> Nat] : Solves(h, n)}
  <1>1. \A s \in SUBSET S : IsFiniteSet(s) /\ Cardinality(s) \in Nat
                            /\ Cardinality(s) <= Cardinality(S)
    BY FS_Subset, FS_CardinalityType
  <1>2. \A s \in SUBSET S : s # {} => /\ AnyOf(s) \in s /\ s \ {AnyOf(s)} \in SUBSET S
                                      /\ Cardinality(s \ {AnyOf(s)}) = Cardinality(s) - 1
                                      /\ Cardinality(s) > 0
    <2> TAKE s \in SUBSET S
    <2> HAVE s # {}
    <2>1. AnyOf(s) \in s /\ IsFiniteSet(s) /\ Cardinality(s) \in Nat
      BY <1>1, AnyOfIn
    <2>2. Cardinality(s \ {AnyOf(s)}) = Cardinality(s) - 1 /\ Cardinality(s) # 0
      BY <2>1, FS_RemoveElement, FS_EmptySet
    <2>3. s \ {AnyOf(s)} \in SUBSET S
      OBVIOUS
    <2> QED BY <2>1, <2>2, <2>3
  <1>3. \A h \in [SUBSET S -> Nat] : \A s \in SUBSET S : FoldStep(g, h, s) \in Nat
    <2> SUFFICES ASSUME NEW h \in [SUBSET S -> Nat], NEW s \in SUBSET S, s # {}
                 PROVE  g[AnyOf(s)] + h[s \ {AnyOf(s)}] \in Nat
      BY DEF FoldStep
    <2>1. g[AnyOf(s)] \in Nat /\ h[s \ {AnyOf(s)}] \in Nat
      BY <1>2
    <2> QED BY <2>1
  <1>4. T = {}
    <2> SUFFICES ASSUME T # {} PROVE FALSE
      OBVIOUS
    <2>1. PICK m \in T : \A n \in T : m <= n
      BY LeastNatural, T \subseteq Nat
    <2>2. m \in Nat /\ ~ \E h \in [SUBSET S -> Nat] : Solves(h, m)
      BY <2>1
    <2>3. CASE m = 0
      <3> DEFINE h == [s \in SUBSET S |-> 0]
      <3>1. h \in [SUBSET S -> Nat]
        OBVIOUS
      <3>2. \A s \in SUBSET S : Cardinality(s) <= 0 => h[s] = FoldStep(g, h, s)
        <4> SUFFICES ASSUME NEW s \in SUBSET S, Cardinality(s) <= 0
                     PROVE  0 = FoldStep(g, h, s)
          OBVIOUS
        <4>1. Cardinality(s) \in Nat /\ (s # {} => Cardinality(s) > 0)
          BY <1>1, <1>2
        <4>2. s = {}
          BY <4>1
        <4> QED BY <4>2 DEF FoldStep
      <3> QED BY <2>2, <2>3, <3>1, <3>2
    <2>4. CASE m > 0
      <3>1. PICK h \in [SUBSET S -> Nat] : Solves(h, m - 1)
        <4>1. m - 1 \in Nat /\ ~ (m <= m - 1)
          BY <2>2, <2>4
        <4>2. m - 1 \notin T
          BY <2>1, <4>1
        <4> QED BY <4>1, <4>2
      <3> DEFINE k == [s \in SUBSET S |-> FoldStep(g, h, s)]
      <3>2. k \in [SUBSET S -> Nat]
        BY <1>3
      <3>3. ASSUME NEW s \in SUBSET S, Cardinality(s) <= m
            PROVE  k[s] = FoldStep(g, k, s)
        <4>1. CASE s = {}
          BY <4>1 DEF FoldStep
        <4>2. CASE s # {}
          <5>1. /\ s \ {AnyOf(s)} \in SUBSET S /\ Cardinality(s \ {AnyOf(s)}) <= m - 1
            BY <1>1, <1>2, <2>2, <3>3, <4>2
          <5>2. k[s \ {AnyOf(s)}] = h[s \ {AnyOf(s)}]
            BY <3>1, <5>1
          <5> QED BY <4>2, <5>2 DEF FoldStep
        <4> QED BY <4>1, <4>2
      <3> QED BY <2>2, <3>2, <3>3
    <2> QED BY <2>2, <2>3, <2>4
  <1>5. PICK h \in [SUBSET S -> Nat] : Solves(h, Cardinality(S))
    BY <1>1, <1>4
  <1>6. \A s \in SUBSET S : h[s] = FoldStep(g, h, s)
    BY <1>1, <1>5
  <1> QED BY <1>6

Recurs(h, g, S) == h = [s \in SUBSET S |-> IF s = {} THEN 0
                     ELSE g[CHOOSE x \in s : TRUE] + h[s \ {CHOOSE x \in s : TRUE}]]

\* Two such recursions agree where both are defined and add up the same.
LEMMA RecursAgree ==
    ASSUME NEW S, IsFiniteSet(S), NEW U, NEW V, S \subseteq U, S \subseteq V, NEW f, NEW g,
           \A x \in S : f[x] = g[x], NEW h, NEW k, Recurs(h, f, U), Recurs(k, g, V)
    PROVE  \A s \in SUBSET S : h[s] = k[s]
  <1> DEFINE T == {s \in SUBSET S : h[s] # k[s]}
  <1> SUFFICES ASSUME T # {} PROVE FALSE
    OBVIOUS
  <1>1. PICK s \in T : \A t \in T : t \subseteq s => t = s
    <2>1. T \subseteq SUBSET S
      OBVIOUS
    <2> HIDE DEF T
    <2> QED BY <2>1, SmallestSet
  <1>2. /\ h[s] = IF s = {} THEN 0 ELSE f[AnyOf(s)] + h[s \ {AnyOf(s)}]
        /\ k[s] = IF s = {} THEN 0 ELSE g[AnyOf(s)] + k[s \ {AnyOf(s)}]
    <2>1. s \in SUBSET U /\ s \in SUBSET V
      OBVIOUS
    <2>2. ASSUME NEW j, NEW e, NEW W, Recurs(j, e, W), s \in SUBSET W
          PROVE  j[s] = IF s = {} THEN 0 ELSE e[AnyOf(s)] + j[s \ {AnyOf(s)}]
      BY <2>2 DEF Recurs, AnyOf
    <2> QED BY <2>1, <2>2
  <1>3. s # {}
    BY <1>2
  <1>4. AnyOf(s) \in s /\ s \ {AnyOf(s)} \in SUBSET S
    BY <1>3, AnyOfIn
  <1>5. s \ {AnyOf(s)} \notin T
    BY <1>1, <1>4
  <1>6. h[s \ {AnyOf(s)}] = k[s \ {AnyOf(s)}] /\ f[AnyOf(s)] = g[AnyOf(s)]
    BY <1>4, <1>5
  <1> QED BY <1>2, <1>3, <1>6

LEMMA FoldIs ==
    ASSUME NEW S, IsFiniteSet(S), NEW g, \A x \in S : g[x] \in Nat
    PROVE  \E h : /\ SumFunctionOnSet(g, S) = h[S] /\ Recurs(h, g, S)
                  /\ \A s \in SUBSET S : h[s] \in Nat
  <1> DEFINE it == CHOOSE h : Recurs(h, g, S)
             f == [x \in S |-> g[x]]
  <1>1. SumFunctionOnSet(g, S) = it[S]
    BY DEF SumFunctionOnSet, FoldFunctionOnSet, MapThenFoldSet, Recurs
  <1>2. PICK h : h = [s \in SUBSET S |-> FoldStep(f, h, s)] /\ h \in [SUBSET S -> Nat]
    BY FoldExists, f \in [S -> Nat]
  <1>3. Recurs(h, f, S)
    BY <1>2, Zenon DEF Recurs, FoldStep, AnyOf
  <1>4. \A s \in SUBSET S : FoldStep(f, h, s) = IF s = {} THEN 0
                     ELSE g[CHOOSE x \in s : TRUE] + h[s \ {CHOOSE x \in s : TRUE}]
    <2> TAKE s \in SUBSET S
    <2>1. s # {} => f[AnyOf(s)] = g[AnyOf(s)]
      BY AnyOfIn
    <2> QED BY <2>1 DEF FoldStep, AnyOf
  <1>5. Recurs(h, g, S)
    BY <1>2, <1>4 DEF Recurs
  <1>6. Recurs(it, g, S)
    <2> HIDE DEF Recurs
    <2> QED BY <1>5
  <1> HIDE DEF it
  <1>7. \A s \in SUBSET S : it[s] = h[s]
    BY <1>5, <1>6, RecursAgree
  <1> QED BY <1>1, <1>2, <1>6, <1>7

\* The sum of g over a finite set is found by one step from a smaller one.
LEMMA SumStep ==
    ASSUME NEW S, IsFiniteSet(S), NEW g, \A x \in S : g[x] \in Nat
    PROVE  /\ SumFunctionOnSet(g, S) \in Nat
           /\ S = {} => SumFunctionOnSet(g, S) = 0
           /\ S # {} => SumFunctionOnSet(g, S)
                        = g[AnyOf(S)] + SumFunctionOnSet(g, S \ {AnyOf(S)})
  <1>1. PICK h : /\ SumFunctionOnSet(g, S) = h[S] /\ Recurs(h, g, S)
                 /\ \A s \in SUBSET S : h[s] \in Nat
    BY FoldIs
  <1>2. h[S] = IF S = {} THEN 0 ELSE g[AnyOf(S)] + h[S \ {AnyOf(S)}]
    <2>1. S \in SUBSET S
      OBVIOUS
    <2> QED BY <1>1, <2>1 DEF Recurs, AnyOf
  <1>3. ASSUME S # {}
        PROVE  SumFunctionOnSet(g, S \ {AnyOf(S)}) = h[S \ {AnyOf(S)}]
    <2> DEFINE R == S \ {AnyOf(S)}
    <2>1. IsFiniteSet(R) /\ \A x \in R : g[x] \in Nat
      BY FS_RemoveElement
    <2>2. PICK k : SumFunctionOnSet(g, R) = k[R] /\ Recurs(k, g, R)
      BY <2>1, FoldIs
    <2>3. h[R] = k[R]
      BY <1>1, <2>1, <2>2, RecursAgree
    <2> QED BY <2>2, <2>3
  <1> QED BY <1>1, <1>2, <1>3

\* Sums of what is the same are the same.
LEMMA SumSame ==
    ASSUME NEW S, IsFiniteSet(S), NEW f, NEW g, \A x \in S : f[x] \in Nat /\ f[x] = g[x]
    PROVE  SumFunctionOnSet(f, S) = SumFunctionOnSet(g, S)
  <1>1. PICK h : SumFunctionOnSet(f, S) = h[S] /\ Recurs(h, f, S)
    BY FoldIs
  <1>2. PICK k : SumFunctionOnSet(g, S) = k[S] /\ Recurs(k, g, S)
    <2>1. \A x \in S : g[x] \in Nat
      OBVIOUS
    <2> QED BY <2>1, FoldIs
  <1>3. h[S] = k[S]
    BY <1>1, <1>2, RecursAgree
  <1> QED BY <1>1, <1>2, <1>3

\* Any element may be taken out of the sum, whatever the order of the fold.
LEMMA SumTakesOut ==
    ASSUME NEW S, IsFiniteSet(S), NEW g, \A x \in S : g[x] \in Nat, NEW y \in S
    PROVE  SumFunctionOnSet(g, S) = g[y] + SumFunctionOnSet(g, S \ {y})
  <1> DEFINE Sum(s) == SumFunctionOnSet(g, s)
             T == {s \in SUBSET S : \E z \in s : Sum(s) # g[z] + Sum(s \ {z})}
  <1>0. \A s \in SUBSET S : /\ IsFiniteSet(s) /\ Sum(s) \in Nat
                            /\ s # {} => AnyOf(s) \in s /\ Sum(s) = g[AnyOf(s)] + Sum(s \ {AnyOf(s)})
    <2> TAKE s \in SUBSET S
    <2>1. IsFiniteSet(s) /\ \A x \in s : g[x] \in Nat
      BY FS_Subset
    <2> QED BY <2>1, SumStep, AnyOfIn
  <1> HIDE DEF Sum
  <1>1. T = {}
    <2> SUFFICES ASSUME T # {} PROVE FALSE
      OBVIOUS
    <2>1. PICK s \in T : \A t \in T : t \subseteq s => t = s
      <3>1. T \subseteq SUBSET S
        OBVIOUS
      <3> HIDE DEF T
      <3> QED BY <3>1, SmallestSet
    <2>2. PICK z \in s : Sum(s) # g[z] + Sum(s \ {z})
      BY <2>1
    <2> DEFINE x == AnyOf(s)
    <2>3. s \in SUBSET S /\ x \in s /\ Sum(s) = g[x] + Sum(s \ {x})
      BY <1>0, <2>1, <2>2
    <2> HIDE DEF x
    <2>4. x # z
      BY <2>2, <2>3
    <2>5. /\ s \ {x} \notin T /\ s \ {z} \notin T
          /\ s \ {x} \in SUBSET S /\ s \ {z} \in SUBSET S /\ s \ {x, z} \in SUBSET S
      BY <2>1, <2>2, <2>3
    <2>6. Sum(s \ {x}) = g[z] + Sum(s \ {x, z})
      <3>1. z \in s \ {x} /\ (s \ {x}) \ {z} = s \ {x, z}
        BY <2>2, <2>4
      <3> QED BY <2>5, <3>1
    <2>7. Sum(s \ {z}) = g[x] + Sum(s \ {x, z})
      <3>1. x \in s \ {z} /\ (s \ {z}) \ {x} = s \ {x, z}
        BY <2>3, <2>4
      <3> QED BY <2>5, <3>1
    <2>8. g[x] \in Nat /\ g[z] \in Nat /\ Sum(s \ {x, z}) \in Nat
      BY <1>0, <2>3, <2>5
    <2> QED BY <2>2, <2>3, <2>6, <2>7, <2>8
  <1>2. S \in SUBSET S
    OBVIOUS
  <1> QED BY <1>1, <1>2 DEF Sum

\* The sums over two sets that have nothing in common add up to that over both.
LEMMA SumOfUnion ==
    ASSUME NEW S, IsFiniteSet(S), NEW g, \A x \in S : g[x] \in Nat,
           NEW A \in SUBSET S, NEW B \in SUBSET S, A \cap B = {}
    PROVE  SumFunctionOnSet(g, A \cup B) = SumFunctionOnSet(g, A) + SumFunctionOnSet(g, B)
  <1> DEFINE Sum(s) == SumFunctionOnSet(g, s)
             T == {s \in SUBSET A : Sum(s \cup B) # Sum(s) + Sum(B)}
  <1>0. \A s \in SUBSET S : /\ IsFiniteSet(s) /\ Sum(s) \in Nat
                            /\ \A y \in s : Sum(s) = g[y] + Sum(s \ {y})
    <2> TAKE s \in SUBSET S
    <2>1. IsFiniteSet(s) /\ \A x \in s : g[x] \in Nat
      BY FS_Subset
    <2> QED BY <2>1, SumStep, SumTakesOut
  <1>1. Sum({}) = 0
    BY FS_EmptySet, SumStep
  <1> HIDE DEF Sum
  <1>2. T = {}
    <2> SUFFICES ASSUME T # {} PROVE FALSE
      OBVIOUS
    <2>1. PICK s \in T : \A t \in T : t \subseteq s => t = s
      <3>1. IsFiniteSet(A)
        BY <1>0
      <3>2. T \subseteq SUBSET A
        OBVIOUS
      <3> HIDE DEF T
      <3> QED BY <3>1, <3>2, SmallestSet
    <2>2. s # {}
      <3> SUFFICES ASSUME s = {} PROVE FALSE
        OBVIOUS
      <3>1. s \cup B = B /\ Sum(B) \in Nat
        BY <1>0
      <3>2. Sum(s) = 0
        BY <1>1
      <3>3. Sum(s \cup B) # Sum(s) + Sum(B)
        BY <2>1
      <3> QED BY <3>1, <3>2, <3>3
    <2>3. PICK y \in s : TRUE
      BY <2>2
    <2>4. s \ {y} \in SUBSET A /\ s \ {y} \notin T
      BY <2>1, <2>3
    <2>5. (s \cup B) \ {y} = (s \ {y}) \cup B /\ y \in s \cup B
      BY <2>1, <2>3
    <2>6. /\ s \in SUBSET S /\ s \cup B \in SUBSET S /\ s \ {y} \in SUBSET S
          /\ y \in S /\ B \in SUBSET S
      BY <2>1, <2>3
    <2>7. /\ Sum(s \cup B) = g[y] + Sum((s \ {y}) \cup B)
          /\ Sum(s) = g[y] + Sum(s \ {y})
      BY <1>0, <2>3, <2>5, <2>6
    <2>8. Sum((s \ {y}) \cup B) = Sum(s \ {y}) + Sum(B)
      BY <2>4
    <2>9. g[y] \in Nat /\ Sum(s \ {y}) \in Nat /\ Sum(B) \in Nat
      BY <1>0, <2>6
    <2> QED BY <2>1, <2>7, <2>8, <2>9
  <1>3. A \in SUBSET A
    OBVIOUS
  <1> QED BY <1>2, <1>3 DEF Sum

-----------------------------------------------------------------------------
(* The lineage of a reservation *)

LEMMA BudgetFacts ==
    ASSUME NEW r \in Reservations
    PROVE  /\ \A S \in SUBSET Phase : IsFiniteSet(S) /\ BudgetOf(r, S) \in Nat
           /\ BudgetOf(r, {}) = 0
           /\ \A phase \in Phase : PhaseBudget[r][phase] \in Nat
           /\ \A S \in SUBSET Phase : \A phase \in S :
                 BudgetOf(r, S) = PhaseBudget[r][phase] + BudgetOf(r, S \ {phase})
           /\ \A A, B \in SUBSET Phase :
                 A \cap B = {} => BudgetOf(r, A \cup B) = BudgetOf(r, A) + BudgetOf(r, B)
  <1>1. \A phase \in Phase : PhaseBudget[r][phase] \in Nat
    BY CostAssumption
  <1>2. IsFiniteSet(Phase)
    BY CostAssumption, FS_Interval DEF Phase
  <1>3. \A S \in SUBSET Phase : IsFiniteSet(S) /\ BudgetOf(r, S) \in Nat
    BY <1>1, <1>2, FS_Subset, SumStep DEF BudgetOf
  <1>4. BudgetOf(r, {}) = 0
    BY FS_EmptySet, SumStep DEF BudgetOf
  <1>5. ASSUME NEW S \in SUBSET Phase, NEW phase \in S
        PROVE  BudgetOf(r, S) = PhaseBudget[r][phase] + BudgetOf(r, S \ {phase})
    <2>1. IsFiniteSet(S) /\ \A x \in S : PhaseBudget[r][x] \in Nat
      BY <1>1, <1>3
    <2> QED BY <2>1, SumTakesOut DEF BudgetOf
  <1>6. ASSUME NEW A \in SUBSET Phase, NEW B \in SUBSET Phase, A \cap B = {}
        PROVE  BudgetOf(r, A \cup B) = BudgetOf(r, A) + BudgetOf(r, B)
    BY <1>1, <1>2, <1>6, SumOfUnion DEF BudgetOf
  <1> QED BY <1>1, <1>3, <1>4, <1>5, <1>6

LEMMA MaxLast ==
    ASSUME NEW T, NEW m \in Nat, \A x \in T : x \in Nat /\ x < m
    PROVE  Max(T \cup {m}) = m
  <1> DEFINE M == CHOOSE x \in T \cup {m} : \A y \in T \cup {m} : x >= y
  <1>1. m \in T \cup {m} /\ \A y \in T \cup {m} : m >= y
    OBVIOUS
  <1>2. M \in T \cup {m} /\ \A y \in T \cup {m} : M >= y
    BY <1>1
  <1>3. M \in Nat /\ M >= m /\ m >= M
    BY <1>1, <1>2
  <1>4. M = m
    BY <1>3
  <1> QED BY <1>4 DEF Max

LEMMA MaxIn ==
    ASSUME NEW n \in Nat, NEW T, T \subseteq 1 .. n, T # {}
    PROVE  Max(T) \in T /\ \A x \in T : Max(T) >= x
  <1> DEFINE U == {n - x : x \in T}
  <1>1. U \subseteq Nat /\ U # {}
    <2>1. \A x \in T : n - x \in Nat
      OBVIOUS
    <2> QED BY <2>1
  <1>2. PICK u \in U : \A v \in U : u <= v
    <2> HIDE DEF U
    <2> QED BY <1>1, LeastNatural
  <1>3. PICK m \in T : u = n - m
    BY <1>2
  <1>4. \A x \in T : m >= x
    BY <1>2, <1>3
  <1> QED BY <1>4 DEF Max

Count(L, r) == Cardinality(Settlements(L, r))

\* What is paid for reservation r: its settlements are numbered by their phases
\* and account for the budgets of these.
Paid(L, r) ==
    /\ SettledPhases(L, r) = 1 .. Count(L, r) /\ Count(L, r) <= Phases
    /\ \A i \in Settlements(L, r) : /\ L[i].calls = L[i].phase
                                    /\ L[i].cost \in 0 .. PhaseBudget[r][L[i].phase]
    /\ Prior(L, r).calls = Count(L, r)
    /\ Prior(L, r).spent \in Nat /\ Prior(L, r).returned \in Nat
    /\ Prior(L, r).spent + Prior(L, r).returned = BudgetOf(r, 1 .. Count(L, r))

\* The ledger positions the settlements and the open hold of r claim.
Positions(L, r) == Claimed(L, [res |-> r, open |-> OpenPhases(L, r)])

\* At most one hold is open, and it stands at the end of the lineage.
Spaced(L, r) ==
    /\ ReservationVersion(L, r) \in Nat
    /\ \/ /\ OpenPhases(L, r) = {}
          /\ LineageTip(L, r) = ReservationVersion(L, r) + 2 * Count(L, r)
       \/ \E phase \in Phase :
             /\ OpenPhases(L, r) = {phase}
             /\ \A h \in Holds(L, r) : L[h].phase = phase => L[h].version = LineageTip(L, r)
             /\ LineageTip(L, r) = ReservationVersion(L, r) + 2 * Count(L, r) + 1
    /\ Positions(L, r) = ReservationVersion(L, r) + 1 .. LineageTip(L, r)
    /\ \A i \in At(L, {"release"}, r) : L[i].version = LineageTip(L, r) + 1

Walked(L) == \A r \in Reservations : Paid(L, r) /\ Spaced(L, r)

\* What a derivation has found in the journal alone.
Fits(L, c) ==
    /\ c.op = "reserve" => AdmitsReservation(L, c)
    /\ c.op = "hold" => AdmitsHold(L, c)
    /\ c.op = "settle" =>
          /\ ~Released(L, c.res)
          /\ c.phase \in {L[i].phase : i \in Holds(L, c.res)}
          /\ c.phase = Count(L, c.res) + 1
          /\ Prior(L, c.res).calls + 1 <= MaxCalls[c.res]
    /\ c.op = "release" => AdmitsRelease(L, c)

\* Of a journal, the entry that stands last in a part of it is of that part.
LEMMA LastOf ==
    ASSUME NEW S, NEW L \in Seq(S), NEW kinds, NEW r, At(L, kinds, r) # {}
    PROVE  Max(At(L, kinds, r)) \in At(L, kinds, r)
  <1>1. Len(L) \in Nat /\ At(L, kinds, r) \subseteq 1 .. Len(L)
    BY AppendFacts DEF At
  <1> QED BY <1>1, MaxIn

\* Journals that have the same entries of r say the same of it.
LEMMA SameLineage ==
    ASSUME NEW S, NEW L \in Seq(S), NEW M, NEW r,
           Holds(M, r) = Holds(L, r), Settlements(M, r) = Settlements(L, r),
           Lineage(M, r) = Lineage(L, r),
           At(M, {"reservation"}, r) = At(L, {"reservation"}, r),
           \A i \in Lineage(L, r) \cup At(L, {"reservation"}, r) : M[i] = L[i]
    PROVE  /\ Settlements(M, r) = Settlements(L, r) /\ Holds(M, r) = Holds(L, r)
           /\ \A i \in Settlements(L, r) \cup Holds(L, r) : M[i] = L[i]
           /\ Count(M, r) = Count(L, r) /\ Prior(M, r) = Prior(L, r)
           /\ SettledPhases(M, r) = SettledPhases(L, r) /\ OpenPhases(M, r) = OpenPhases(L, r)
           /\ Positions(M, r) = Positions(L, r)
           /\ ReservationVersion(M, r) = ReservationVersion(L, r)
           /\ LineageTip(M, r) = LineageTip(L, r)
  <1>1. /\ Settlements(M, r) = Settlements(L, r) /\ Holds(M, r) = Holds(L, r)
        /\ \A i \in Settlements(L, r) \cup Holds(L, r) : M[i] = L[i]
        /\ Lineage(M, r) = Lineage(L, r) /\ \A i \in Lineage(L, r) : M[i] = L[i]
        /\ At(M, {"reservation"}, r) = At(L, {"reservation"}, r)
        /\ \A i \in At(L, {"reservation"}, r) : M[i] = L[i]
    BY DEF Settlements, Holds, Lineage, At
  <1>2. SettledPhases(M, r) = SettledPhases(L, r)
    BY <1>1 DEF SettledPhases
  <1>3. OpenPhases(M, r) = OpenPhases(L, r)
    BY <1>1, <1>2 DEF OpenPhases
  <1>4. Positions(M, r) = Positions(L, r)
    BY <1>1, <1>3 DEF Positions, Claimed
  <1>5. Count(M, r) = Count(L, r)
    BY <1>1 DEF Count
  <1>6. Prior(M, r) = Prior(L, r)
    <2>1. Settlements(L, r) # {} => Max(Settlements(L, r)) \in Settlements(L, r)
      BY LastOf DEF Settlements
    <2> QED BY <1>1, <2>1 DEF Prior
  <1>7. ReservationVersion(M, r) = ReservationVersion(L, r)
    <2>1. At(L, {"reservation"}, r) # {} =>
              Max(At(L, {"reservation"}, r)) \in At(L, {"reservation"}, r)
      BY LastOf
    <2> QED BY <1>1, <2>1 DEF ReservationVersion
  <1>8. LineageTip(M, r) = LineageTip(L, r)
    <2>1. Lineage(L, r) # {} => Max(Lineage(L, r)) \in Lineage(L, r)
      BY LastOf DEF Lineage
    <2> QED BY <1>1, <1>7, <2>1 DEF LineageTip
  <1> QED BY <1>1, <1>2, <1>3, <1>4, <1>5, <1>6, <1>7, <1>8

\* Of an unreserved reservation the journal has nothing.
LEMMA Unreserved ==
    ASSUME NEW L, Rooted(L), NEW r, At(L, {"reservation"}, r) = {}
    PROVE  \A kinds : At(L, kinds, r) = {}
  BY DEF Rooted, At

\* Before its first hold nothing is paid or held of a reservation.
LEMMA NothingHeld ==
    ASSUME NEW L, NEW r \in Reservations, Lineage(L, r) = {}, At(L, {"release"}, r) = {},
           ReservationVersion(L, r) \in Nat
    PROVE  Paid(L, r) /\ Spaced(L, r)
  <1>1. Settlements(L, r) = {} /\ Holds(L, r) = {}
    BY DEF Lineage, Settlements, Holds, At
  <1>2. SettledPhases(L, r) = {} /\ OpenPhases(L, r) = {} /\ Count(L, r) = 0
    BY <1>1, FS_EmptySet DEF SettledPhases, OpenPhases, Count
  <1>3. Prior(L, r) = [calls |-> 0, spent |-> 0, returned |-> 0]
    BY <1>1 DEF Prior
  <1>4. Positions(L, r) = {}
    BY <1>1, <1>2 DEF Positions, Claimed
  <1>5. LineageTip(L, r) = ReservationVersion(L, r)
    BY DEF LineageTip
  <1>6. BudgetOf(r, 1 .. 0) = 0 /\ Phases \in Nat
    BY BudgetFacts, CostAssumption, 1 .. 0 = {}
  <1>7. ReservationVersion(L, r) + 1 .. ReservationVersion(L, r) = {}
    OBVIOUS
  <1>8. Paid(L, r)
    BY <1>1, <1>2, <1>3, <1>6 DEF Paid
  <1> QED BY <1>1, <1>2, <1>4, <1>5, <1>7, <1>8 DEF Spaced

\* Which part of r's entries an entry at the end adds to, and what it leaves alone.
LEMMA PartAppend ==
    ASSUME NEW S, NEW L \in Seq(S), NEW e, NEW r, NEW kinds
    PROVE  /\ \A i \in At(L, kinds, r) : i \in Nat /\ i < Len(L) + 1 /\ Append(L, e)[i] = L[i]
           /\ At(Append(L, e), kinds, r) = IF e.kind \in kinds /\ e.res = r
                                           THEN At(L, kinds, r) \cup {Len(L) + 1}
                                           ELSE At(L, kinds, r)
  <1>1. /\ Len(L) \in Nat /\ DOMAIN L = 1 .. Len(L)
        /\ \A i \in 1 .. Len(L) : Append(L, e)[i] = L[i]
    BY AppendFacts
  <1>2. \A i \in At(L, kinds, r) : i \in 1 .. Len(L)
    BY <1>1 DEF At
  <1>3. At(Append(L, e), kinds, r) = IF e.kind \in kinds /\ e.res = r
            THEN At(L, kinds, r) \cup {Len(L) + 1} ELSE At(L, kinds, r)
    BY AppendAt
  <1> QED BY <1>1, <1>2, <1>3

\* Paid and spaced is what has the same lineage as what is.
LEMMA LineageSame ==
    ASSUME NEW S, NEW L \in Seq(S), NEW M, NEW r,
           Holds(M, r) = Holds(L, r), Settlements(M, r) = Settlements(L, r),
           Lineage(M, r) = Lineage(L, r),
           At(M, {"reservation"}, r) = At(L, {"reservation"}, r),
           \A i \in Lineage(L, r) \cup At(L, {"reservation"}, r) : M[i] = L[i],
           \A i \in At(M, {"release"}, r) : M[i].version = LineageTip(L, r) + 1,
           Paid(L, r), Spaced(L, r)
    PROVE  Paid(M, r) /\ Spaced(M, r)
  <1>1. /\ \A i \in Settlements(L, r) \cup Holds(L, r) : M[i] = L[i]
        /\ Count(M, r) = Count(L, r) /\ Prior(M, r) = Prior(L, r)
        /\ SettledPhases(M, r) = SettledPhases(L, r) /\ OpenPhases(M, r) = OpenPhases(L, r)
        /\ Positions(M, r) = Positions(L, r)
        /\ ReservationVersion(M, r) = ReservationVersion(L, r)
        /\ LineageTip(M, r) = LineageTip(L, r)
    BY SameLineage
  <1>2. Paid(M, r)
    BY <1>1 DEF Paid
  <1>3. \A i \in At(M, {"release"}, r) : M[i].version = LineageTip(M, r) + 1
    BY <1>1
  <1>4. \A h \in Holds(M, r) : M[h] = L[h]
    BY <1>1
  <1>5. Spaced(M, r)
    BY <1>1, <1>3, <1>4 DEF Spaced
  <1> QED BY <1>2, <1>5

\* An entry of another reservation, or one that ends this one, leaves the lineage alone.
LEMMA LineageStays ==
    ASSUME NEW S, NEW L \in Seq(S), NEW e, NEW r,
           \/ e.res # r
           \/ e.kind = "release" /\ e.version = LineageTip(L, r) + 1,
           Paid(L, r), Spaced(L, r)
    PROVE  Paid(Append(L, e), r) /\ Spaced(Append(L, e), r)
  <1> DEFINE M == Append(L, e)
  <1>1. Holds(M, r) = Holds(L, r)
    BY PartAppend DEF Holds
  <1>2. Settlements(M, r) = Settlements(L, r)
    BY PartAppend DEF Settlements
  <1>3. Lineage(M, r) = Lineage(L, r)
    BY PartAppend DEF Lineage
  <1>4. At(M, {"reservation"}, r) = At(L, {"reservation"}, r)
    <2>1. ~ (e.kind \in {"reservation"} /\ e.res = r)
      OBVIOUS
    <2> QED BY <2>1, PartAppend
  <1>5. \A kinds : \A i \in At(L, kinds, r) : M[i] = L[i]
    BY AppendFacts DEF At
  <1>6. \A i \in At(M, {"release"}, r) : M[i].version = LineageTip(L, r) + 1
    <2>1. CASE e.res = r
      <3>1. At(M, {"release"}, r) = At(L, {"release"}, r) \cup {Len(L) + 1}
        BY <2>1, PartAppend
      <3>2. M[Len(L) + 1] = e
        BY AppendFacts
      <3> QED BY <1>5, <2>1, <3>1, <3>2 DEF Spaced
    <2>2. CASE e.res # r
      <3>1. At(M, {"release"}, r) = At(L, {"release"}, r)
        BY <2>2, PartAppend
      <3> QED BY <1>5, <3>1 DEF Spaced
    <2> QED BY <2>1, <2>2
  <1> HIDE DEF M
  <1>7. \A i \in Lineage(L, r) \cup At(L, {"reservation"}, r) : M[i] = L[i]
    BY <1>5 DEF Lineage
  <1>8. Paid(M, r) /\ Spaced(M, r)
    BY <1>1, <1>2, <1>3, <1>4, <1>6, <1>7, LineageSame
  <1> QED BY <1>8 DEF M

\* What is in a journal stays where it is when an entry is appended.
LEMMA PartStays ==
    ASSUME NEW S, NEW L \in Seq(S), NEW e, NEW r, NEW kinds, NEW i \in At(L, kinds, r)
    PROVE  i \in Nat /\ i < Len(L) + 1 /\ Append(L, e)[i] = L[i]
  <1>1. /\ Len(L) \in Nat /\ DOMAIN L = 1 .. Len(L)
        /\ \A j \in 1 .. Len(L) : Append(L, e)[j] = L[j]
    BY AppendFacts
  <1>2. i \in 1 .. Len(L)
    BY <1>1 DEF At
  <1> QED BY <1>1, <1>2

LEMMA IntervalGrows ==
    ASSUME NEW a \in Nat, NEW b \in Nat, a <= b
    PROVE  (a + 1 .. b) \cup {b + 1} = a + 1 .. b + 1
  OBVIOUS

\* Journal M is L with the entry e at its end, at position n.
Grows(L, e, M, n) == (\E S : L \in Seq(S)) /\ M = Append(L, e) /\ n = Len(L) + 1

\* The lineage of a reservation stays where it is.
LEMMA LineageKept ==
    ASSUME NEW L, NEW e, NEW M, NEW n, Grows(L, e, M, n), NEW r
    PROVE  \A i \in Holds(L, r) \cup Settlements(L, r) \cup Lineage(L, r)
                    \cup At(L, {"reservation"}, r) : i \in Nat /\ i < n /\ M[i] = L[i]
  <1>1. PICK S : L \in Seq(S)
    BY DEF Grows
  <1>2. ASSUME NEW kinds, NEW i \in At(L, kinds, r) PROVE i \in Nat /\ i < n /\ M[i] = L[i]
    BY <1>1, PartStays DEF Grows
  <1> QED BY <1>2 DEF Holds, Settlements, Lineage

\* What an entry e of r at the end of a journal adds to the parts of its lineage.
LEMMA LineageGrows ==
    ASSUME NEW L, NEW e, NEW M, NEW n, Grows(L, e, M, n), NEW r, e.res = r
    PROVE  /\ n \in Nat /\ M[n] = e
           /\ e.kind = "hold" =>
                  Holds(M, r) = Holds(L, r) \cup {n}
           /\ e.kind # "hold" =>
                  Holds(M, r) = Holds(L, r)
           /\ e.kind = "settlement" =>
                  Settlements(M, r) = Settlements(L, r) \cup {n}
           /\ e.kind # "settlement" =>
                  Settlements(M, r) = Settlements(L, r)
           /\ e.kind \in {"hold", "settlement"} =>
                  Lineage(M, r) = Lineage(L, r) \cup {n}
           /\ e.kind \notin {"hold", "settlement"} =>
                  Lineage(M, r) = Lineage(L, r)
           /\ e.kind = "reservation" =>
                  At(M, {"reservation"}, r) = At(L, {"reservation"}, r) \cup {n}
           /\ e.kind # "reservation" =>
                  At(M, {"reservation"}, r) = At(L, {"reservation"}, r)
           /\ e.kind = "release" =>
                  At(M, {"release"}, r) = At(L, {"release"}, r) \cup {n}
           /\ e.kind # "release" =>
                  At(M, {"release"}, r) = At(L, {"release"}, r)
  <1>0. PICK S : L \in Seq(S)
    BY DEF Grows
  <1>00. M = Append(L, e) /\ n = Len(L) + 1
    BY DEF Grows
  <1>1. n \in Nat /\ M[n] = e
    BY <1>0, <1>00, AppendFacts
  <1>2. e.kind = "hold" =>
            Holds(M, r) = Holds(L, r) \cup {n}
    BY <1>0, <1>00, AppendAt DEF Holds
  <1>3. e.kind # "hold" =>
            Holds(M, r) = Holds(L, r)
    BY <1>0, <1>00, AppendAt DEF Holds
  <1>4. e.kind = "settlement" =>
            Settlements(M, r) = Settlements(L, r) \cup {n}
    BY <1>0, <1>00, AppendAt DEF Settlements
  <1>5. e.kind # "settlement" =>
            Settlements(M, r) = Settlements(L, r)
    BY <1>0, <1>00, AppendAt DEF Settlements
  <1>6. e.kind \in {"hold", "settlement"} =>
            Lineage(M, r) = Lineage(L, r) \cup {n}
    BY <1>0, <1>00, AppendAt DEF Lineage
  <1>7. e.kind \notin {"hold", "settlement"} =>
            Lineage(M, r) = Lineage(L, r)
    BY <1>0, <1>00, AppendAt DEF Lineage
  <1>8. e.kind = "reservation" =>
            At(M, {"reservation"}, r) = At(L, {"reservation"}, r) \cup {n}
    BY <1>0, <1>00, AppendAt
  <1>9. e.kind # "reservation" =>
            At(M, {"reservation"}, r) = At(L, {"reservation"}, r)
    BY <1>0, <1>00, AppendAt
  <1>10. e.kind = "release" =>
            At(M, {"release"}, r) = At(L, {"release"}, r) \cup {n}
    BY <1>0, <1>00, AppendAt
  <1>11. e.kind # "release" =>
            At(M, {"release"}, r) = At(L, {"release"}, r)
    BY <1>0, <1>00, AppendAt
  <1> QED BY <1>1, <1>2, <1>3, <1>4, <1>5, <1>6, <1>7, <1>8, <1>9, <1>10, <1>11

LEMMA LineageReserved ==
    ASSUME NEW S, NEW L \in Seq(S), Rooted(L), NEW r \in Reservations,
           At(L, {"reservation"}, r) = {},
           NEW e, e.kind = "reservation", e.res = r, e.version = Len(L)
    PROVE  Paid(Append(L, e), r) /\ Spaced(Append(L, e), r)
  <1> DEFINE M == Append(L, e)
             n == Len(L) + 1
  <1>1. /\ Lineage(L, r) = {} /\ At(L, {"release"}, r) = {}
    BY Unreserved DEF Lineage
  <1>0. Grows(L, e, M, n)
    BY DEF Grows
  <1> HIDE DEF M, n
  <1>2. /\ n \in Nat /\ M[n] = e /\ Lineage(M, r) = {} /\ At(M, {"release"}, r) = {}
        /\ At(M, {"reservation"}, r) = {n}
    <2>1. e.kind \notin {"hold", "settlement"} /\ e.kind # "release"
      OBVIOUS
    <2>2. n \in Nat /\ M[n] = e
      BY <1>0, LineageGrows
    <2>3. Lineage(M, r) = {}
      BY <1>0, <1>1, <2>1, LineageGrows
    <2>4. At(M, {"release"}, r) = {}
      BY <1>0, <1>1, <2>1, LineageGrows
    <2>5. At(M, {"reservation"}, r) = At(L, {"reservation"}, r) \cup {n}
      BY <1>0, LineageGrows
    <2> QED BY <2>2, <2>3, <2>4, <2>5
  <1>3. Len(L) \in Nat
    BY AppendFacts
  <1>4. Max({n}) = n
    BY <1>2, MaxLast, {} \cup {n} = {n}
  <1>5. ReservationVersion(M, r) \in Nat
    BY <1>2, <1>3, <1>4 DEF ReservationVersion
  <1>6. Paid(M, r) /\ Spaced(M, r)
    BY <1>2, <1>5, NothingHeld
  <1> QED BY <1>6 DEF M

\* A hold makes its phase the only open one.
LEMMA LineageHeld ==
    ASSUME NEW S, NEW L \in Seq(S), NEW r \in Reservations, Paid(L, r), Spaced(L, r),
           At(L, {"release"}, r) = {},
           NEW c \in Call, c.op = "hold", c.res = r, AdmitsHold(L, c)
    PROVE  /\ Paid(Append(L, HoldEntry(L, c)), r) /\ Spaced(Append(L, HoldEntry(L, c)), r)
           /\ OpenPhases(Append(L, HoldEntry(L, c)), r) = {c.phase}
  <1> DEFINE e == HoldEntry(L, c)
             M == Append(L, e)
             n == Len(L) + 1
             rv == ReservationVersion(L, r)
             tip == LineageTip(L, r)
  <1>1. e.kind = "hold" /\ e.res = r /\ e.phase = c.phase /\ e.version = tip + 1
    BY DEF HoldEntry
  <1>2. /\ OpenPhases(L, r) = {} /\ c.phase \notin {L[i].phase : i \in Holds(L, r)}
        /\ c.phase \notin SettledPhases(L, r) /\ c.phase \in Phase
    BY CallFacts DEF AdmitsHold
  <1>0. Grows(L, e, M, n)
    BY DEF Grows
  <1> HIDE DEF e, M, n
  <1>3. /\ n \in Nat /\ M[n] = e
        /\ Holds(M, r) = Holds(L, r) \cup {n} /\ Settlements(M, r) = Settlements(L, r)
        /\ Lineage(M, r) = Lineage(L, r) \cup {n}
        /\ At(M, {"reservation"}, r) = At(L, {"reservation"}, r) /\ At(M, {"release"}, r) = {}
        /\ \A i \in Holds(L, r) \cup Settlements(L, r) \cup Lineage(L, r)
                      \cup At(L, {"reservation"}, r) :
               i \in Nat /\ i < n /\ M[i] = L[i]
    <2>1. /\ e.kind # "settlement" /\ e.kind \in {"hold", "settlement"}
          /\ e.kind # "reservation" /\ e.kind # "release"
      BY <1>1
    <2>2. n \in Nat /\ M[n] = e
      BY <1>0, <1>1, LineageGrows
    <2>3. Holds(M, r) = Holds(L, r) \cup {n}
      BY <1>0, <1>1, LineageGrows
    <2>4. Settlements(M, r) = Settlements(L, r)
      BY <1>0, <1>1, <2>1, LineageGrows
    <2>5. Lineage(M, r) = Lineage(L, r) \cup {n}
      BY <1>0, <1>1, <2>1, LineageGrows
    <2>6. At(M, {"reservation"}, r) = At(L, {"reservation"}, r)
      BY <1>0, <1>1, <2>1, LineageGrows
    <2>7. At(M, {"release"}, r) = {}
      BY <1>0, <1>1, <2>1, LineageGrows
    <2>8. \A i \in Holds(L, r) \cup Settlements(L, r) \cup Lineage(L, r)
                  \cup At(L, {"reservation"}, r) : i \in Nat /\ i < n /\ M[i] = L[i]
      BY <1>0, LineageKept
    <2> QED BY <2>2, <2>3, <2>4, <2>5, <2>6, <2>7, <2>8
  <1>4. Count(M, r) = Count(L, r) /\ SettledPhases(M, r) = SettledPhases(L, r)
    BY <1>3 DEF Count, SettledPhases
  <1>5. Prior(M, r) = Prior(L, r)
    <2>1. Settlements(L, r) # {} => Max(Settlements(L, r)) \in Settlements(L, r)
      BY LastOf DEF Settlements
    <2> QED BY <1>3, <2>1 DEF Prior
  <1>6. ReservationVersion(M, r) = rv
    <2>1. At(L, {"reservation"}, r) # {} =>
              Max(At(L, {"reservation"}, r)) \in At(L, {"reservation"}, r)
      BY LastOf
    <2> QED BY <1>3, <2>1 DEF ReservationVersion
  <1>7. LineageTip(M, r) = tip + 1
    <2>1. Max(Lineage(M, r)) = n
      <3>1. Lineage(M, r) = Lineage(L, r) \cup {n} /\ n \in Nat
        BY <1>3
      <3>2. \A i \in Lineage(L, r) : i \in Nat /\ i < n
        BY <1>3
      <3>3. Max(Lineage(L, r) \cup {n}) = n
        BY <3>1, <3>2, MaxLast
      <3> QED BY <3>1, <3>3
    <2> QED BY <1>1, <1>3, <2>1 DEF LineageTip
  <1>8. Paid(M, r)
    BY <1>3, <1>4, <1>5 DEF Paid
  <1>9. {M[i].phase : i \in Holds(M, r)} = {L[i].phase : i \in Holds(L, r)} \cup {c.phase}
    <2>1. M[n].phase = c.phase
      BY <1>1, <1>3
    <2>2. \A i \in Holds(L, r) : M[i].phase = L[i].phase
      BY <1>3
    <2>3. Holds(M, r) = Holds(L, r) \cup {n}
      BY <1>3
    <2>4. ASSUME NEW q \in {M[i].phase : i \in Holds(M, r)}
          PROVE  q \in {L[i].phase : i \in Holds(L, r)} \cup {c.phase}
      BY <2>1, <2>2, <2>3
    <2>5. ASSUME NEW q \in {L[i].phase : i \in Holds(L, r)} \cup {c.phase}
          PROVE  q \in {M[i].phase : i \in Holds(M, r)}
      BY <2>1, <2>2, <2>3
    <2> QED BY <2>4, <2>5
  <1>10. OpenPhases(M, r) = {c.phase}
    BY <1>2, <1>4, <1>9 DEF OpenPhases
  <1>11. rv \in Nat /\ Count(L, r) \in Nat /\ tip = rv + 2 * Count(L, r)
    BY <1>2, SettlementsFinite DEF Spaced, Count
  <1>12. \A h \in Holds(M, r) : M[h].phase = c.phase => h = n
    BY <1>2, <1>3
  <1>13. \A h \in Holds(M, r) : M[h].phase = c.phase => M[h].version = tip + 1
    BY <1>1, <1>3, <1>12
  <1>14. Positions(M, r) = Positions(L, r) \cup {tip + 1}
    <2>1. {M[k].version : k \in Settlements(M, r)} = {L[k].version : k \in Settlements(L, r)}
      BY <1>3
    <2>2. {h \in Holds(M, r) : M[h].phase \in OpenPhases(M, r)} = {n}
      <3>1. n \in Holds(M, r) /\ M[n].phase = c.phase
        BY <1>1, <1>3
      <3> QED BY <1>10, <1>12, <3>1
    <2>3. {M[k].version : k \in {n}} = {tip + 1}
      BY <1>1, <1>3
    <2>4. {h \in Holds(L, r) : L[h].phase \in OpenPhases(L, r)} = {}
      BY <1>2
    <2>5. Positions(L, r) = {L[k].version : k \in Settlements(L, r)}
                            \cup {v - 1 : v \in {L[k].version : k \in Settlements(L, r)}}
      <3>1. {L[k].version : k \in {}} = {}
        OBVIOUS
      <3> QED BY <2>4, <3>1 DEF Positions, Claimed
    <2>6. Positions(M, r) = {L[k].version : k \in Settlements(L, r)}
                            \cup {v - 1 : v \in {L[k].version : k \in Settlements(L, r)}}
                            \cup {tip + 1}
      BY <2>1, <2>2, <2>3 DEF Positions, Claimed
    <2> QED BY <2>5, <2>6
  <1>15. Positions(M, r) = rv + 1 .. tip + 1
    <2>1. Positions(L, r) = rv + 1 .. tip
      BY DEF Spaced
    <2>2. rv \in Nat /\ tip \in Nat /\ rv <= tip
      BY <1>11
    <2>3. (rv + 1 .. tip) \cup {tip + 1} = rv + 1 .. tip + 1
      BY <2>2, IntervalGrows
    <2> QED BY <1>14, <2>1, <2>3
  <1> HIDE DEF rv, tip
  <1>16. Spaced(M, r)
    <2>1. ReservationVersion(M, r) \in Nat
      BY <1>6, <1>11
    <2>2. LineageTip(M, r) = ReservationVersion(M, r) + 2 * Count(M, r) + 1
      BY <1>4, <1>6, <1>7, <1>11
    <2>3. \A h \in Holds(M, r) : M[h].phase = c.phase => M[h].version = LineageTip(M, r)
      BY <1>7, <1>13
    <2>4. Positions(M, r) = ReservationVersion(M, r) + 1 .. LineageTip(M, r)
      BY <1>6, <1>7, <1>15
    <2>5. At(M, {"release"}, r) = {}
      BY <1>3
    <2> QED BY <1>2, <1>10, <2>1, <2>2, <2>3, <2>4, <2>5 DEF Spaced
  <1>17. Paid(M, r) /\ Spaced(M, r) /\ OpenPhases(M, r) = {c.phase}
    BY <1>8, <1>10, <1>16
  <1> QED BY <1>17 DEF e, M

LEMMA SettleCall ==
    ASSUME NEW c \in Call, c.op = "settle"
    PROVE  c.cost \in 0 .. PhaseBudget[c.res][c.phase]
  BY DEF Call, CostsOf

\* A settlement closes the hold that is open and pays its phase.
LEMMA LineageSettled ==
    ASSUME NEW S, NEW L \in Seq(S), NEW r \in Reservations, Paid(L, r), Spaced(L, r),
           At(L, {"release"}, r) = {},
           NEW c \in Call, c.op = "settle", c.res = r, c.phase = Count(L, r) + 1,
           c.phase \in {L[i].phase : i \in Holds(L, r)}
    PROVE  /\ Paid(Append(L, SettlementEntry(L, c)), r)
           /\ Spaced(Append(L, SettlementEntry(L, c)), r)
           /\ OpenPhases(L, r) = {c.phase}
           /\ OpenPhases(Append(L, SettlementEntry(L, c)), r) = {}
           /\ Count(Append(L, SettlementEntry(L, c)), r) = Count(L, r) + 1
  <1> DEFINE e == SettlementEntry(L, c)
             M == Append(L, e)
             n == Len(L) + 1
             k == Count(L, r)
             rv == ReservationVersion(L, r)
             tip == LineageTip(L, r)
             back == PhaseBudget[r][c.phase] - c.cost
  <1>1. /\ k \in Nat /\ n \notin Settlements(L, r) /\ IsFiniteSet(Settlements(L, r))
        /\ c.phase \in Phase /\ c.phase = k + 1
    BY SettlementsFinite, CallFacts DEF Count
  <1>2. /\ OpenPhases(L, r) = {c.phase} /\ tip = rv + 2 * k + 1 /\ rv \in Nat
        /\ \A h \in Holds(L, r) : L[h].phase = c.phase => L[h].version = tip
    <2>1. c.phase \in OpenPhases(L, r)
      <3>1. SettledPhases(L, r) = 1 .. k
        BY DEF Paid
      <3> QED BY <1>1, <3>1 DEF OpenPhases
    <2> QED BY <2>1 DEF Spaced
  <1>3. /\ e.kind = "settlement" /\ e.res = r /\ e.phase = c.phase /\ e.cost = c.cost
        /\ e.calls = Prior(L, r).calls + 1 /\ e.spent = Prior(L, r).spent + c.cost
        /\ e.returned = Prior(L, r).returned + back
    BY DEF SettlementEntry
  <1>4. e.version = tip + 1
    <2>1. Entry(L, c) = e
      BY DEF Entry
    <2> QED BY <1>2, <2>1, SettlementFacts
  <1>5. c.cost \in 0 .. PhaseBudget[r][c.phase] /\ PhaseBudget[r][c.phase] \in Nat
    BY <1>1, SettleCall, BudgetFacts
  <1>0. Grows(L, e, M, n)
    BY DEF Grows
  <1> HIDE DEF e, M, n
  <1>6. /\ n \in Nat /\ M[n] = e
        /\ Holds(M, r) = Holds(L, r) /\ Settlements(M, r) = Settlements(L, r) \cup {n}
        /\ Lineage(M, r) = Lineage(L, r) \cup {n}
        /\ At(M, {"reservation"}, r) = At(L, {"reservation"}, r) /\ At(M, {"release"}, r) = {}
        /\ \A i \in Holds(L, r) \cup Settlements(L, r) \cup Lineage(L, r)
                      \cup At(L, {"reservation"}, r) :
               i \in Nat /\ i < n /\ M[i] = L[i]
    <2>1. /\ e.kind # "hold" /\ e.kind \in {"hold", "settlement"}
          /\ e.kind # "reservation" /\ e.kind # "release"
      BY <1>3
    <2>2. n \in Nat /\ M[n] = e
      BY <1>0, <1>3, LineageGrows
    <2>3. Holds(M, r) = Holds(L, r)
      BY <1>0, <1>3, <2>1, LineageGrows
    <2>4. Settlements(M, r) = Settlements(L, r) \cup {n}
      BY <1>0, <1>3, LineageGrows
    <2>5. Lineage(M, r) = Lineage(L, r) \cup {n}
      BY <1>0, <1>3, <2>1, LineageGrows
    <2>6. At(M, {"reservation"}, r) = At(L, {"reservation"}, r)
      BY <1>0, <1>3, <2>1, LineageGrows
    <2>7. At(M, {"release"}, r) = {}
      BY <1>0, <1>3, <2>1, LineageGrows
    <2>8. \A i \in Holds(L, r) \cup Settlements(L, r) \cup Lineage(L, r)
                  \cup At(L, {"reservation"}, r) : i \in Nat /\ i < n /\ M[i] = L[i]
      BY <1>0, LineageKept
    <2> QED BY <2>2, <2>3, <2>4, <2>5, <2>6, <2>7, <2>8
  <1>7. Count(M, r) = k + 1
    <2>1. Cardinality(Settlements(L, r) \cup {n}) = Cardinality(Settlements(L, r)) + 1
      BY <1>1, FS_AddElement
    <2> QED BY <1>6, <2>1 DEF Count
  <1>8. SettledPhases(M, r) = SettledPhases(L, r) \cup {c.phase}
    <2>1. M[n].phase = c.phase /\ \A i \in Settlements(L, r) : M[i].phase = L[i].phase
      BY <1>3, <1>6
    <2>2. ASSUME NEW q \in SettledPhases(M, r)
          PROVE  q \in SettledPhases(L, r) \cup {c.phase}
      BY <1>6, <2>1 DEF SettledPhases
    <2>3. ASSUME NEW q \in SettledPhases(L, r) \cup {c.phase}
          PROVE  q \in SettledPhases(M, r)
      BY <1>6, <2>1 DEF SettledPhases
    <2> QED BY <2>2, <2>3
  <1>9. /\ Prior(M, r).calls = e.calls /\ Prior(M, r).spent = e.spent
        /\ Prior(M, r).returned = e.returned
    <2>1. Max(Settlements(M, r)) = n /\ Settlements(M, r) # {}
      <3>1. Settlements(M, r) = Settlements(L, r) \cup {n} /\ n \in Nat
        BY <1>6
      <3>2. \A i \in Settlements(L, r) : i \in Nat /\ i < n
        BY <1>6
      <3>3. Max(Settlements(L, r) \cup {n}) = n
        BY <3>1, <3>2, MaxLast
      <3> QED BY <3>1, <3>3
    <2> QED BY <1>6, <2>1 DEF Prior
  <1>10. ReservationVersion(M, r) = rv
    <2>1. At(L, {"reservation"}, r) # {} =>
              Max(At(L, {"reservation"}, r)) \in At(L, {"reservation"}, r)
      BY LastOf
    <2> QED BY <1>6, <2>1 DEF ReservationVersion
  <1>11. LineageTip(M, r) = tip + 1
    <2>1. Max(Lineage(M, r)) = n
      <3>1. Lineage(M, r) = Lineage(L, r) \cup {n} /\ n \in Nat
        BY <1>6
      <3>2. \A i \in Lineage(L, r) : i \in Nat /\ i < n
        BY <1>6
      <3>3. Max(Lineage(L, r) \cup {n}) = n
        BY <3>1, <3>2, MaxLast
      <3> QED BY <3>1, <3>3
    <2> QED BY <1>4, <1>6, <2>1 DEF LineageTip
  <1>12. Paid(M, r)
    <2>1. SettledPhases(M, r) = 1 .. k + 1 /\ k + 1 <= Phases
      <3>1. SettledPhases(L, r) = 1 .. k
        BY DEF Paid
      <3>2. (1 .. k) \cup {k + 1} = 1 .. k + 1
        BY <1>1
      <3>3. k + 1 <= Phases
        BY <1>1, CostAssumption DEF Phase
      <3> QED BY <1>1, <1>8, <3>1, <3>2, <3>3
    <2>2. /\ Prior(L, r).calls = k /\ Prior(L, r).spent \in Nat /\ Prior(L, r).returned \in Nat
          /\ Prior(L, r).spent + Prior(L, r).returned = BudgetOf(r, 1 .. k)
      BY DEF Paid
    <2>3. e.calls = k + 1
      BY <1>3, <2>2
    <2>4. ASSUME NEW i \in Settlements(M, r)
          PROVE  M[i].calls = M[i].phase /\ M[i].cost \in 0 .. PhaseBudget[r][M[i].phase]
      <3>1. CASE i = n
        BY <1>1, <1>3, <1>5, <1>6, <2>3, <3>1
      <3>2. CASE i \in Settlements(L, r)
        <4>1. M[i] = L[i]
          BY <1>6, <3>2
        <4> QED BY <3>2, <4>1 DEF Paid
      <3> QED BY <1>6, <3>1, <3>2
    <2>5. BudgetOf(r, 1 .. k + 1) = PhaseBudget[r][c.phase] + BudgetOf(r, 1 .. k)
      <3>1. (1 .. k + 1) \in SUBSET Phase /\ c.phase \in 1 .. k + 1
        BY <1>1, <2>1, CostAssumption DEF Phase
      <3>2. (1 .. k + 1) \ {c.phase} = 1 .. k
        BY <1>1
      <3>3. BudgetOf(r, 1 .. k + 1)
            = PhaseBudget[r][c.phase] + BudgetOf(r, (1 .. k + 1) \ {c.phase})
        BY <3>1, BudgetFacts
      <3> QED BY <3>2, <3>3
    <2>6. /\ e.spent \in Nat /\ e.returned \in Nat
          /\ e.spent + e.returned = BudgetOf(r, 1 .. k + 1)
      <3>1. back \in Nat /\ back + c.cost = PhaseBudget[r][c.phase] /\ c.cost \in Nat
        BY <1>5
      <3> HIDE DEF back
      <3> QED BY <1>3, <2>2, <2>5, <3>1
    <2> QED BY <1>7, <1>9, <2>1, <2>3, <2>4, <2>6 DEF Paid
  <1>13. OpenPhases(M, r) = {}
    <2>1. {M[i].phase : i \in Holds(M, r)} = {L[i].phase : i \in Holds(L, r)}
      BY <1>6
    <2> QED BY <1>2, <1>8, <2>1 DEF OpenPhases
  <1>14. Positions(M, r) = Positions(L, r) \cup {tip + 1}
    <2> DEFINE old == {L[i].version : i \in Settlements(L, r)}
               new == {M[i].version : i \in Settlements(M, r)}
    <2>1. new = old \cup {tip + 1}
      <3>1. M[n].version = tip + 1 /\ \A i \in Settlements(L, r) : M[i].version = L[i].version
        BY <1>4, <1>6
      <3>2. ASSUME NEW q \in new PROVE q \in old \cup {tip + 1}
        BY <1>6, <3>1
      <3>3. ASSUME NEW q \in old \cup {tip + 1} PROVE q \in new
        BY <1>6, <3>1
      <3> QED BY <3>2, <3>3
    <2>2. Positions(M, r) = new \cup {v - 1 : v \in new}
      <3>1. {h \in Holds(M, r) : M[h].phase \in OpenPhases(M, r)} = {}
        BY <1>13
      <3>2. {M[i].version : i \in {}} = {}
        OBVIOUS
      <3> QED BY <3>1, <3>2 DEF Positions, Claimed
    <2>3. Positions(L, r) = old \cup {v - 1 : v \in old} \cup {tip}
      <3> DEFINE open == {h \in Holds(L, r) : L[h].phase \in OpenPhases(L, r)}
      <3>1. \A h \in open : L[h].version = tip
        BY <1>2
      <3>2. open # {}
        BY <1>2
      <3> HIDE DEF open
      <3>3. {L[h].version : h \in open} = {tip}
        BY <3>1, <3>2
      <3> USE DEF open
      <3> QED BY <3>3 DEF Positions, Claimed
    <2> HIDE DEF old, new
    <2>4. {v - 1 : v \in new} = {v - 1 : v \in old} \cup {tip}
      <3>1. (tip + 1) - 1 = tip
        BY <1>1, <1>2
      <3>2. ASSUME NEW q \in {v - 1 : v \in new} PROVE q \in {v - 1 : v \in old} \cup {tip}
        BY <2>1, <3>1
      <3>3. ASSUME NEW q \in {v - 1 : v \in old} \cup {tip} PROVE q \in {v - 1 : v \in new}
        BY <2>1, <3>1
      <3> QED BY <3>2, <3>3
    <2> QED BY <2>1, <2>2, <2>3, <2>4
  <1>15. Positions(M, r) = rv + 1 .. tip + 1
    <2>1. Positions(L, r) = rv + 1 .. tip
      BY DEF Spaced
    <2>2. rv \in Nat /\ tip \in Nat /\ rv <= tip
      BY <1>1, <1>2
    <2>3. (rv + 1 .. tip) \cup {tip + 1} = rv + 1 .. tip + 1
      BY <2>2, IntervalGrows
    <2> QED BY <1>14, <2>1, <2>3
  <1> HIDE DEF rv, tip, k
  <1>16. Spaced(M, r)
    <2>1. ReservationVersion(M, r) \in Nat
      BY <1>2, <1>10
    <2>2. LineageTip(M, r) = ReservationVersion(M, r) + 2 * Count(M, r)
      BY <1>1, <1>2, <1>7, <1>10, <1>11
    <2>3. Positions(M, r) = ReservationVersion(M, r) + 1 .. LineageTip(M, r)
      BY <1>10, <1>11, <1>15
    <2>4. At(M, {"release"}, r) = {}
      BY <1>6
    <2> QED BY <1>13, <2>1, <2>2, <2>3, <2>4 DEF Spaced
  <1>17. Paid(M, r) /\ Spaced(M, r) /\ OpenPhases(L, r) = {c.phase}
         /\ OpenPhases(M, r) = {} /\ Count(M, r) = k + 1
    BY <1>2, <1>7, <1>12, <1>13, <1>16
  <1> QED BY <1>17 DEF e, M, k

\* An allowed entry that fits keeps the lineages walked.
LEMMA AppendWalks ==
    ASSUME NEW S, NEW L \in Seq(S), Rooted(L), Walked(L),
           NEW c \in Call, Allowed(L, c), Fits(L, c)
    PROVE  Walked(Append(L, Entry(L, c)))
  <1> DEFINE M == Append(L, Entry(L, c))
  <1>1. /\ Entry(L, c).kind = KindOf(c) /\ Entry(L, c).res = c.res
    BY EntryOfCall
  <1>2. c.op \in {"reserve", "hold", "settle", "release"} /\ c.res \in Reservations
    BY CallFacts
  <1>3. ASSUME NEW r \in Reservations, r # c.res PROVE Paid(M, r) /\ Spaced(M, r)
    BY <1>1, <1>3, LineageStays DEF Walked
  <1>4. Paid(L, c.res) /\ Spaced(L, c.res)
    BY <1>2 DEF Walked
  <1>5. c.op \in {"hold", "settle"} => At(L, {"release"}, c.res) = {}
    BY DEF Allowed, Presentable, Released
  <1>6. CASE c.op = "reserve"
    <2>1. At(L, {"reservation"}, c.res) = {}
      BY <1>6 DEF Allowed, Existing, Performs, At
    <2>2. Entry(L, c) = ReservationEntry(L, c)
      BY <1>6 DEF Entry
    <2>3. Entry(L, c).kind = "reservation" /\ Entry(L, c).version = Len(L)
      BY <2>2 DEF ReservationEntry
    <2>4. Paid(M, c.res) /\ Spaced(M, c.res)
      BY <1>1, <1>2, <2>1, <2>3, LineageReserved
    <2> QED BY <1>3, <2>4 DEF Walked
  <1>7. CASE c.op = "hold"
    <2>1. Entry(L, c) = HoldEntry(L, c) /\ AdmitsHold(L, c)
      BY <1>7 DEF Entry, Fits
    <2>2. Paid(M, c.res) /\ Spaced(M, c.res)
      BY <1>2, <1>4, <1>5, <1>7, <2>1, LineageHeld
    <2> QED BY <1>3, <2>2 DEF Walked
  <1>8. CASE c.op = "settle"
    <2>1. /\ Entry(L, c) = SettlementEntry(L, c) /\ c.phase = Count(L, c.res) + 1
          /\ c.phase \in {L[i].phase : i \in Holds(L, c.res)}
      BY <1>8 DEF Entry, Fits
    <2>2. Paid(M, c.res) /\ Spaced(M, c.res)
      BY <1>2, <1>4, <1>5, <1>8, <2>1, LineageSettled
    <2> QED BY <1>3, <2>2 DEF Walked
  <1>9. CASE c.op = "release"
    <2>1. Entry(L, c) = ReleaseEntry(L, c)
      BY <1>9 DEF Entry
    <2>2. Entry(L, c).kind = "release" /\ Entry(L, c).version = LineageTip(L, c.res) + 1
      BY <2>1 DEF ReleaseEntry
    <2>3. Paid(M, c.res) /\ Spaced(M, c.res)
      BY <1>4, <2>2, LineageStays
    <2> QED BY <1>3, <2>3 DEF Walked
  <1> QED BY <1>2, <1>6, <1>7, <1>8, <1>9

Fitting == \A p \in Processes : pc[p] = "committing" => Fits(Snapshot(p), call[p])

WalkInv == Walked(entries) /\ Fitting

LEMMA DerivesFits ==
    ASSUME NEW L, NEW c \in Call, Admits(L, c)
    PROVE  Fits(L, c)
  <1>1. c.op = "reserve" => AdmitsReservation(L, c)
    BY DEF Admits
  <1>2. c.op = "hold" => AdmitsHold(L, c)
    BY DEF Admits
  <1>3. c.op = "settle" => AdmitsSettlement(L, c)
    BY DEF Admits
  <1>4. c.op = "release" => AdmitsRelease(L, c)
    BY DEF Admits
  <1> QED BY <1>1, <1>2, <1>3, <1>4 DEF Fits, AdmitsSettlement, Count

\* What a landing commit appends is what its call derives from the whole journal.
LEMMA LandsEntry ==
    ASSUME LedgerInv, WalkInv, NEW p \in Processes, Landing(p)
    PROVE  /\ call[p] \in Call /\ entries' = Append(entries, Entry(entries, call[p]))
           /\ Allowed(entries, call[p]) /\ Fits(entries, call[p])
           /\ Entry(entries, call[p]).pooled \in 0 .. Budget
  <1>1. PICK S : entries \in Seq(S)
    BY DEF LedgerInv, Typed
  <1>2. /\ pc[p] = "committing" /\ Len(entries) = seen[p]
        /\ entries' = Append(entries, draft[p]) /\ draft[p].pooled \in 0 .. Budget
    BY DEF Landing, Committing, HeadExpected
  <1>3. Snapshot(p) = entries
    BY <1>1, <1>2, WholePrefix DEF Snapshot
  <1> QED BY <1>2, <1>3, LedgerAssumption DEF LedgerInv, WalkInv, Drafted, Fitting, Asking

LEMMA StepWalks ==
    ASSUME LedgerInv, WalkInv, [Next]_vars
    PROVE  WalkInv'
  <1>1. PICK S : entries \in Seq(S)
    BY DEF LedgerInv, Typed
  <1>2. CASE UNCHANGED <<entries, process>>
    BY <1>2 DEF WalkInv, Fitting, Snapshot, process
  <1>3. BeginAttempt \/ Reconcile \/ UNCHANGED vars => UNCHANGED <<entries, process>>
    BY DEF BeginAttempt, Reconcile, vars
  <1>4. ASSUME NEW p \in Processes, Quiet(p)
        PROVE  WalkInv'
    <2>1. entries' = entries
      BY <1>4 DEF Quiet
    <2>2. ASSUME NEW q \in Processes, pc'[q] = "committing"
          PROVE  Fits(SubSeq(entries, 1, seen'[q]), call'[q])
      <3>1. CASE q = p
        <4>1. /\ Derives(p) /\ call[p] \in Call
              /\ call'[p] = call[p] /\ seen'[p] = seen[p]
          BY <1>4, <2>2, <3>1, LedgerAssumption DEF Quiet, LedgerInv, Asking
        <4>2. Fits(Snapshot(p), call[p])
          BY <4>1, DerivesFits DEF Derives
        <4> QED BY <3>1, <4>1, <4>2 DEF Snapshot
      <3>2. CASE q # p
        BY <1>4, <2>2, <3>2 DEF Quiet, WalkInv, Fitting, Snapshot
      <3> QED BY <3>1, <3>2
    <2> QED BY <2>1, <2>2 DEF WalkInv, Fitting, Snapshot
  <1>5. ASSUME NEW p \in Processes, Landing(p)
        PROVE  WalkInv'
    <2>1. /\ call[p] \in Call /\ entries' = Append(entries, Entry(entries, call[p]))
          /\ Allowed(entries, call[p]) /\ Fits(entries, call[p])
      BY <1>5, LandsEntry
    <2>2. Walked(entries')
      BY <1>1, <2>1, AppendWalks DEF LedgerInv, Sound, WalkInv
    <2>3. /\ call' = call /\ pc'[p] # "committing"
          /\ \A q \in Processes \ {p} : pc'[q] = pc[q] /\ seen'[q] = seen[q]
      BY <1>5 DEF Landing, LedgerInv, Typed, TypeOK
    <2>4. ASSUME NEW q \in Processes, pc'[q] = "committing"
          PROVE  Fits(SubSeq(entries', 1, seen'[q]), call'[q])
      <3>1. q # p /\ seen[q] \in 0 .. Len(entries)
        BY <2>3, <2>4 DEF LedgerInv, Typed, TypeOK
      <3>2. SubSeq(entries', 1, seen[q]) = SubSeq(entries, 1, seen[q])
        BY <1>1, <2>1, <3>1, PrefixOfAppend
      <3> QED BY <2>3, <2>4, <3>1, <3>2 DEF WalkInv, Fitting, Snapshot
    <2> QED BY <2>2, <2>4 DEF WalkInv, Fitting, Snapshot
  <1>6. ASSUME NEW p \in Processes, Start(p) \/ Step(p) \/ Return(p) \/ Die(p)
        PROVE  WalkInv'
    BY <1>4, <1>5, <1>6, ProcessSteps DEF LedgerInv
  <1> QED BY <1>2, <1>3, <1>6 DEF Next

LEMMA InitWalks == Init => WalkInv
  <1> SUFFICES ASSUME Init PROVE WalkInv
    OBVIOUS
  <1>1. entries = <<>> /\ DOMAIN entries = {}
    BY DEF Init
  <1>2. \A kinds, r : At(entries, kinds, r) = {}
    BY <1>1 DEF At
  <1>3. \A r \in Reservations : Paid(entries, r) /\ Spaced(entries, r)
    BY <1>2, NothingHeld DEF Lineage, ReservationVersion
  <1>4. Fitting
    BY DEF Init, Fitting
  <1> QED BY <1>3, <1>4 DEF WalkInv, Walked

LEMMA Walking == Spec => []WalkInv
  <1>1. LedgerInv /\ WalkInv /\ [Next]_vars => WalkInv'
    BY StepWalks
  <1> QED BY <1>1, InitWalks, Invariance, PTL DEF Spec

\* Whatever callers do and however often they die, validateCostRelease accepts
\* every release: each ledger position between the reservation and the release
\* is claimed once, by a settlement, its hold or the hold left open.
THEOREM LineagesWalk == Spec => []LineageWalks
  <1>1. LedgerInv /\ WalkInv => LineageWalks
    <2> SUFFICES ASSUME LedgerInv, WalkInv, NEW i \in DOMAIN entries,
                        entries[i].kind = "release", NEW r, r = entries[i].res
                 PROVE  LET claimed == Claimed(entries, entries[i]) IN
                        /\ claimed = ReservationVersion(entries, r) + 1 .. entries[i].version - 1
                        /\ Cardinality(claimed) = 2 * Cardinality(Settlements(entries, r))
                                                  + Cardinality(entries[i].open)
      BY DEF LineageWalks
    <2> DEFINE rv == ReservationVersion(entries, r)
               tip == LineageTip(entries, r)
               k == Count(entries, r)
    <2>1. PICK S : entries \in Seq(S)
      BY DEF LedgerInv, Typed
    <2>2. r \in Reservations /\ i \in At(entries, {"release"}, r)
      BY DEF LedgerInv, Typed, TypeOK, At
    <2>3. Spaced(entries, r) /\ k \in Nat
      BY <2>1, <2>2, SettlementsFinite DEF WalkInv, Walked, Count
    <2>4. entries[i].open = OpenPhases(entries, r)
      BY DEF LedgerInv, Sound, Closed
    <2>5. Claimed(entries, entries[i]) = Positions(entries, r)
      BY <2>4 DEF Positions, Claimed
    <2>6. rv \in Nat /\ entries[i].version = tip + 1 /\ Positions(entries, r) = rv + 1 .. tip
      BY <2>2, <2>3 DEF Spaced
    <2>7. tip = rv + 2 * k + Cardinality(OpenPhases(entries, r))
          /\ Cardinality(OpenPhases(entries, r)) \in Nat
      <3>1. CASE OpenPhases(entries, r) = {} /\ tip = rv + 2 * k
        BY <2>3, <2>6, <3>1, FS_EmptySet
      <3>2. CASE \E phase \in Phase : OpenPhases(entries, r) = {phase} /\ tip = rv + 2 * k + 1
        <4>1. PICK phase : OpenPhases(entries, r) = {phase} /\ tip = rv + 2 * k + 1
          BY <3>2
        <4>2. Cardinality({phase}) = 1
          BY FS_Singleton
        <4> QED BY <2>3, <2>6, <4>1, <4>2
      <3> QED BY <2>3, <3>1, <3>2 DEF Spaced
    <2>8. Cardinality(rv + 1 .. tip) = 2 * k + Cardinality(OpenPhases(entries, r))
      <3> HIDE DEF rv, tip, k
      <3>1. tip \in Nat /\ rv <= tip
        BY <2>3, <2>6, <2>7
      <3>2. Cardinality(rv + 1 .. tip) = IF rv + 1 > tip THEN 0 ELSE tip - (rv + 1) + 1
        BY <2>6, <3>1, FS_Interval
      <3> QED BY <2>3, <2>6, <2>7, <3>1, <3>2
    <2>9. (tip + 1) - 1 = tip
      BY <2>3, <2>6, <2>7
    <2> QED BY <2>4, <2>5, <2>6, <2>8, <2>9 DEF Count
  <1> QED BY <1>1, Invariance, Walking, PTL

-----------------------------------------------------------------------------
(* The accounts the pool is read off a journal as *)

StageIn(L, r) == IF Released(L, r) THEN "released"
                 ELSE IF At(L, {"reservation"}, r) # {} THEN "open" ELSE "none"

SpentIn(L, r) == [n \in 1 .. Count(L, r) |->
    L[CHOOSE i \in Settlements(L, r) : L[i].calls = n].cost]

AccountIn(L, r) == [stage |-> StageIn(L, r), held |-> OpenPhases(L, r),
                    spent |-> SpentIn(L, r)]

ToCome(L, r) == Phase \ ((1 .. Count(L, r)) \cup OpenPhases(L, r))

OwedIn(L, r) == SumFunction(SpentIn(L, r)) + BudgetOf(r, OpenPhases(L, r))
                + (IF StageIn(L, r) = "open" THEN BudgetOf(r, ToCome(L, r)) ELSE 0)

Conserved(L) == Pooled(L) + SumFunction([r \in Reservations |-> OwedIn(L, r)]) = Budget

\* f says what the settlements of r say was spent, phase by phase.
Tells(f, L, r) == /\ f = [n \in 1 .. Count(L, r) |-> f[n]]
                  /\ \A i \in Settlements(L, r) : f[L[i].phase] = L[i].cost

LEMMA SpentIs ==
    ASSUME NEW L, NEW r, Paid(L, r), NEW f, Tells(f, L, r)
    PROVE  SpentIn(L, r) = f
  <1> DEFINE the(n) == CHOOSE i \in Settlements(L, r) : L[i].calls = n
  <1>1. SUFFICES ASSUME NEW n \in 1 .. Count(L, r) PROVE L[the(n)].cost = f[n]
    BY DEF SpentIn, Tells
  <1>2. n \in SettledPhases(L, r)
    BY DEF Paid
  <1>3. PICK i \in Settlements(L, r) : L[i].phase = n
    BY <1>2 DEF SettledPhases
  <1>4. L[i].calls = n
    BY <1>3 DEF Paid
  <1>5. the(n) \in Settlements(L, r) /\ L[the(n)].calls = n
    BY <1>3, <1>4
  <1> HIDE DEF the
  <1>6. L[the(n)].phase = n
    BY <1>5 DEF Paid
  <1> QED BY <1>5, <1>6 DEF Tells

LEMMA SpentTyped ==
    ASSUME NEW S, NEW L \in Seq(S), NEW r \in Reservations, Paid(L, r)
    PROVE  SpentIn(L, r) \in [1 .. Count(L, r) -> Nat]
  <1> DEFINE the(n) == CHOOSE i \in Settlements(L, r) : L[i].calls = n
  <1>1. SUFFICES ASSUME NEW n \in 1 .. Count(L, r) PROVE L[the(n)].cost \in Nat
    BY DEF SpentIn
  <1>2. n \in SettledPhases(L, r) /\ n \in Phase
    BY CostAssumption, SettlementsFinite DEF Paid, Phase, Count
  <1>3. PICK i \in Settlements(L, r) : L[i].phase = n
    BY <1>2 DEF SettledPhases
  <1>4. L[i].calls = n
    BY <1>3 DEF Paid
  <1>5. the(n) \in Settlements(L, r) /\ L[the(n)].calls = n
    BY <1>3, <1>4
  <1> HIDE DEF the
  <1>6. L[the(n)].phase = n /\ L[the(n)].cost \in 0 .. PhaseBudget[r][L[the(n)].phase]
    BY <1>5 DEF Paid
  <1> QED BY <1>2, <1>6, BudgetFacts

LEMMA SpentOnce ==
    ASSUME NEW S, NEW L \in Seq(S), Once(L), NEW r \in Reservations, Paid(L, r),
           NEW i \in Settlements(L, r)
    PROVE  L[i].phase \in 1 .. Count(L, r) /\ SpentIn(L, r)[L[i].phase] = L[i].cost
  <1> DEFINE n == L[i].phase
             the == CHOOSE j \in Settlements(L, r) : L[j].calls = n
  <1>1. n \in 1 .. Count(L, r) /\ L[i].calls = n
    BY DEF Paid, SettledPhases
  <1>2. the \in Settlements(L, r) /\ L[the].calls = n
    BY <1>1
  <1>3. SpentIn(L, r)[n] = L[the].cost
    BY <1>1 DEF SpentIn
  <1> HIDE DEF the
  <1>4. L[the].phase = n
    BY <1>2 DEF Paid
  <1>5. the = i
    <2>1. /\ the \in 1 .. Len(L) /\ i \in 1 .. Len(L) /\ Len(L) \in Nat
          /\ DOMAIN L = 1 .. Len(L)
      BY <1>2, AppendFacts DEF Settlements, At
    <2>2. SameOperation(L[the], L[i]) /\ SameOperation(L[i], L[the])
      BY <1>2, <1>4 DEF SameOperation, Settlements, At
    <2>3. ~ (the < i) /\ ~ (i < the)
      BY <2>1, <2>2 DEF Once
    <2> QED BY <2>1, <2>3
  <1> QED BY <1>1, <1>3, <1>5

\* Sums of functions by their domains.
LEMMA SumOfFunction ==
    ASSUME NEW D, NEW f \in [D -> Nat]
    PROVE  SumFunction(f) = SumFunctionOnSet(f, D)
  BY DEF SumFunction

LEMMA SumTyped ==
    ASSUME NEW D, IsFiniteSet(D), NEW f \in [D -> Nat]
    PROVE  SumFunction(f) \in Nat
  <1>1. \A x \in D : f[x] \in Nat
    OBVIOUS
  <1>2. SumFunctionOnSet(f, D) \in Nat
    BY <1>1, SumStep
  <1> QED BY <1>2, SumOfFunction

LEMMA OwedTyped ==
    ASSUME NEW S, NEW L \in Seq(S), NEW r \in Reservations, Paid(L, r), Spaced(L, r)
    PROVE  /\ SumFunction(SpentIn(L, r)) \in Nat
           /\ OpenPhases(L, r) \in SUBSET Phase /\ ToCome(L, r) \in SUBSET Phase
           /\ (1 .. Count(L, r)) \in SUBSET Phase /\ Count(L, r) \in Nat
           /\ OpenPhases(L, r) \cap (1 .. Count(L, r)) = {}
           /\ BudgetOf(r, OpenPhases(L, r)) \in Nat /\ BudgetOf(r, ToCome(L, r)) \in Nat
           /\ OwedIn(L, r) \in Nat
  <1>1. Count(L, r) \in Nat
    BY SettlementsFinite DEF Count
  <1>2. SumFunction(SpentIn(L, r)) \in Nat
    <2>1. SpentIn(L, r) \in [1 .. Count(L, r) -> Nat]
      BY SpentTyped
    <2>2. IsFiniteSet(1 .. Count(L, r))
      BY <1>1, FS_Interval
    <2> QED BY <2>1, <2>2, SumTyped
  <1>3. OpenPhases(L, r) \in SUBSET Phase /\ ToCome(L, r) \in SUBSET Phase
    BY DEF Spaced, ToCome
  <1>4. (1 .. Count(L, r)) \in SUBSET Phase
    BY <1>1, CostAssumption DEF Paid, Phase
  <1>5. OpenPhases(L, r) \cap (1 .. Count(L, r)) = {}
    BY DEF OpenPhases, Paid
  <1>6. BudgetOf(r, OpenPhases(L, r)) \in Nat /\ BudgetOf(r, ToCome(L, r)) \in Nat
    BY <1>3, BudgetFacts
  <1>7. OwedIn(L, r) \in Nat
    BY <1>2, <1>6 DEF OwedIn
  <1> QED BY <1>1, <1>2, <1>3, <1>4, <1>5, <1>6, <1>7

\* Journals with the same settlements of r say the same was spent.
LEMMA SpentSame ==
    ASSUME NEW S, NEW L \in Seq(S), NEW M, Once(L), NEW r \in Reservations,
           Paid(L, r), Paid(M, r), Settlements(M, r) = Settlements(L, r),
           \A i \in Settlements(L, r) : M[i] = L[i]
    PROVE  /\ Count(M, r) = Count(L, r) /\ SettledPhases(M, r) = SettledPhases(L, r)
           /\ SpentIn(M, r) = SpentIn(L, r)
  <1>1. Count(M, r) = Count(L, r) /\ SettledPhases(M, r) = SettledPhases(L, r)
    BY DEF Count, SettledPhases
  <1>2. PICK f : f = SpentIn(L, r)
    OBVIOUS
  <1>3. f = [n \in 1 .. Count(M, r) |-> f[n]]
    BY <1>1, <1>2 DEF SpentIn
  <1>4. \A i \in Settlements(L, r) : SpentIn(L, r)[L[i].phase] = L[i].cost
    BY SpentOnce
  <1>5. \A i \in Settlements(M, r) : f[M[i].phase] = M[i].cost
    BY <1>2, <1>4
  <1>6. Tells(f, M, r)
    BY <1>3, <1>5 DEF Tells
  <1> QED BY <1>1, <1>2, <1>6, SpentIs

\* Journals with the same holds, too, have the same account of it.
LEMMA AccountSame ==
    ASSUME NEW S, NEW L \in Seq(S), NEW M, Once(L), NEW r \in Reservations,
           Paid(L, r), Paid(M, r),
           Holds(M, r) = Holds(L, r), Settlements(M, r) = Settlements(L, r),
           \A i \in Holds(L, r) \cup Settlements(L, r) : M[i] = L[i]
    PROVE  /\ Count(M, r) = Count(L, r) /\ OpenPhases(M, r) = OpenPhases(L, r)
           /\ SpentIn(M, r) = SpentIn(L, r) /\ ToCome(M, r) = ToCome(L, r)
  <1>1. /\ Count(M, r) = Count(L, r) /\ SettledPhases(M, r) = SettledPhases(L, r)
        /\ SpentIn(M, r) = SpentIn(L, r)
    BY SpentSame
  <1>2. OpenPhases(M, r) = OpenPhases(L, r)
    BY <1>1 DEF OpenPhases
  <1>3. ToCome(M, r) = ToCome(L, r)
    BY <1>1, <1>2 DEF ToCome
  <1> QED BY <1>1, <1>2, <1>3

\* An entry that is no hold and no settlement of r leaves what is held and spent
\* alone, and one of another reservation all of r's account.
LEMMA AccountStays ==
    ASSUME NEW S, NEW L \in Seq(S), NEW e, NEW r \in Reservations,
           Once(L), Paid(L, r), Paid(Append(L, e), r),
           e.res # r \/ e.kind \in {"release", "reservation"}
    PROVE  /\ Count(Append(L, e), r) = Count(L, r)
           /\ OpenPhases(Append(L, e), r) = OpenPhases(L, r)
           /\ SpentIn(Append(L, e), r) = SpentIn(L, r)
           /\ ToCome(Append(L, e), r) = ToCome(L, r)
           /\ e.res # r => StageIn(Append(L, e), r) = StageIn(L, r)
           /\ e.res # r => OwedIn(Append(L, e), r) = OwedIn(L, r)
  <1> DEFINE M == Append(L, e)
  <1>1. Holds(M, r) = Holds(L, r)
    BY PartAppend DEF Holds
  <1>2. Settlements(M, r) = Settlements(L, r)
    BY PartAppend DEF Settlements
  <1>3. ASSUME e.res # r
        PROVE  /\ At(M, {"reservation"}, r) = At(L, {"reservation"}, r)
               /\ At(M, {"release"}, r) = At(L, {"release"}, r)
    BY <1>3, PartAppend
  <1>4. \A i \in Holds(L, r) \cup Settlements(L, r) : M[i] = L[i]
    BY PartStays DEF Holds, Settlements
  <1>5. Paid(M, r)
    OBVIOUS
  <1> HIDE DEF M
  <1>6. /\ Count(M, r) = Count(L, r) /\ OpenPhases(M, r) = OpenPhases(L, r)
        /\ SpentIn(M, r) = SpentIn(L, r) /\ ToCome(M, r) = ToCome(L, r)
    BY <1>1, <1>2, <1>4, <1>5, AccountSame
  <1>7. e.res # r => StageIn(M, r) = StageIn(L, r)
    BY <1>3 DEF StageIn, Released
  <1>8. e.res # r => OwedIn(M, r) = OwedIn(L, r)
    BY <1>6, <1>7 DEF OwedIn
  <1> QED BY <1>6, <1>7, <1>8 DEF M

\* What one reservation owes more, the pool has less.
LEMMA Balances ==
    ASSUME NEW L, NEW M, NEW r \in Reservations, Pooled(L) \in Nat, Pooled(M) \in Nat,
           \A s \in Reservations : OwedIn(L, s) \in Nat /\ OwedIn(M, s) \in Nat,
           \A s \in Reservations \ {r} : OwedIn(M, s) = OwedIn(L, s),
           Pooled(M) + OwedIn(M, r) = Pooled(L) + OwedIn(L, r),
           Conserved(L)
    PROVE  Conserved(M)
  <1> DEFINE old == [s \in Reservations |-> OwedIn(L, s)]
             new == [s \in Reservations |-> OwedIn(M, s)]
             rest == Reservations \ {r}
  <1>1. /\ old \in [Reservations -> Nat] /\ new \in [Reservations -> Nat]
        /\ \A s \in rest : old[s] = new[s] /\ old[s] \in Nat
        /\ old[r] = OwedIn(L, r) /\ new[r] = OwedIn(M, r)
    OBVIOUS
  <1>2. IsFiniteSet(Reservations) /\ IsFiniteSet(rest)
    BY CostAssumption, FS_RemoveElement
  <1>3. Pooled(L) + SumFunction(old) = Budget
    BY DEF Conserved
  <1> HIDE DEF old, new
  <1>4. SumFunction(old) = old[r] + SumFunctionOnSet(old, rest)
    BY <1>1, <1>2, SumTakesOut, SumOfFunction
  <1>5. SumFunction(new) = new[r] + SumFunctionOnSet(new, rest)
    BY <1>1, <1>2, SumTakesOut, SumOfFunction
  <1>6. /\ SumFunctionOnSet(old, rest) = SumFunctionOnSet(new, rest)
        /\ SumFunctionOnSet(old, rest) \in Nat
    BY <1>1, <1>2, SumSame, SumStep
  <1>7. old[r] \in Nat /\ new[r] \in Nat
    BY <1>1
  <1>8. Pooled(M) + SumFunction(new) = Budget
    <2> DEFINE x == SumFunctionOnSet(old, rest)
               y == OwedIn(L, r)
               z == OwedIn(M, r)
    <2>1. x \in Nat /\ y \in Nat /\ z \in Nat /\ Pooled(L) + (y + x) = Budget
          /\ SumFunction(new) = z + x /\ Pooled(M) + z = Pooled(L) + y
      BY <1>1, <1>3, <1>4, <1>5, <1>6, <1>7
    <2> HIDE DEF x, y, z
    <2> QED BY <2>1
  <1> QED BY <1>8 DEF Conserved, new

\* A reservation owes no more than there was to begin with.
LEMMA OwesAtMost ==
    ASSUME NEW L, NEW r \in Reservations, Pooled(L) \in Nat, Conserved(L),
           \A s \in Reservations : OwedIn(L, s) \in Nat
    PROVE  OwedIn(L, r) <= Budget
  <1> DEFINE owed == [s \in Reservations |-> OwedIn(L, s)]
             rest == Reservations \ {r}
  <1>1. owed \in [Reservations -> Nat] /\ owed[r] = OwedIn(L, r) /\ \A s \in rest : owed[s] \in Nat
    OBVIOUS
  <1>2. IsFiniteSet(Reservations) /\ IsFiniteSet(rest)
    BY CostAssumption, FS_RemoveElement
  <1>3. Pooled(L) + SumFunction(owed) = Budget
    BY DEF Conserved
  <1> HIDE DEF owed
  <1>4. SumFunction(owed) = owed[r] + SumFunctionOnSet(owed, rest)
    BY <1>1, <1>2, SumTakesOut, SumOfFunction
  <1>5. SumFunctionOnSet(owed, rest) \in Nat
    BY <1>1, <1>2, SumStep
  <1> QED BY <1>1, <1>3, <1>4, <1>5

-----------------------------------------------------------------------------
(* Each entry is a step of the pool *)

\* The entry of call c, derived from journal L, lands: M is the journal then.
Lands(L, c, M) ==
    /\ \E S : L \in Seq(S)
    /\ Sound(L) /\ Walked(L) /\ Pooled(L) \in 0 .. Budget
    /\ c \in Call /\ Allowed(L, c) /\ Fits(L, c)
    /\ M = Append(L, Entry(L, c))
    /\ Sound(M) /\ Walked(M) /\ Pooled(M) \in 0 .. Budget

\* Between L and M, what r owes comes from the pool or goes back to it.
Balanced(L, M, r) == Pooled(M) + OwedIn(M, r) = Pooled(L) + OwedIn(L, r)

LEMMA LandsFacts ==
    ASSUME NEW L, NEW c, NEW M, Lands(L, c, M)
    PROVE  /\ c.op \in {"reserve", "hold", "settle", "release"} /\ c.res \in Reservations
           /\ Grows(L, Entry(L, c), M, Len(L) + 1)
           /\ Entry(L, c).kind = KindOf(c) /\ Entry(L, c).res = c.res
           /\ Pooled(M) = Entry(L, c).pooled /\ Pooled(L) \in Nat /\ Pooled(M) \in Nat
           /\ \A r \in Reservations : /\ Paid(L, r) /\ Spaced(L, r) /\ Paid(M, r) /\ Spaced(M, r)
                                       /\ OwedIn(L, r) \in Nat /\ OwedIn(M, r) \in Nat
  <1>1. PICK S : L \in Seq(S)
    BY DEF Lands
  <1>2. c \in Call /\ M = Append(L, Entry(L, c))
    BY DEF Lands
  <1>3. /\ c.op \in {"reserve", "hold", "settle", "release"} /\ c.res \in Reservations
        /\ Entry(L, c).kind = KindOf(c) /\ Entry(L, c).res = c.res
    BY <1>2, CallFacts, EntryOfCall
  <1>4. Grows(L, Entry(L, c), M, Len(L) + 1)
    BY <1>1, <1>2 DEF Grows
  <1>5. Pooled(M) = Entry(L, c).pooled
    <2>1. Len(M) = Len(L) + 1 /\ M[Len(L) + 1] = Entry(L, c) /\ Len(L) \in Nat
      BY <1>1, <1>2, AppendFacts
    <2>2. M # <<>>
      BY <2>1
    <2> QED BY <2>1, <2>2 DEF Pooled
  <1>6. M \in Seq(S \cup {Entry(L, c)})
    BY <1>1, <1>2, AppendFacts
  <1>7. \A r \in Reservations : Paid(L, r) /\ Spaced(L, r) /\ Paid(M, r) /\ Spaced(M, r)
    BY DEF Lands, Walked
  <1>8. \A r \in Reservations : OwedIn(L, r) \in Nat
    BY <1>1, <1>7, OwedTyped
  <1>9. \A r \in Reservations : OwedIn(M, r) \in Nat
    BY <1>6, <1>7, OwedTyped
  <1>10. Pooled(L) \in Nat /\ Pooled(M) \in Nat
    BY CostAssumption DEF Lands
  <1> QED BY <1>3, <1>4, <1>5, <1>7, <1>8, <1>9, <1>10

LEMMA OthersStay ==
    ASSUME NEW L, NEW c, NEW M, Lands(L, c, M), NEW r \in Reservations, r # c.res
    PROVE  /\ StageIn(M, r) = StageIn(L, r) /\ OpenPhases(M, r) = OpenPhases(L, r)
           /\ SpentIn(M, r) = SpentIn(L, r) /\ OwedIn(M, r) = OwedIn(L, r)
  <1>1. PICK S : L \in Seq(S)
    BY DEF Lands
  <1>2. /\ M = Append(L, Entry(L, c)) /\ Entry(L, c).res # r
        /\ Paid(L, r) /\ Paid(M, r) /\ Once(L)
    BY LandsFacts DEF Lands, Sound
  <1>3. PICK e : e = Entry(L, c)
    OBVIOUS
  <1> QED BY <1>1, <1>2, <1>3, AccountStays

\* The budget of one phase.
LEMMA BudgetOfOne ==
    ASSUME NEW r \in Reservations, NEW phase \in Phase
    PROVE  BudgetOf(r, {}) = 0 /\ BudgetOf(r, {phase}) = PhaseBudget[r][phase]
  <1>1. {phase} \ {phase} = {} /\ {phase} \in SUBSET Phase /\ phase \in {phase}
    OBVIOUS
  <1>2. BudgetOf(r, {}) = 0 /\ PhaseBudget[r][phase] \in Nat
    BY BudgetFacts
  <1>3. BudgetOf(r, {phase}) = PhaseBudget[r][phase] + BudgetOf(r, {phase} \ {phase})
    BY <1>1, BudgetFacts
  <1> QED BY <1>1, <1>2, <1>3

LEMMA ReserveLands ==
    ASSUME NEW L, NEW c, NEW M, Lands(L, c, M), c.op = "reserve", NEW r, r = c.res
    PROVE  /\ \A other \in Reservations : Lease[other] = Lease[r] => StageIn(L, other) = "none"
           /\ StageIn(M, r) = "open" /\ OpenPhases(M, r) = OpenPhases(L, r)
           /\ SpentIn(M, r) = SpentIn(L, r)
           /\ TotalReserved(r) <= Pooled(L) /\ Pooled(M) = Pooled(L) - TotalReserved(r)
           /\ Balanced(L, M, r)
  <1>1. PICK S : L \in Seq(S)
    BY DEF Lands
  <1>2. PICK e : e = Entry(L, c)
    OBVIOUS
  <1>3. /\ r \in Reservations /\ Grows(L, e, M, Len(L) + 1) /\ M = Append(L, e)
        /\ e.kind = "reservation" /\ e.res = r /\ Pooled(M) = e.pooled
        /\ Paid(L, r) /\ Spaced(L, r) /\ Paid(M, r) /\ Spaced(M, r) /\ Rooted(L) /\ Once(L)
        /\ Pooled(L) \in Nat
    BY <1>2, LandsFacts DEF Lands, Sound, KindOf
  <1>4. ASSUME NEW other \in Reservations, Lease[other] = Lease[r]
        PROVE  \A kinds : At(L, kinds, other) = {}
    <2>1. At(L, {"reservation"}, other) = {}
      BY <1>4 DEF Lands, Allowed, Existing, Performs, At
    <2> QED BY <1>3, <2>1, Unreserved
  <1>5. \A other \in Reservations : Lease[other] = Lease[r] => StageIn(L, other) = "none"
    BY <1>4 DEF StageIn, Released
  <1>6. /\ At(L, {"reservation"}, r) = {} /\ At(L, {"release"}, r) = {}
        /\ Settlements(L, r) = {} /\ Holds(L, r) = {}
    BY <1>3, <1>4 DEF Settlements, Holds
  <1>7. StageIn(M, r) = "open"
    <2>1. At(M, {"reservation"}, r) # {}
      <3>1. At(M, {"reservation"}, r) = At(L, {"reservation"}, r) \cup {Len(L) + 1}
        BY <1>3, LineageGrows
      <3> QED BY <3>1
    <2>2. At(M, {"release"}, r) = {}
      <3>1. e.kind # "release"
        BY <1>3
      <3> QED BY <1>3, <1>6, <3>1, LineageGrows
    <2> QED BY <2>1, <2>2 DEF StageIn, Released
  <1>8. /\ OpenPhases(M, r) = OpenPhases(L, r) /\ SpentIn(M, r) = SpentIn(L, r)
        /\ Count(M, r) = Count(L, r)
    BY <1>1, <1>3, AccountStays
  <1>9. TotalReserved(r) <= Pooled(L) /\ Pooled(M) = Pooled(L) - TotalReserved(r)
    BY <1>2, <1>3 DEF Lands, Fits, AdmitsReservation, Entry, ReservationEntry
  <1>10. ToCome(M, r) = Phase
    <2>1. OpenPhases(L, r) = {} /\ Count(L, r) = 0
      BY <1>6, FS_EmptySet DEF OpenPhases, Count
    <2> QED BY <1>8, <2>1 DEF ToCome
  <1>11. Balanced(L, M, r)
    <2> DEFINE s == SumFunction(SpentIn(L, r))
               o == BudgetOf(r, OpenPhases(L, r))
               b == BudgetOf(r, Phase)
    <2>1. s \in Nat /\ o \in Nat /\ b \in Nat
      BY <1>1, <1>3, OwedTyped, BudgetFacts
    <2>2. OwedIn(L, r) = s + o + 0
      BY <1>3, <1>5 DEF OwedIn
    <2>3. OwedIn(M, r) = s + o + b
      BY <1>7, <1>8, <1>10 DEF OwedIn
    <2>4. Pooled(M) = Pooled(L) - b
      BY <1>9 DEF TotalReserved
    <2> HIDE DEF s, o, b
    <2>5. Pooled(M) + OwedIn(M, r) = Pooled(L) + OwedIn(L, r)
      BY <1>3, <2>1, <2>2, <2>3, <2>4
    <2> QED BY <2>5 DEF Balanced
  <1> QED BY <1>5, <1>7, <1>8, <1>9, <1>11

LEMMA HoldLands ==
    ASSUME NEW L, NEW c, NEW M, Lands(L, c, M), c.op = "hold", NEW r, r = c.res
    PROVE  /\ StageIn(L, r) = "open" /\ StageIn(M, r) = "open" /\ OpenPhases(L, r) = {}
           /\ c.phase \in Phase /\ c.phase \notin 1 .. Count(L, r)
           /\ OpenPhases(M, r) = {c.phase} /\ SpentIn(M, r) = SpentIn(L, r)
           /\ Pooled(M) = Pooled(L) /\ Balanced(L, M, r)
  <1>1. PICK S : L \in Seq(S)
    BY DEF Lands
  <1>2. PICK e : e = Entry(L, c)
    OBVIOUS
  <1>3. /\ r \in Reservations /\ Grows(L, e, M, Len(L) + 1) /\ M = Append(L, e)
        /\ e.kind = "hold" /\ e.res = r /\ Pooled(M) = e.pooled
        /\ Paid(L, r) /\ Spaced(L, r) /\ Paid(M, r) /\ Spaced(M, r) /\ Rooted(L) /\ Once(L)
        /\ Pooled(L) \in Nat /\ c \in Call
    BY <1>2, LandsFacts DEF Lands, Sound, KindOf
  <1>4. e = HoldEntry(L, c) /\ AdmitsHold(L, c)
    BY <1>2 DEF Lands, Fits, Entry
  <1>5. At(L, {"reservation"}, r) # {} /\ At(L, {"release"}, r) = {}
    BY DEF Lands, Allowed, Presentable, Released
  <1>6. /\ At(M, {"reservation"}, r) = At(L, {"reservation"}, r)
        /\ At(M, {"release"}, r) = {} /\ Settlements(M, r) = Settlements(L, r)
    <2>1. e.kind # "reservation" /\ e.kind # "release" /\ e.kind # "settlement"
      BY <1>3
    <2>2. At(M, {"reservation"}, r) = At(L, {"reservation"}, r)
      BY <1>3, <2>1, LineageGrows
    <2>3. At(M, {"release"}, r) = {}
      BY <1>3, <1>5, <2>1, LineageGrows
    <2>4. Settlements(M, r) = Settlements(L, r)
      BY <1>3, <2>1, LineageGrows
    <2> QED BY <2>2, <2>3, <2>4
  <1>7. \A i \in Settlements(L, r) : M[i] = L[i]
    <2>1. Grows(L, e, M, Len(L) + 1)
      BY <1>3
    <2> QED BY <2>1, LineageKept
  <1>8. Count(M, r) = Count(L, r) /\ SpentIn(M, r) = SpentIn(L, r)
    <2>1. r \in Reservations /\ Once(L) /\ Paid(L, r) /\ Paid(M, r)
      BY <1>3
    <2>2. Settlements(M, r) = Settlements(L, r)
      BY <1>6
    <2> QED BY <1>1, <1>7, <2>1, <2>2, SpentSame
  <1>9. OpenPhases(M, r) = {c.phase}
    <2>1. r \in Reservations /\ Paid(L, r) /\ Spaced(L, r) /\ c \in Call
      BY <1>3
    <2>2. OpenPhases(Append(L, HoldEntry(L, c)), r) = {c.phase}
      BY <1>1, <1>4, <1>5, <2>1, LineageHeld
    <2> QED BY <1>3, <1>4, <2>2
  <1>10. OpenPhases(L, r) = {} /\ c.phase \notin 1 .. Count(L, r) /\ c.phase \in Phase
    BY <1>3, <1>4, CallFacts DEF AdmitsHold, Paid
  <1>11. StageIn(L, r) = "open" /\ StageIn(M, r) = "open"
    BY <1>5, <1>6 DEF StageIn, Released
  <1>12. Pooled(M) = Pooled(L)
    BY <1>3, <1>4 DEF HoldEntry
  <1>13. Balanced(L, M, r)
    <2> DEFINE s == SumFunction(SpentIn(L, r))
               b == BudgetOf(r, ToCome(L, r))
               f == PhaseBudget[r][c.phase]
               t == BudgetOf(r, ToCome(M, r))
    <2>1. s \in Nat /\ b \in Nat /\ t \in Nat /\ f \in Nat
      <3>1. s \in Nat /\ b \in Nat
        BY <1>1, <1>3, OwedTyped
      <3>2. ToCome(M, r) \in SUBSET Phase
        BY DEF ToCome
      <3> QED BY <1>3, <1>10, <3>1, <3>2, BudgetFacts
    <2>2. b = f + t
      <3>1. ToCome(M, r) = ToCome(L, r) \ {c.phase} /\ c.phase \in ToCome(L, r)
        BY <1>8, <1>9, <1>10 DEF ToCome
      <3>2. ToCome(L, r) \in SUBSET Phase
        BY DEF ToCome
      <3>3. r \in Reservations
        BY <1>3
      <3>4. BudgetOf(r, ToCome(L, r))
            = PhaseBudget[r][c.phase] + BudgetOf(r, ToCome(L, r) \ {c.phase})
        BY <3>1, <3>2, <3>3, BudgetFacts
      <3> QED BY <3>1, <3>4
    <2>3. BudgetOf(r, {}) = 0 /\ BudgetOf(r, {c.phase}) = f
      BY <1>3, <1>10, BudgetOfOne
    <2>4. OwedIn(L, r) = s + 0 + b
      BY <1>10, <1>11, <2>3 DEF OwedIn
    <2>5. OwedIn(M, r) = s + f + t
      BY <1>8, <1>9, <1>11, <2>3 DEF OwedIn
    <2> HIDE DEF s, b, f, t
    <2>6. Pooled(M) + OwedIn(M, r) = Pooled(L) + OwedIn(L, r)
      BY <1>3, <1>12, <2>1, <2>2, <2>4, <2>5
    <2> QED BY <2>6 DEF Balanced
  <1> QED BY <1>8, <1>9, <1>10, <1>11, <1>12, <1>13

\* One more cost at the end of what was spent.
LEMMA SumAppend ==
    ASSUME NEW k \in Nat, NEW f \in [1 .. k -> Nat], NEW x \in Nat
    PROVE  /\ Append(f, x) = [n \in 1 .. k + 1 |-> IF n = k + 1 THEN x ELSE f[n]]
           /\ Len(f) = k
           /\ SumFunction(Append(f, x)) = SumFunction(f) + x
  <1> DEFINE g == [n \in 1 .. k + 1 |-> IF n = k + 1 THEN x ELSE f[n]]
  <1>1. f \in Seq(Nat) /\ Len(f) = k
    <2>1. f \in Seq(Nat)
      OBVIOUS
    <2>2. Len(f) = k
      BY <2>1
    <2> QED BY <2>1, <2>2
  <1>2. Append(f, x) = g
    <2>1. /\ Append(f, x) \in Seq(Nat) /\ Len(Append(f, x)) = k + 1
          /\ Append(f, x)[k + 1] = x /\ \A n \in 1 .. k : Append(f, x)[n] = f[n]
      BY <1>1, AppendFacts
    <2>2. PICK a : a = Append(f, x)
      OBVIOUS
    <2>3. a = [n \in 1 .. k + 1 |-> a[n]]
      <3>1. a \in Seq(Nat) /\ Len(a) = k + 1
        BY <2>1, <2>2
      <3>2. a \in [1 .. k + 1 -> Nat]
        BY <3>1, LenProperties
      <3> QED BY <3>2
    <2>4. \A n \in 1 .. k + 1 : a[n] = g[n]
      <3> TAKE n \in 1 .. k + 1
      <3>1. n = k + 1 \/ n \in 1 .. k
        OBVIOUS
      <3> QED BY <2>1, <2>2, <3>1
    <2> HIDE DEF g
    <2>5. g = [n \in 1 .. k + 1 |-> g[n]]
      BY DEF g
    <2> QED BY <2>2, <2>3, <2>4, <2>5
  <1>3. g \in [1 .. k + 1 -> Nat] /\ g[k + 1] = x /\ \A n \in 1 .. k : g[n] = f[n] /\ f[n] \in Nat
    OBVIOUS
  <1> HIDE DEF g
  <1>4. IsFiniteSet(1 .. k) /\ IsFiniteSet(1 .. k + 1)
    BY FS_Interval
  <1>5. SumFunctionOnSet(g, 1 .. k) = SumFunctionOnSet(f, 1 .. k)
    <2>1. \A n \in 1 .. k : f[n] \in Nat /\ f[n] = g[n]
      BY <1>3
    <2> QED BY <1>4, <2>1, SumSame
  <1>6. SumFunctionOnSet(g, 1 .. k + 1) = x + SumFunctionOnSet(g, 1 .. k)
    <2>1. (1 .. k + 1) \ {k + 1} = 1 .. k /\ k + 1 \in 1 .. k + 1
      OBVIOUS
    <2>2. \A n \in 1 .. k + 1 : g[n] \in Nat
      BY <1>3
    <2>3. SumFunctionOnSet(g, 1 .. k + 1) = g[k + 1] + SumFunctionOnSet(g, (1 .. k + 1) \ {k + 1})
      BY <1>4, <2>1, <2>2, SumTakesOut
    <2> QED BY <1>3, <2>1, <2>3
  <1>7. /\ SumFunction(g) = SumFunctionOnSet(g, 1 .. k + 1)
        /\ SumFunction(f) = SumFunctionOnSet(f, 1 .. k)
        /\ SumFunction(f) \in Nat
    BY <1>3, <1>4, SumOfFunction, SumTyped
  <1>8. SumFunction(g) = SumFunction(f) + x
    BY <1>5, <1>6, <1>7
  <1> QED BY <1>1, <1>2, <1>8 DEF g

LEMMA SettleLands ==
    ASSUME NEW L, NEW c, NEW M, Lands(L, c, M), c.op = "settle", NEW r, r = c.res
    PROVE  /\ StageIn(L, r) = "open" /\ StageIn(M, r) = "open"
           /\ c.phase \in Phase /\ c.phase = Count(L, r) + 1 /\ c.phase <= MaxCalls[r]
           /\ OpenPhases(L, r) = {c.phase} /\ OpenPhases(M, r) = {}
           /\ SpentIn(M, r) = Append(SpentIn(L, r), c.cost)
           /\ c.cost \in 0 .. PhaseBudget[r][c.phase] /\ PhaseBudget[r][c.phase] \in Nat
           /\ Pooled(M) = Pooled(L) + (PhaseBudget[r][c.phase] - c.cost) /\ Balanced(L, M, r)
  <1>1. PICK S : L \in Seq(S)
    BY DEF Lands
  <1>2. PICK e : e = Entry(L, c)
    OBVIOUS
  <1>3. /\ r \in Reservations /\ Grows(L, e, M, Len(L) + 1) /\ M = Append(L, e)
        /\ e.kind = "settlement" /\ e.res = r /\ Pooled(M) = e.pooled
        /\ Paid(L, r) /\ Spaced(L, r) /\ Paid(M, r) /\ Spaced(M, r) /\ Once(L)
        /\ Pooled(L) \in Nat /\ c \in Call
    BY <1>2, LandsFacts DEF Lands, Sound, KindOf
  <1>4. /\ e = SettlementEntry(L, c) /\ c.phase = Count(L, r) + 1
        /\ Prior(L, r).calls + 1 <= MaxCalls[r]
        /\ c.phase \in {L[i].phase : i \in Holds(L, r)}
    BY <1>2 DEF Lands, Fits, Entry
  <1>5. At(L, {"reservation"}, r) # {} /\ At(L, {"release"}, r) = {}
    BY DEF Lands, Allowed, Presentable, Released
  <1>6. /\ OpenPhases(L, r) = {c.phase} /\ OpenPhases(M, r) = {} /\ Count(M, r) = Count(L, r) + 1
    <2>1. r \in Reservations /\ Paid(L, r) /\ Spaced(L, r) /\ c \in Call
      BY <1>3
    <2>2. /\ OpenPhases(L, r) = {c.phase}
          /\ OpenPhases(Append(L, SettlementEntry(L, c)), r) = {}
          /\ Count(Append(L, SettlementEntry(L, c)), r) = Count(L, r) + 1
      BY <1>1, <1>4, <1>5, <2>1, LineageSettled
    <2> QED BY <1>3, <1>4, <2>2
  <1>7. /\ At(M, {"reservation"}, r) = At(L, {"reservation"}, r)
        /\ At(M, {"release"}, r) = {} /\ Settlements(M, r) = Settlements(L, r) \cup {Len(L) + 1}
        /\ M[Len(L) + 1] = e
    <2>1. e.kind # "reservation" /\ e.kind # "release"
      BY <1>3
    <2>2. At(M, {"reservation"}, r) = At(L, {"reservation"}, r)
      BY <1>3, <2>1, LineageGrows
    <2>3. At(M, {"release"}, r) = {}
      BY <1>3, <1>5, <2>1, LineageGrows
    <2>4. Settlements(M, r) = Settlements(L, r) \cup {Len(L) + 1} /\ M[Len(L) + 1] = e
      BY <1>3, LineageGrows
    <2> QED BY <2>2, <2>3, <2>4
  <1>8. \A i \in Settlements(L, r) : M[i] = L[i]
    <2>1. Grows(L, e, M, Len(L) + 1)
      BY <1>3
    <2> QED BY <2>1, LineageKept
  <1>9. c.phase \in Phase /\ c.cost \in 0 .. PhaseBudget[r][c.phase] /\ PhaseBudget[r][c.phase] \in Nat
    BY <1>3, CallFacts, SettleCall, BudgetFacts
  <1>10. Count(L, r) \in Nat /\ SpentIn(L, r) \in [1 .. Count(L, r) -> Nat] /\ c.cost \in Nat
    BY <1>1, <1>3, <1>9, SpentTyped, OwedTyped
  <1>11. c.phase <= MaxCalls[r]
    BY <1>3, <1>4 DEF Paid
  <1>12. SpentIn(M, r) = Append(SpentIn(L, r), c.cost)
    <2> DEFINE k == Count(L, r)
               f == SpentIn(L, r)
               g == [n \in 1 .. k + 1 |-> IF n = k + 1 THEN c.cost ELSE f[n]]
    <2>1. Append(f, c.cost) = g
      BY <1>10, SumAppend
    <2>2. g = [n \in 1 .. Count(M, r) |-> g[n]]
      BY <1>6
    <2>3. ASSUME NEW i \in Settlements(M, r) PROVE g[M[i].phase] = M[i].cost
      <3>1. CASE i \in Settlements(L, r)
        <4>1. L[i].phase \in 1 .. k /\ f[L[i].phase] = L[i].cost
          BY <1>1, <1>3, <3>1, SpentOnce
        <4>2. L[i].phase \in 1 .. k + 1 /\ L[i].phase # k + 1
          BY <1>10, <4>1
        <4>3. M[i] = L[i]
          BY <1>8, <3>1
        <4> HIDE DEF f
        <4> QED BY <4>1, <4>2, <4>3
      <3>2. CASE i = Len(L) + 1
        <4>1. M[i].phase = k + 1 /\ M[i].cost = c.cost
          BY <1>4, <1>7, <3>2 DEF SettlementEntry
        <4>2. k + 1 \in 1 .. k + 1
          BY <1>10
        <4> QED BY <4>1, <4>2
      <3> QED BY <1>7, <3>1, <3>2
    <2> HIDE DEF g, f, k
    <2>4. Tells(g, M, r)
      BY <2>2, <2>3 DEF Tells
    <2>5. SpentIn(M, r) = g
      BY <1>3, <2>4, SpentIs
    <2> QED BY <2>1, <2>5 DEF f
  <1>13. StageIn(L, r) = "open" /\ StageIn(M, r) = "open"
    BY <1>5, <1>7 DEF StageIn, Released
  <1>14. Pooled(M) = Pooled(L) + (PhaseBudget[r][c.phase] - c.cost)
    BY <1>3, <1>4 DEF SettlementEntry
  <1>15. ToCome(M, r) = ToCome(L, r)
    <2>1. (1 .. Count(L, r)) \cup {c.phase} = 1 .. Count(M, r)
      BY <1>4, <1>6, <1>10
    <2> QED BY <1>6, <2>1 DEF ToCome
  <1>16. Balanced(L, M, r)
    <2> DEFINE s == SumFunction(SpentIn(L, r))
               b == BudgetOf(r, ToCome(L, r))
               f == PhaseBudget[r][c.phase]
    <2>1. s \in Nat /\ b \in Nat
      BY <1>1, <1>3, OwedTyped
    <2>2. BudgetOf(r, {}) = 0 /\ BudgetOf(r, {c.phase}) = f
      BY <1>3, <1>9, BudgetOfOne
    <2>3. OwedIn(L, r) = s + f + b
      BY <1>6, <1>13, <2>2 DEF OwedIn
    <2>4. SumFunction(SpentIn(M, r)) = s + c.cost
      BY <1>10, <1>12, SumAppend
    <2>5. OwedIn(M, r) = (s + c.cost) + 0 + b
      BY <1>6, <1>13, <1>15, <2>2, <2>4 DEF OwedIn
    <2>6. f \in Nat /\ c.cost \in 0 .. f /\ Pooled(L) \in Nat /\ Pooled(M) = Pooled(L) + (f - c.cost)
      BY <1>3, <1>9, <1>14
    <2> HIDE DEF s, b, f
    <2>7. Pooled(M) + OwedIn(M, r) = Pooled(L) + OwedIn(L, r)
      BY <2>1, <2>3, <2>5, <2>6
    <2> QED BY <2>7 DEF Balanced
  <1> QED BY <1>4, <1>6, <1>9, <1>11, <1>12, <1>13, <1>14, <1>16

LEMMA ReleaseLands ==
    ASSUME NEW L, NEW c, NEW M, Lands(L, c, M), c.op = "release", NEW r, r = c.res
    PROVE  /\ StageIn(L, r) = "open" /\ StageIn(M, r) = "released"
           /\ OpenPhases(M, r) = OpenPhases(L, r) /\ SpentIn(M, r) = SpentIn(L, r)
           /\ Pooled(M) = Pooled(L) + BudgetOf(r, ToCome(L, r)) /\ Balanced(L, M, r)
  <1>1. PICK S : L \in Seq(S)
    BY DEF Lands
  <1>2. PICK e : e = Entry(L, c)
    OBVIOUS
  <1>3. /\ r \in Reservations /\ Grows(L, e, M, Len(L) + 1) /\ M = Append(L, e)
        /\ e.kind = "release" /\ e.res = r /\ Pooled(M) = e.pooled
        /\ Paid(L, r) /\ Spaced(L, r) /\ Paid(M, r) /\ Spaced(M, r) /\ Once(L)
        /\ Pooled(L) \in Nat /\ c \in Call
    BY <1>2, LandsFacts DEF Lands, Sound, KindOf
  <1>4. e = ReleaseEntry(L, c)
    BY <1>2 DEF Entry
  <1>5. At(L, {"reservation"}, r) # {} /\ At(L, {"release"}, r) = {}
    BY DEF Lands, Allowed, Presentable, Released
  <1>6. StageIn(L, r) = "open" /\ StageIn(M, r) = "released"
    <2>1. At(M, {"release"}, r) = At(L, {"release"}, r) \cup {Len(L) + 1}
      BY <1>3, LineageGrows
    <2> QED BY <1>5, <2>1 DEF StageIn, Released
  <1>7. OpenPhases(M, r) = OpenPhases(L, r) /\ SpentIn(M, r) = SpentIn(L, r)
    BY <1>1, <1>3, AccountStays
  <1>8. Pooled(M) = Pooled(L) + BudgetOf(r, ToCome(L, r))
    <2> DEFINE k == Count(L, r)
               o == BudgetOf(r, OpenPhases(L, r))
               b == BudgetOf(r, ToCome(L, r))
               t == BudgetOf(r, 1 .. k)
    <2>1. /\ OpenPhases(L, r) \in SUBSET Phase /\ ToCome(L, r) \in SUBSET Phase
          /\ (1 .. k) \in SUBSET Phase /\ OpenPhases(L, r) \cap (1 .. k) = {}
          /\ o \in Nat /\ b \in Nat
      BY <1>1, <1>3, OwedTyped
    <2> DEFINE past == 1 .. k
               open == OpenPhases(L, r)
               next == ToCome(L, r)
    <2>1a. /\ past \in SUBSET Phase /\ open \in SUBSET Phase /\ next \in SUBSET Phase
           /\ open \cap past = {} /\ past \cap open = {} /\ r \in Reservations
           /\ past \cup open \in SUBSET Phase
           /\ (past \cup open) \cup next = Phase /\ (past \cup open) \cap next = {}
      BY <1>3, <2>1 DEF ToCome
    <2>2. BudgetOf(r, (1 .. k) \cup OpenPhases(L, r)) = t + o
      <3> HIDE DEF past, open
      <3>1. BudgetOf(r, past \cup open) = BudgetOf(r, past) + BudgetOf(r, open)
        BY <2>1a, BudgetFacts
      <3> QED BY <3>1 DEF past, open
    <2>3. BudgetOf(r, Phase) = BudgetOf(r, (1 .. k) \cup OpenPhases(L, r)) + b
      <3> DEFINE both == past \cup open
      <3>1. both \in SUBSET Phase /\ both \cup next = Phase /\ both \cap next = {}
        BY <2>1a
      <3> HIDE DEF both, next
      <3>2. BudgetOf(r, both \cup next) = BudgetOf(r, both) + BudgetOf(r, next)
        BY <2>1a, <3>1, BudgetFacts
      <3> QED BY <3>1, <3>2 DEF both, next
    <2>4. t \in Nat
      BY <1>3, <2>1, BudgetFacts
    <2>5. Returned(L, c) = TotalReserved(r) - (t + o)
      BY <1>3 DEF Returned, Held, Paid
    <2>6. Pooled(M) = Pooled(L) + Returned(L, c)
      BY <1>3, <1>4 DEF ReleaseEntry
    <2>7. TotalReserved(r) = (t + o) + b
      BY <2>2, <2>3 DEF TotalReserved
    <2>8. Pooled(L) \in Nat
      BY <1>3
    <2> HIDE DEF t, o, b
    <2>9. Pooled(M) = Pooled(L) + b
      BY <2>1, <2>4, <2>5, <2>6, <2>7, <2>8
    <2> QED BY <2>9 DEF b
  <1>9. Balanced(L, M, r)
    <2> DEFINE s == SumFunction(SpentIn(L, r))
               o == BudgetOf(r, OpenPhases(L, r))
               b == BudgetOf(r, ToCome(L, r))
    <2>1. s \in Nat /\ o \in Nat /\ b \in Nat
      BY <1>1, <1>3, OwedTyped
    <2>2. OwedIn(L, r) = s + o + b
      BY <1>6 DEF OwedIn
    <2>3. OwedIn(M, r) = s + o + 0
      BY <1>6, <1>7 DEF OwedIn
    <2>4. Pooled(L) \in Nat /\ Pooled(M) = Pooled(L) + b
      BY <1>3, <1>8
    <2> HIDE DEF s, o, b
    <2>5. Pooled(M) + OwedIn(M, r) = Pooled(L) + OwedIn(L, r)
      BY <2>1, <2>2, <2>3, <2>4
    <2> QED BY <2>5 DEF Balanced
  <1> QED BY <1>6, <1>7, <1>8, <1>9

LEMMA LandsConserved ==
    ASSUME NEW L, NEW c, NEW M, Lands(L, c, M), Conserved(L)
    PROVE  Conserved(M)
  <1>1. Balanced(L, M, c.res)
    BY LandsFacts, ReserveLands, HoldLands, SettleLands, ReleaseLands
  <1>2. \A s \in Reservations \ {c.res} : OwedIn(M, s) = OwedIn(L, s)
    BY OthersStay
  <1>3. /\ c.res \in Reservations /\ Pooled(L) \in Nat /\ Pooled(M) \in Nat
        /\ \A s \in Reservations : OwedIn(L, s) \in Nat /\ OwedIn(M, s) \in Nat
    BY LandsFacts
  <1> QED BY <1>1, <1>2, <1>3, Balances DEF Balanced

\* acc is an account for each reservation.
Accounts(acc) == acc = [s \in Reservations |-> [stage |-> acc[s].stage,
                                                held |-> acc[s].held,
                                                spent |-> acc[s].spent]]

LEMMA AccountsUpdated ==
    ASSUME NEW acc, Accounts(acc), NEW new, Accounts(new), NEW r \in Reservations, NEW x,
           \A s \in Reservations \ {r} : new[s] = acc[s]
    PROVE  /\ new[r] = x => new = [acc EXCEPT ![r] = x]
           /\ new[r].stage = x /\ new[r].held = acc[r].held /\ new[r].spent = acc[r].spent
                 => new = [acc EXCEPT ![r].stage = x]
           /\ new[r].held = x /\ new[r].stage = acc[r].stage /\ new[r].spent = acc[r].spent
                 => new = [acc EXCEPT ![r].held = x]
  <1>1. acc = [s \in Reservations |-> acc[s]] /\ new = [s \in Reservations |-> new[s]]
    BY DEF Accounts
  <1>2. /\ acc[r] = [stage |-> acc[r].stage, held |-> acc[r].held, spent |-> acc[r].spent]
        /\ new[r] = [stage |-> new[r].stage, held |-> new[r].held, spent |-> new[r].spent]
    BY DEF Accounts
  <1>3. ASSUME NEW y, new[r] = y PROVE new = [acc EXCEPT ![r] = y]
    BY <1>1, <1>3
  <1>4. ASSUME new[r].stage = x, new[r].held = acc[r].held, new[r].spent = acc[r].spent
        PROVE  new = [acc EXCEPT ![r].stage = x]
    <2> DEFINE y == [stage |-> x, held |-> acc[r].held, spent |-> acc[r].spent]
    <2>1. new[r] = y
      BY <1>2, <1>4
    <2>2. new = [acc EXCEPT ![r] = y]
      BY <1>3, <2>1
    <2>3. y = [acc[r] EXCEPT !.stage = x]
      BY <1>2
    <2> HIDE DEF y
    <2> QED BY <2>2, <2>3
  <1>5. ASSUME new[r].held = x, new[r].stage = acc[r].stage, new[r].spent = acc[r].spent
        PROVE  new = [acc EXCEPT ![r].held = x]
    <2> DEFINE y == [stage |-> acc[r].stage, held |-> x, spent |-> acc[r].spent]
    <2>1. new[r] = y
      BY <1>2, <1>5
    <2>2. new = [acc EXCEPT ![r] = y]
      BY <1>3, <2>1
    <2>3. y = [acc[r] EXCEPT !.held = x]
      BY <1>2
    <2> HIDE DEF y
    <2> QED BY <2>2, <2>3
  <1> QED BY <1>3, <1>4, <1>5

\* The pool and its accounts are what is read off the journal.
Book(L) == [r \in Reservations |-> AccountIn(L, r)]

LEMMA BookIs ==
    /\ [r \in Reservations |-> AccountOf(r)] = Book(entries)
    /\ [r \in Reservations |-> AccountOf(r)]' = Book(entries')
    /\ Pooled(entries)' = Pooled(entries')
  <1>1. ASSUME NEW r PROVE AccountOf(r) = AccountIn(entries, r)
    BY DEF AccountOf, AccountIn, StageIn, SpentOf, SpentIn, Count
  <1>2. ASSUME NEW r PROVE AccountOf(r)' = AccountIn(entries', r)
    BY DEF AccountOf, AccountIn, StageIn, SpentOf, SpentIn, Count
  <1>3. Pooled(entries)' = Pooled(entries')
    BY DEF Pooled
  <1> QED BY <1>1, <1>2, <1>3 DEF Book

LEMMA BookAccounts ==
    ASSUME NEW L
    PROVE  /\ Accounts(Book(L))
           /\ \A r \in Reservations : /\ Book(L)[r] = AccountIn(L, r)
                                       /\ Book(L)[r].stage = StageIn(L, r)
                                       /\ Book(L)[r].held = OpenPhases(L, r)
                                       /\ Book(L)[r].spent = SpentIn(L, r)
  BY DEF Accounts, Book, AccountIn

LEMMA PoolTerms ==
    ASSUME NEW r, NEW T
    PROVE  /\ Pool!BudgetOf(r, T) = BudgetOf(r, T) /\ Pool!TotalReserved(r) = TotalReserved(r)
           /\ Pool!Phase = Phase /\ \A f : Pool!SumFunction(f) = SumFunction(f)
  <1>1. Pool!Phase = Phase
    BY DEF Pool!Phase, Phase
  <1>2. ASSUME NEW f, NEW D PROVE Pool!SumFunctionOnSet(f, D) = SumFunctionOnSet(f, D)
    BY DEF Pool!SumFunctionOnSet, SumFunctionOnSet, Pool!FoldFunctionOnSet, FoldFunctionOnSet,
           Pool!MapThenFoldSet, MapThenFoldSet
  <1>3. ASSUME NEW q, NEW D PROVE Pool!BudgetOf(q, D) = BudgetOf(q, D)
    BY <1>2 DEF Pool!BudgetOf, BudgetOf
  <1>4. Pool!TotalReserved(r) = TotalReserved(r)
    BY <1>1, <1>3 DEF Pool!TotalReserved, TotalReserved
  <1>5. ASSUME NEW f PROVE Pool!SumFunction(f) = SumFunction(f)
    BY <1>2 DEF Pool!SumFunction, SumFunction
  <1> QED BY <1>1, <1>3, <1>4, <1>5

LEMMA SpentLength ==
    ASSUME NEW S, NEW L \in Seq(S), NEW r \in Reservations, Paid(L, r)
    PROVE  Len(SpentIn(L, r)) = Count(L, r) /\ Count(L, r) \in Nat
  <1>1. Count(L, r) \in Nat
    BY SettlementsFinite DEF Count
  <1>2. SpentIn(L, r) \in [1 .. Count(L, r) -> Nat]
    BY SpentTyped
  <1> QED BY <1>1, <1>2, SumAppend

\* What the pool's own terms come to for a journal.
LEMMA UnspokenIs ==
    ASSUME NEW S, entries \in Seq(S), NEW r \in Reservations, Paid(entries, r)
    PROVE  Pool!Unspoken(r) = ToCome(entries, r) /\ Pool!Owed(r) = OwedIn(entries, r)
  <1> DEFINE acc == [s \in Reservations |-> AccountOf(s)]
  <1>1. acc = Book(entries)
    BY BookIs
  <1>2. /\ acc[r].stage = StageIn(entries, r) /\ acc[r].held = OpenPhases(entries, r)
        /\ acc[r].spent = SpentIn(entries, r)
    BY <1>1, BookAccounts
  <1>3. Len(acc[r].spent) = Count(entries, r)
    BY <1>2, SpentLength
  <1>4. Pool!Unspoken(r) = ToCome(entries, r)
    <2>1. Pool!Settled(r) = 1 .. Count(entries, r)
      BY <1>3 DEF Pool!Settled
    <2>2. Pool!Unspoken(r) = Phase \ (Pool!Settled(r) \cup acc[r].held)
      BY PoolTerms DEF Pool!Unspoken
    <2> HIDE DEF acc
    <2> QED BY <1>2, <2>1, <2>2 DEF ToCome
  <1>5. Pool!Owed(r) = OwedIn(entries, r)
    <2>1. Pool!Owed(r) = Pool!SumFunction(acc[r].spent) + Pool!BudgetOf(r, acc[r].held)
                         + (IF acc[r].stage = "open" THEN Pool!BudgetOf(r, Pool!Unspoken(r)) ELSE 0)
      BY DEF Pool!Owed
    <2> HIDE DEF acc
    <2> QED BY <1>2, <1>4, <2>1, PoolTerms DEF OwedIn
  <1> QED BY <1>4, <1>5

\* What lands is one step of the pool.
LEMMA LandsInPool ==
    ASSUME NEW c, Lands(entries, c, entries'), Conserved(entries)
    PROVE  Pool!PoolNext
  <1> DEFINE acc == [r \in Reservations |-> AccountOf(r)]
             r == c.res
  <1>1. PICK S : entries \in Seq(S)
    BY DEF Lands
  <1>2. /\ c.op \in {"reserve", "hold", "settle", "release"} /\ r \in Reservations
        /\ Pooled(entries) \in Nat /\ Paid(entries, r) /\ Spaced(entries, r)
        /\ \A s \in Reservations : OwedIn(entries, s) \in Nat
    BY LandsFacts
  <1>3. acc = Book(entries) /\ acc' = Book(entries') /\ Pooled(entries)' = Pooled(entries')
    BY BookIs
  <1>4. /\ Accounts(Book(entries)) /\ Accounts(Book(entries'))
        /\ \A s \in Reservations :
              /\ Book(entries)[s].stage = StageIn(entries, s)
              /\ Book(entries)[s].held = OpenPhases(entries, s)
              /\ Book(entries)[s].spent = SpentIn(entries, s)
              /\ Book(entries')[s] = AccountIn(entries', s)
              /\ Book(entries')[s].stage = StageIn(entries', s)
              /\ Book(entries')[s].held = OpenPhases(entries', s)
              /\ Book(entries')[s].spent = SpentIn(entries', s)
    BY BookAccounts
  <1>5. \A s \in Reservations \ {r} : Book(entries')[s] = Book(entries)[s]
    <2> TAKE s \in Reservations \ {r}
    <2>1. /\ StageIn(entries', s) = StageIn(entries, s)
          /\ OpenPhases(entries', s) = OpenPhases(entries, s)
          /\ SpentIn(entries', s) = SpentIn(entries, s)
      BY OthersStay
    <2>2. AccountIn(entries', s) = AccountIn(entries, s)
      BY <2>1 DEF AccountIn
    <2> QED BY <2>2, BookAccounts
  <1>6. /\ acc[r].stage = StageIn(entries, r) /\ acc[r].held = OpenPhases(entries, r)
         /\ acc[r].spent = SpentIn(entries, r)
    <2> HIDE DEF acc
    <2> QED BY <1>2, <1>3, <1>4
  <1>7. CASE c.op = "reserve"
    <2>1. /\ \A other \in Reservations : Lease[other] = Lease[r] => StageIn(entries, other) = "none"
          /\ StageIn(entries', r) = "open" /\ OpenPhases(entries', r) = OpenPhases(entries, r)
          /\ SpentIn(entries', r) = SpentIn(entries, r)
          /\ TotalReserved(r) <= Pooled(entries)
          /\ Pooled(entries') = Pooled(entries) - TotalReserved(r)
      BY <1>7, ReserveLands
    <2>2. Book(entries') = [Book(entries) EXCEPT ![r].stage = "open"]
      BY <1>2, <1>4, <1>5, <2>1, AccountsUpdated
    <2>3. \A other \in Reservations : Lease[other] = Lease[r] => acc[other].stage = "none"
      BY <1>3, <1>4, <2>1
    <2>4. acc' = [acc EXCEPT ![r].stage = "open"]
      BY <1>3, <2>2
    <2>5. Pool!TotalReserved(r) = TotalReserved(r)
      BY PoolTerms
    <2>6. Pool!Reserve(r)
      BY <1>3, <2>1, <2>3, <2>4, <2>5 DEF Pool!Reserve
    <2> QED BY <1>2, <2>6 DEF Pool!PoolNext
  <1>8. CASE c.op = "hold"
    <2>1. /\ StageIn(entries, r) = "open" /\ StageIn(entries', r) = "open"
          /\ OpenPhases(entries, r) = {} /\ OpenPhases(entries', r) = {c.phase}
          /\ c.phase \in Phase /\ c.phase \notin 1 .. Count(entries, r)
          /\ SpentIn(entries', r) = SpentIn(entries, r) /\ Pooled(entries') = Pooled(entries)
      BY <1>8, HoldLands
    <2>2. Book(entries') = [Book(entries) EXCEPT ![r].held = {c.phase}]
      <3> DEFINE x == {c.phase}
      <3>1. /\ Book(entries')[r].held = x /\ r \in Reservations
            /\ Book(entries')[r].stage = Book(entries)[r].stage
            /\ Book(entries')[r].spent = Book(entries)[r].spent
            /\ Accounts(Book(entries)) /\ Accounts(Book(entries'))
        BY <1>2, <1>4, <2>1
      <3> HIDE DEF x, r
      <3>2. Book(entries') = [Book(entries) EXCEPT ![r].held = x]
        BY <1>5, <3>1, AccountsUpdated
      <3> QED BY <3>2 DEF x
    <2>3. acc[r].stage = "open" /\ acc[r].held = {} /\ acc[r].spent = SpentIn(entries, r)
      <3> HIDE DEF acc
      <3> QED BY <1>6, <2>1
    <2>4. c.phase \notin Pool!Settled(r)
      <3>1. Len(acc[r].spent) = Count(entries, r)
        BY <1>1, <1>2, <2>3, SpentLength
      <3> QED BY <2>1, <3>1 DEF Pool!Settled
    <2>5. acc' = [acc EXCEPT ![r].held = {c.phase}]
      BY <1>3, <2>2
    <2>6. c.phase \in Pool!Phase
      BY <2>1, PoolTerms
    <2>7. Pool!Hold(r, c.phase)
      BY <1>3, <2>1, <2>3, <2>4, <2>5 DEF Pool!Hold
    <2> QED BY <1>2, <2>6, <2>7 DEF Pool!PoolNext
  <1>9. CASE c.op = "settle"
    <2> DEFINE k == Count(entries, r)
               f == PhaseBudget[r][c.phase]
               made == [stage |-> "open", held |-> {},
                        spent |-> Append(acc[r].spent, c.cost)]
    <2>1. /\ StageIn(entries, r) = "open" /\ StageIn(entries', r) = "open"
          /\ c.phase \in Phase /\ c.phase = k + 1 /\ c.phase <= MaxCalls[r]
          /\ OpenPhases(entries, r) = {c.phase} /\ OpenPhases(entries', r) = {}
          /\ SpentIn(entries', r) = Append(SpentIn(entries, r), c.cost)
          /\ c.cost \in 0 .. f /\ f \in Nat
          /\ Pooled(entries') = Pooled(entries) + (f - c.cost)
      <3> HIDE DEF r
      <3>1. r = c.res
        BY DEF r
      <3>2. /\ StageIn(entries, r) = "open" /\ StageIn(entries', r) = "open"
            /\ c.phase \in Phase /\ c.phase = Count(entries, r) + 1
        BY <1>9, <3>1, SettleLands
      <3>3. /\ c.phase <= MaxCalls[r]
            /\ OpenPhases(entries, r) = {c.phase} /\ OpenPhases(entries', r) = {}
        BY <1>9, <3>1, SettleLands
      <3>4. SpentIn(entries', r) = Append(SpentIn(entries, r), c.cost)
        BY <1>9, <3>1, SettleLands
      <3>5. /\ c.cost \in 0 .. PhaseBudget[r][c.phase] /\ PhaseBudget[r][c.phase] \in Nat
        BY <1>9, <3>1, SettleLands
      <3>6. Pooled(entries') = Pooled(entries) + (PhaseBudget[r][c.phase] - c.cost)
        BY <1>9, <3>1, SettleLands
      <3> QED BY <3>2, <3>3, <3>4, <3>5, <3>6
    <2>2. acc[r].stage = "open" /\ acc[r].held = {c.phase} /\ acc[r].spent = SpentIn(entries, r)
      <3> HIDE DEF acc
      <3> QED BY <1>6, <2>1
    <2>3. Len(acc[r].spent) + 1 = c.phase
      BY <1>1, <1>2, <2>1, <2>2, SpentLength
    <2>4. acc' = [acc EXCEPT ![r] = made]
      <3>1. Book(entries')[r] = [stage |-> "open", held |-> {},
                                 spent |-> Append(SpentIn(entries, r), c.cost)]
        BY <1>2, <1>4, <2>1 DEF AccountIn
      <3>2. Book(entries')[r] = made
        BY <2>2, <3>1
      <3> HIDE DEF made
      <3>3. /\ r \in Reservations
            /\ Accounts(Book(entries)) /\ Accounts(Book(entries'))
        BY <1>2, <1>4
      <3>4. Book(entries') = [Book(entries) EXCEPT ![r] = made]
        BY <1>5, <3>2, <3>3, AccountsUpdated
      <3> QED BY <1>3, <3>4
    <2>5. c.cost \in 0 .. Budget
      <3> DEFINE s == SumFunction(SpentIn(entries, r))
                 b == BudgetOf(r, ToCome(entries, r))
      <3>1. s \in Nat /\ b \in Nat
        BY <1>1, <1>2, OwedTyped
      <3>2. BudgetOf(r, {c.phase}) = f
        BY <1>2, <2>1, BudgetOfOne
      <3>3. OwedIn(entries, r) = s + f + b
        BY <2>1, <3>2 DEF OwedIn
      <3>4. OwedIn(entries, r) <= Budget
        BY <1>2, OwesAtMost
      <3>5. Budget \in Nat /\ f \in Nat /\ c.cost \in 0 .. f
        BY <2>1, CostAssumption
      <3> HIDE DEF s, b, f
      <3> QED BY <3>1, <3>3, <3>4, <3>5
    <2>6. Pool!Settle(r, c.cost)
      BY <1>3, <2>1, <2>2, <2>3, <2>4 DEF Pool!Settle
    <2> QED BY <1>2, <2>5, <2>6 DEF Pool!PoolNext
  <1>10. CASE c.op = "release"
    <2>1. /\ StageIn(entries, r) = "open" /\ StageIn(entries', r) = "released"
          /\ OpenPhases(entries', r) = OpenPhases(entries, r)
          /\ SpentIn(entries', r) = SpentIn(entries, r)
          /\ Pooled(entries') = Pooled(entries) + BudgetOf(r, ToCome(entries, r))
      BY <1>10, ReleaseLands
    <2>2. Book(entries') = [Book(entries) EXCEPT ![r].stage = "released"]
      BY <1>2, <1>4, <1>5, <2>1, AccountsUpdated
    <2>3. acc[r].stage = "open"
      BY <1>6, <2>1
    <2>4. acc' = [acc EXCEPT ![r].stage = "released"]
      BY <1>3, <2>2
    <2>5. Pool!BudgetOf(r, Pool!Unspoken(r)) = BudgetOf(r, ToCome(entries, r))
      BY <1>1, <1>2, UnspokenIs, PoolTerms
    <2>6. Pool!Release(r)
      BY <1>3, <2>1, <2>3, <2>4, <2>5 DEF Pool!Release
    <2> QED BY <1>2, <2>6 DEF Pool!PoolNext
  <1> QED BY <1>2, <1>7, <1>8, <1>9, <1>10

-----------------------------------------------------------------------------
(* The ledger implements the pool *)

\* A sum of nothing is nothing.
LEMMA SumOfZeros ==
    ASSUME NEW S, IsFiniteSet(S), NEW g, \A x \in S : g[x] = 0
    PROVE  SumFunctionOnSet(g, S) = 0
  <1> DEFINE T == {s \in SUBSET S : SumFunctionOnSet(g, s) # 0}
  <1> SUFFICES ASSUME T # {} PROVE FALSE
    <2> S \in SUBSET S
      OBVIOUS
    <2> QED OBVIOUS
  <1>1. PICK s \in T : \A t \in T : t \subseteq s => t = s
    <2>1. T \subseteq SUBSET S
      OBVIOUS
    <2> HIDE DEF T
    <2> QED BY <2>1, SmallestSet
  <1>2. IsFiniteSet(s) /\ \A x \in s : g[x] \in Nat
    BY <1>1, FS_Subset
  <1>3. s # {}
    BY <1>1, <1>2, SumStep
  <1>4. PICK y \in s : TRUE
    BY <1>3
  <1>5. SumFunctionOnSet(g, s) = g[y] + SumFunctionOnSet(g, s \ {y})
    BY <1>2, SumTakesOut
  <1>6. s \ {y} \in SUBSET S /\ s \ {y} \notin T
    BY <1>1, <1>4
  <1>7. SumFunctionOnSet(g, s \ {y}) = 0 /\ g[y] = 0
    BY <1>1, <1>4, <1>6
  <1>8. SumFunctionOnSet(g, s) = 0
    BY <1>5, <1>7
  <1> QED BY <1>1, <1>8

LEMMA PooledIn == ASSUME LedgerInv PROVE Pooled(entries) \in 0 .. Budget
  <1>1. CASE entries = <<>>
    BY <1>1, CostAssumption DEF Pooled
  <1>2. CASE entries # <<>>
    <2>1. PICK S : entries \in Seq(S)
      BY DEF LedgerInv, Typed
    <2>2. PICK n \in DOMAIN entries : n = Len(entries)
      BY <1>2, <2>1
    <2>3. entries[n].pooled \in 0 .. Budget
      BY DEF LedgerInv, Typed, TypeOK
    <2> QED BY <1>2, <2>2, <2>3 DEF Pooled
  <1> QED BY <1>1, <1>2

\* A journal with nothing in it owes nothing.
LEMMA NothingOwed ==
    ASSUME NEW L, L = <<>>
    PROVE  /\ Conserved(L) /\ Pooled(L) = Budget
           /\ \A r \in Reservations : /\ StageIn(L, r) = "none" /\ OpenPhases(L, r) = {}
                                       /\ SpentIn(L, r) = <<>>
  <1>1. \A kinds, r : At(L, kinds, r) = {}
    <2>1. DOMAIN L = {}
      OBVIOUS
    <2> QED BY <2>1 DEF At
  <1>2. Pooled(L) = Budget
    BY DEF Pooled
  <1>3. ASSUME NEW r \in Reservations
        PROVE  /\ StageIn(L, r) = "none" /\ OpenPhases(L, r) = {} /\ Count(L, r) = 0
               /\ SpentIn(L, r) = <<>> /\ OwedIn(L, r) = 0
    <2>1. StageIn(L, r) = "none"
      BY <1>1 DEF StageIn, Released
    <2>2. OpenPhases(L, r) = {}
      BY <1>1 DEF OpenPhases, Holds
    <2>3. Count(L, r) = 0
      BY <1>1, FS_EmptySet DEF Count, Settlements
    <2>4. SpentIn(L, r) = [n \in {} |-> SpentIn(L, r)[n]] /\ SpentIn(L, r) \in [{} -> Nat]
      <3>1. 1 .. Count(L, r) = {}
        BY <2>3
      <3> QED BY <3>1 DEF SpentIn
    <2>5. SpentIn(L, r) = <<>>
      BY <2>4
    <2>6. SumFunction(SpentIn(L, r)) = 0
      <3>1. SumFunction(SpentIn(L, r)) = SumFunctionOnSet(SpentIn(L, r), {})
        BY <2>4, SumOfFunction
      <3> QED BY <3>1, FS_EmptySet, SumOfZeros
    <2>7. BudgetOf(r, {}) = 0
      BY BudgetFacts
    <2>8. OwedIn(L, r) = 0 + 0 + 0
      BY <2>1, <2>2, <2>6, <2>7 DEF OwedIn
    <2> QED BY <2>1, <2>2, <2>3, <2>5, <2>8
  <1>4. SumFunction([r \in Reservations |-> OwedIn(L, r)]) = 0
    <2> DEFINE owed == [r \in Reservations |-> OwedIn(L, r)]
    <2>1. owed \in [Reservations -> Nat] /\ \A r \in Reservations : owed[r] = 0
      BY <1>3
    <2> HIDE DEF owed
    <2>2. SumFunctionOnSet(owed, Reservations) = 0
      BY <2>1, CostAssumption, SumOfZeros
    <2> QED BY <2>1, <2>2, SumOfFunction DEF owed
  <1>5. Conserved(L)
    BY <1>2, <1>4, CostAssumption DEF Conserved
  <1> QED BY <1>2, <1>3, <1>5

LEMMA StepLands ==
    ASSUME LedgerInv, WalkInv, [Next]_vars
    PROVE  entries' = entries \/ \E c : Lands(entries, c, entries')
  <1>1. PICK S : entries \in Seq(S)
    BY DEF LedgerInv, Typed
  <1>2. LedgerInv' /\ WalkInv'
    BY StepKeeps, StepWalks
  <1>3. ASSUME NEW p \in Processes, Landing(p)
        PROVE  Lands(entries, call[p], entries')
    <2> DEFINE e == Entry(entries, call[p])
    <2>1. /\ call[p] \in Call /\ entries' = Append(entries, e)
          /\ Allowed(entries, call[p]) /\ Fits(entries, call[p])
      BY <1>3, LandsEntry
    <2>2. Sound(entries) /\ Walked(entries) /\ Sound(entries') /\ Walked(entries')
      BY <1>2 DEF LedgerInv, WalkInv
    <2>3. Pooled(entries) \in 0 .. Budget
      BY PooledIn
    <2>4. Pooled(entries') \in 0 .. Budget
      <3>1. e.pooled \in 0 .. Budget
        BY <1>3, LandsEntry
      <3>2. Len(entries') = Len(entries) + 1 /\ entries'[Len(entries) + 1] = e /\ Len(entries) \in Nat
        BY <1>1, <2>1, AppendFacts
      <3>3. entries' # <<>>
        BY <3>2
      <3> QED BY <3>1, <3>2, <3>3 DEF Pooled
    <2> QED BY <1>1, <2>1, <2>2, <2>3, <2>4 DEF Lands
  <1>4. ASSUME NEW p \in Processes, Quiet(p) PROVE entries' = entries
    BY <1>4 DEF Quiet
  <1>5. BeginAttempt \/ Reconcile \/ UNCHANGED vars => entries' = entries
    BY DEF BeginAttempt, Reconcile, vars
  <1>6. ASSUME NEW p \in Processes, Start(p) \/ Step(p) \/ Return(p) \/ Die(p)
        PROVE  entries' = entries \/ \E c : Lands(entries, c, entries')
    <2>1. Quiet(p) \/ Landing(p)
      BY <1>6, ProcessSteps DEF LedgerInv
    <2> QED BY <1>3, <1>4, <2>1
  <1> QED BY <1>5, <1>6 DEF Next

\* The pool and what the reservations account for add up to the budget.
LEMMA Conserving == Spec => []Conserved(entries)
  <1>1. Init => Conserved(entries)
    BY NothingOwed DEF Init
  <1>2. LedgerInv /\ WalkInv /\ Conserved(entries) /\ [Next]_vars => Conserved(entries)'
    <2> SUFFICES ASSUME LedgerInv, WalkInv, Conserved(entries), [Next]_vars
                 PROVE  Conserved(entries')
      BY DEF Conserved, OwedIn
    <2>1. CASE entries' = entries
      BY <2>1
    <2>2. CASE \E c : Lands(entries, c, entries')
      BY <2>2, LandsConserved
    <2> QED BY <2>1, <2>2, StepLands
  <1> QED BY <1>1, <1>2, Invariance, Walking, PTL DEF Spec

LEMMA PoolConserved == LedgerInv /\ WalkInv /\ Conserved(entries) => Pool!BudgetConserved
  <1> SUFFICES ASSUME LedgerInv, WalkInv, Conserved(entries) PROVE Pool!BudgetConserved
    OBVIOUS
  <1>1. PICK S : entries \in Seq(S)
    BY DEF LedgerInv, Typed
  <1>2. \A r \in Reservations : Pool!Owed(r) = OwedIn(entries, r)
    BY <1>1, UnspokenIs DEF WalkInv, Walked
  <1>3. [r \in Reservations |-> Pool!Owed(r)] = [r \in Reservations |-> OwedIn(entries, r)]
    BY <1>2
  <1>4. Pool!BudgetConserved
        <=> Pooled(entries) + Pool!SumFunction([r \in Reservations |-> Pool!Owed(r)]) = Budget
    BY DEF Pool!BudgetConserved
  <1>5. \A f : Pool!SumFunction(f) = SumFunction(f)
    BY PoolTerms
  <1> QED BY <1>3, <1>4, <1>5 DEF Conserved

LEMMA PoolStarts == Init => Pool!PoolInit
  <1> SUFFICES ASSUME Init PROVE Pool!PoolInit
    OBVIOUS
  <1>1. Pooled(entries) = Budget /\ \A r \in Reservations :
            StageIn(entries, r) = "none" /\ OpenPhases(entries, r) = {}
            /\ SpentIn(entries, r) = <<>>
    BY NothingOwed DEF Init
  <1>2. \A r \in Reservations : AccountIn(entries, r) = Pool!Fresh
    BY <1>1 DEF AccountIn, Pool!Fresh
  <1>3. Book(entries) = [r \in Reservations |-> Pool!Fresh]
    BY <1>2 DEF Book
  <1>4. [r \in Reservations |-> AccountOf(r)] = Book(entries)
    BY BookIs
  <1> QED BY <1>1, <1>3, <1>4 DEF Pool!PoolInit

LEMMA StepInPool ==
    ASSUME LedgerInv, WalkInv, Conserved(entries), [Next]_vars
    PROVE  entries' = entries \/ (entries' # entries /\ Pool!PoolNext)
  <1>1. ASSUME NEW c, Lands(entries, c, entries') PROVE entries' # entries /\ Pool!PoolNext
    <2>1. Len(entries') # Len(entries)
      <3>1. PICK S : entries \in Seq(S)
        BY DEF LedgerInv, Typed
      <3>2. PICK e : entries' = Append(entries, e)
        BY <1>1 DEF Lands
      <3>3. Len(entries') = Len(entries) + 1 /\ Len(entries) \in Nat
        BY <3>1, <3>2, AppendFacts
      <3> QED BY <3>3
    <2> QED BY <1>1, <2>1, LandsInPool
  <1> QED BY <1>1, StepLands

\* However callers race, retry and die, each entry of the ledger is one step of
\* the pool, and at every instant what is in the pool and what the reservations
\* have spent, hold and may still hold add up to the budget it was opened with.
THEOREM LedgerImplementsPool == Spec => ImplementsCostPool
  <1> DEFINE Inv == LedgerInv /\ WalkInv /\ Conserved(entries)
  <1>1. Spec => []Inv
    BY Invariance, Walking, Conserving, PTL
  <1>2. Inv => Pool!BudgetConserved
    BY PoolConserved
  <1>3. Inv /\ Inv' /\ [Next]_vars
        => [entries' # entries /\ Pool!PoolNext /\ Pool!BudgetConserved']_entries
    <2>1. Inv' => Pool!BudgetConserved'
      BY <1>2, PTL
    <2> QED BY <2>1, StepInPool
  <1>4. Init => Pool!PoolInit
    BY PoolStarts
  <1> QED BY <1>1, <1>3, <1>4, PTL DEF Spec, ImplementsCostPool
=============================================================================

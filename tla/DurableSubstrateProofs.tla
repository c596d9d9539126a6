----------------------- MODULE DurableSubstrateProofs -----------------------
(* Proofs about the SQLite durable store for every set of processes,       *)
(* namespaces, keys and bodies, every store bound and every number of      *)
(* writes.                                                                 *)
EXTENDS DurableSubstrate, TLAPS, FiniteSetTheorems, SequenceTheorems

-----------------------------------------------------------------------------
(* The inductive invariant. *)

Calling(p) == pc[p] \in {Waiting, Writing, Committing}

\* The tables, as JournalIntact has them, and what a chain implies but does
\* not say: a position and a key are taken by one row only.
TablesIntact ==
    /\ IsFiniteSet(records) /\ Cardinality(records) <= MaxEntries
    /\ \A namespace \in Namespaces : ChainVerifies(Of(namespace), heads[namespace])
    /\ \A row, other \in records :
          row.namespace = other.namespace
              /\ (row.sequence = other.sequence \/ row.key = other.key) => row = other

\* The journal holds this very write.
Held(r) == \E row \in Existing(r) : SameWrite(row, r)

\* A writer holds the lock from BEGIN to its answer, and what it is about to
\* commit is still what the tables call for.
WriterHolds(p) ==
    /\ Calling(p) \/ answer[p] \in {"ambiguous", "STORE_UNAVAILABLE"} => request[p] \in Request
    /\ pc[p] \in {Writing, Committing} => lock = p
    /\ IF pc[p] = Committing
       THEN \E r \in Request : /\ r = request[p] /\ Verdict(r) = "insert"
                               /\ pending[p] = {RowAfter(heads[r.namespace], r)}
       ELSE pending[p] = {}

\* The head a reader holds was committed, and its record is there to be read.
HeadCommitted(p) ==
    /\ scan[p].namespace \in Namespaces /\ scan[p].head \in HeadRow
    /\ ChainState(scan[p].head)
    /\ \E row \in RecordOf(p) : Materializes(row) /\ row.head = scan[p].head.head

ReaderSees(p) ==
    /\ pc[p] = Reading => HeadCommitted(p)
    /\ pc[p] = Verifying => ChainVerifies(scan[p].rows, scan[p].head)

\* A process whose write is in the journal finds it there.
LandedHeld(p) == p \in landed => \E r \in Request : r = request[p] /\ Held(r)

\* It is never accused, and never told that a write of its own is refused.
ToldTruly(p) ==
    /\ "CHAIN_INVALID" \notin {answer[p], observed[p]}
    /\ p \in landed => answer[p] \notin {"conflict", "CAPACITY_EXHAUSTED"}

ProcessInv(p) == WriterHolds(p) /\ ReaderSees(p) /\ LandedHeld(p) /\ ToldTruly(p)

PromisesHeld == \A write \in promised : \E row \in records : Promise(row) = write

StoreTypes ==
    /\ TypeOK
    /\ pending \in [Processes -> SUBSET Row]
    /\ answer = [p \in Processes |-> answer[p]]
    /\ scan = [p \in Processes |-> scan[p]]
    /\ observed = [p \in Processes |-> observed[p]]

StoreInv == /\ StoreTypes /\ TablesIntact /\ PromisesHeld
            /\ \A p \in Processes : ProcessInv(p)

-----------------------------------------------------------------------------
(* The chain of a namespace *)

LEMMA AppendFacts ==
    ASSUME NEW S, NEW s \in Seq(S), NEW x \in S
    PROVE  Append(s, x) \in Seq(S) /\ Append(s, x) # <<>>
  <1>1. Append(s, x) \in Seq(S) /\ Len(Append(s, x)) = Len(s) + 1 /\ Len(s) \in Nat
    OBVIOUS
  <1>2. Len(<<>>) = 0
    OBVIOUS
  <1> QED BY <1>1, <1>2

LEMMA RowAfterFacts ==
    ASSUME NEW current \in HeadRow, ChainState(current), NEW r \in Request
    PROVE  LET row == RowAfter(current, r) IN
           /\ row \in Row /\ Materializes(row)
           /\ row.namespace = r.namespace /\ row.key = r.key /\ row.body = r.body
           /\ row.sequence = current.sequence + 1 /\ row.previousHead = current.head
           /\ row.head # Genesis
           /\ HeadAfter(current, row) =
                  [sequence |-> current.sequence + 1, head |-> row.head,
                   entryCount |-> current.entryCount + 1]
           /\ HeadAfter(current, row) \in HeadRow /\ ChainState(HeadAfter(current, row))
  <1> DEFINE row == RowAfter(current, r)
             link == [namespace |-> r.namespace, key |-> r.key,
                      sequence |-> current.sequence + 1, body |-> r.body]
  <1>1. /\ current.sequence \in Nat /\ current.entryCount \in Nat /\ current.head \in Heads
        /\ (current.sequence = 0 <=> current.head = Genesis)
        /\ current.entryCount = current.sequence
    BY DEF HeadRow, ChainState
  <1>2. /\ r.namespace \in Namespaces /\ r.key \in Keys /\ r.body \in Bodies
    BY DEF Request
  <1>3. current.sequence + 1 \in Nat \ {0}
    BY <1>1
  <1>4. link \in Link
    BY <1>2, <1>3 DEF Link
  <1>5. Append(current.head, link) \in Heads /\ Append(current.head, link) # Genesis
    BY <1>1, <1>4, AppendFacts DEF Heads, Genesis
  <1>6. /\ row.namespace = r.namespace /\ row.key = r.key /\ row.body = r.body
        /\ row.sequence = current.sequence + 1 /\ row.previousHead = current.head
        /\ row.head = Append(current.head, link)
    BY DEF RowAfter, ChainHead
  <1>7. row \in Row
    BY <1>1, <1>2, <1>3, <1>5 DEF RowAfter, ChainHead, Row
  <1>8. Materializes(row)
    BY <1>1, <1>6 DEF Materializes, ChainHead
  <1>9. HeadAfter(current, row) =
            [sequence |-> current.sequence + 1, head |-> row.head,
             entryCount |-> current.entryCount + 1]
    BY <1>6 DEF HeadAfter
  <1>10. HeadAfter(current, row) \in HeadRow /\ ChainState(HeadAfter(current, row))
    BY <1>1, <1>5, <1>6, <1>9 DEF HeadRow, ChainState
  <1> QED BY <1>5, <1>6, <1>7, <1>8, <1>9, <1>10

\* The rows of a verified chain, by their position.
LEMMA ChainFacts ==
    ASSUME NEW rows, IsFiniteSet(rows), NEW current \in HeadRow, ChainVerifies(rows, current)
    PROVE  /\ current.sequence = Cardinality(rows) /\ current.sequence \in Nat
           /\ ChainState(current)
           /\ \A row \in rows : row.sequence \in 1 .. current.sequence /\ Materializes(row)
           /\ \A n \in 1 .. current.sequence : \E row \in rows : row.sequence = n
           /\ current.head # Genesis =>
                  \E row \in rows : /\ row.sequence = current.sequence
                                    /\ row.head = current.head /\ Materializes(row)
           /\ current.head = Genesis => rows = {}
  <1>1. Cardinality(rows) \in Nat
    BY FS_CardinalityType
  <1>2. /\ current.sequence = Cardinality(rows) /\ ChainState(current)
        /\ {row.sequence : row \in rows} = 1 .. current.sequence
        /\ \A row \in rows : Materializes(row)
        /\ \A row \in rows : row.sequence = current.sequence => row.head = current.head
    BY DEF ChainVerifies
  <1>3. \A row \in rows : row.sequence \in 1 .. current.sequence
    BY <1>2
  <1>4. \A n \in 1 .. current.sequence : \E row \in rows : row.sequence = n
    BY <1>2
  <1>5. current.sequence = 0 <=> current.head = Genesis
    BY <1>2 DEF ChainState
  <1>6. current.head # Genesis => current.sequence \in 1 .. current.sequence
    BY <1>1, <1>2, <1>5
  <1>7. current.sequence = 0 => rows = {}
    BY <1>3
  <1> QED BY <1>1, <1>2, <1>3, <1>4, <1>5, <1>6, <1>7

LEMMA ChainExtends ==
    ASSUME NEW rows, IsFiniteSet(rows), NEW current \in HeadRow, ChainVerifies(rows, current),
           NEW r \in Request
    PROVE  /\ RowAfter(current, r) \notin rows
           /\ \A row \in rows : row.sequence # RowAfter(current, r).sequence
           /\ ChainVerifies(rows \cup {RowAfter(current, r)},
                            HeadAfter(current, RowAfter(current, r)))
  <1> DEFINE new == RowAfter(current, r)
             all == rows \cup {new}
             next == HeadAfter(current, new)
             n == current.sequence
  <1>1. /\ n = Cardinality(rows) /\ n \in Nat /\ ChainState(current)
        /\ \A row \in rows : row.sequence \in 1 .. n /\ Materializes(row)
        /\ \A m \in 1 .. n : \E row \in rows : row.sequence = m
    BY ChainFacts
  <1>2. /\ new.sequence = n + 1 /\ new.previousHead = current.head /\ Materializes(new)
        /\ ChainState(next) /\ next.sequence = n + 1 /\ next.head = new.head
    BY <1>1, RowAfterFacts
  <1>3. \A row \in rows : row.sequence # new.sequence
    BY <1>1, <1>2
  <1>4. new \notin rows
    BY <1>3
  <1> HIDE DEF new, next, n
  <1>5. Cardinality(all) = n + 1
    BY <1>1, <1>4, FS_AddElement
  <1>6. {row.sequence : row \in all} = 1 .. n + 1
    <2>1. \A row \in all : row.sequence \in 1 .. n + 1
      BY <1>1, <1>2
    <2>2. \A m \in 1 .. n + 1 : \E row \in all : row.sequence = m
      <3> SUFFICES ASSUME NEW m \in 1 .. n + 1 PROVE \E row \in all : row.sequence = m
        OBVIOUS
      <3>1. CASE m = n + 1
        BY <1>2, <3>1
      <3>2. CASE m # n + 1
        <4>1. m \in 1 .. n
          BY <1>1, <3>2
        <4> QED BY <1>1, <4>1
      <3> QED BY <3>1, <3>2
    <2> QED BY <2>1, <2>2
  <1>7. \A row \in all :
            IF row.sequence = 1 THEN row.previousHead = Genesis
            ELSE \E before \in all : /\ before.sequence = row.sequence - 1
                                     /\ before.head = row.previousHead
    <2> SUFFICES ASSUME NEW row \in all
                 PROVE  IF row.sequence = 1 THEN row.previousHead = Genesis
                        ELSE \E before \in all : /\ before.sequence = row.sequence - 1
                                                 /\ before.head = row.previousHead
      OBVIOUS
    <2>1. CASE row \in rows
      BY <2>1 DEF ChainVerifies
    <2>2. CASE row = new
      <3>1. CASE n = 0
        BY <1>1, <1>2, <2>2, <3>1 DEF ChainState, n
      <3>2. CASE n # 0
        <4>1. PICK before \in rows : before.sequence = n
          BY <1>1, <3>2
        <4>2. before.head = current.head
          BY <4>1 DEF ChainVerifies, n
        <4> QED BY <1>1, <1>2, <2>2, <3>2, <4>1, <4>2
      <3> QED BY <3>1, <3>2
    <2> QED BY <2>1, <2>2
  <1>8. \A row \in all : row.sequence = next.sequence => row.head = next.head
    BY <1>2, <1>3
  <1>9. ChainVerifies(all, next)
    BY <1>1, <1>2, <1>5, <1>6, <1>7, <1>8 DEF ChainVerifies
  <1> QED BY <1>3, <1>4, <1>9 DEF new, next

-----------------------------------------------------------------------------
(* What a writer decides under the lock *)

LEMMA NamespaceFacts ==
    ASSUME StoreTypes, TablesIntact, NEW namespace \in Namespaces
    PROVE  /\ IsFiniteSet(Of(namespace)) /\ Of(namespace) \subseteq Row
           /\ heads[namespace] \in HeadRow /\ ChainState(heads[namespace])
           /\ ChainVerifies(Of(namespace), heads[namespace])
           /\ \A row \in Of(namespace) : /\ row.sequence \in 1 .. heads[namespace].sequence
                                         /\ Materializes(row)
           /\ heads[namespace].sequence \in Nat
  <1>1. IsFiniteSet(Of(namespace)) /\ Of(namespace) \subseteq Row
    BY FS_Subset DEF TablesIntact, StoreTypes, TypeOK, Of
  <1>2. heads[namespace] \in HeadRow /\ ChainVerifies(Of(namespace), heads[namespace])
    BY DEF TablesIntact, StoreTypes, TypeOK
  <1> QED BY <1>1, <1>2, ChainFacts

\* An intact store gives a definite answer, which is that the write is in the
\* journal already whenever it is.
LEMMA VerdictFacts ==
    ASSUME StoreTypes, TablesIntact, NEW r \in Request
    PROVE  /\ Verdict(r) \in {"existing", "conflict", "CAPACITY_EXHAUSTED", "insert"}
           /\ Verdict(r) = "existing" <=> Held(r)
           /\ Verdict(r) = "insert" =>
                  /\ Existing(r) = {} /\ ~ Full(records)
                  /\ r.mode = "compare-and-swap" => heads[r.namespace].head = r.expectedHead
           /\ Verdict(r) = "conflict" =>
                  \/ Existing(r) # {}
                  \/ r.mode = "compare-and-swap" /\ heads[r.namespace].head # r.expectedHead
           /\ Verdict(r) = "CAPACITY_EXHAUSTED" =>
                  /\ Full(records) /\ Existing(r) = {}
                  /\ ~ (r.mode = "compare-and-swap" /\ heads[r.namespace].head # r.expectedHead)
  <1>1. r.namespace \in Namespaces
    BY DEF Request
  <1>2. /\ ChainState(heads[r.namespace]) /\ heads[r.namespace].sequence \in Nat
        /\ \A row \in Of(r.namespace) : /\ row.sequence \in 1 .. heads[r.namespace].sequence
                                        /\ Materializes(row)
    BY <1>1, NamespaceFacts
  <1>3. ~ \E row \in Existing(r) : ~ Materializes(row)
    BY <1>2 DEF Existing
  <1>4. ~ \E row \in Of(r.namespace) : row.sequence = heads[r.namespace].sequence + 1
    BY <1>2
  <1>5. Verdict(r) =
          IF Existing(r) # {} THEN IF Held(r) THEN "existing" ELSE "conflict"
          ELSE IF r.mode = "compare-and-swap" /\ heads[r.namespace].head # r.expectedHead
               THEN "conflict"
          ELSE IF Full(records) THEN "CAPACITY_EXHAUSTED" ELSE "insert"
    BY <1>2, <1>3, <1>4 DEF Verdict, Held
  <1>6. Held(r) => Existing(r) # {}
    BY DEF Held
  <1> QED BY <1>5, <1>6

\* The tables after the commit of a process that holds the lock.
LEMMA LandFacts ==
    ASSUME StoreTypes, TablesIntact, NEW p \in Processes, WriterHolds(p),
           pc[p] = Committing, Land(p),
           NEW r, r = request[p], NEW row, row = RowAfter(heads[r.namespace], r)
    PROVE  /\ r \in Request /\ row \in Row /\ row \notin records
           /\ records' = records \cup {row}
           /\ heads' \in [Namespaces -> HeadRow]
           /\ row.namespace = r.namespace /\ row.key = r.key /\ row.body = r.body
           /\ Verdict(r) = "insert" /\ Held(r)'
           /\ TablesIntact'
  <1> DEFINE current == heads[r.namespace]
             next == HeadAfter(current, row)
  <1>1. r \in Request /\ pending[p] = {row} /\ Verdict(r) = "insert"
    BY DEF WriterHolds
  <1>2. r.namespace \in Namespaces /\ r.key \in Keys /\ r.body \in Bodies
    BY <1>1 DEF Request
  <1>3. /\ IsFiniteSet(Of(r.namespace)) /\ current \in HeadRow /\ ChainState(current)
        /\ ChainVerifies(Of(r.namespace), current)
    BY <1>2, NamespaceFacts
  <1>4. /\ row \in Row /\ row.namespace = r.namespace /\ row.key = r.key /\ row.body = r.body
        /\ row.previousHead = current.head /\ next \in HeadRow
    BY <1>1, <1>3, RowAfterFacts
  <1>5. /\ row \notin Of(r.namespace)
        /\ \A other \in Of(r.namespace) : other.sequence # row.sequence
        /\ ChainVerifies(Of(r.namespace) \cup {row}, next)
    BY <1>1, <1>3, ChainExtends
  <1>6. /\ Existing(r) = {} /\ ~ Full(records)
        /\ r.mode = "compare-and-swap" => current.head = r.expectedHead
    BY <1>1, VerdictFacts
  <1>7. row \notin records
    BY <1>4, <1>5 DEF Of
  <1>8. records' = records \cup {row}
    BY <1>1 DEF Land
  <1>9. heads' = [heads EXCEPT ![r.namespace] = next]
    <2>1. heads' = [namespace \in Namespaces |->
                       IF \E o \in {row} : o.namespace = namespace
                       THEN HeadAfter(heads[namespace],
                                      CHOOSE o \in {row} : o.namespace = namespace)
                       ELSE heads[namespace]]
      BY <1>1 DEF Land
    <2>2. \A namespace \in Namespaces :
              IF \E o \in {row} : o.namespace = namespace
              THEN /\ namespace = r.namespace
                   /\ (CHOOSE o \in {row} : o.namespace = namespace) = row
              ELSE namespace # r.namespace
      BY <1>4
    <2>3. heads \in [Namespaces -> HeadRow]
      BY DEF StoreTypes, TypeOK
    <2>4. ASSUME NEW namespace \in Namespaces
          PROVE  heads'[namespace] = IF namespace = r.namespace THEN next ELSE heads[namespace]
      <3>1. CASE namespace = r.namespace
        BY <2>1, <2>2, <3>1
      <3>2. CASE namespace # r.namespace
        BY <2>1, <2>2, <3>2
      <3> QED BY <3>1, <3>2
    <2>5. heads' \in [Namespaces -> {heads'[namespace] : namespace \in Namespaces}]
      BY <2>1
    <2> QED BY <2>3, <2>4, <2>5
  <1>10. heads' \in [Namespaces -> HeadRow]
    BY <1>4, <1>9 DEF StoreTypes, TypeOK
  <1>11. \A namespace \in Namespaces :
             /\ namespace = r.namespace =>
                    Of(namespace)' = Of(namespace) \cup {row} /\ heads'[namespace] = next
             /\ namespace # r.namespace =>
                    Of(namespace)' = Of(namespace) /\ heads'[namespace] = heads[namespace]
    <2> SUFFICES ASSUME NEW namespace \in Namespaces
                 PROVE  /\ namespace = r.namespace =>
                              Of(namespace)' = Of(namespace) \cup {row} /\ heads'[namespace] = next
                        /\ namespace # r.namespace =>
                              Of(namespace)' = Of(namespace) /\ heads'[namespace] = heads[namespace]
      OBVIOUS
    <2>1. Of(namespace)' = {o \in records' : o.namespace = namespace}
      BY DEF Of
    <2>2. heads \in [Namespaces -> HeadRow]
      BY DEF StoreTypes, TypeOK
    <2> HIDE DEF next
    <2>3. Of(namespace)' = IF namespace = r.namespace THEN Of(namespace) \cup {row}
                           ELSE Of(namespace)
      BY <1>4, <1>8, <2>1 DEF Of
    <2> QED BY <1>9, <2>2, <2>3
  <1> HIDE DEF next, current
  <1>12. TablesIntact'
    <2>1. IsFiniteSet(records') /\ Cardinality(records') = Cardinality(records) + 1
      BY <1>7, <1>8, FS_AddElement DEF TablesIntact
    <2>2. Cardinality(records) \in Nat /\ MaxEntries \in Nat /\ Cardinality(records) < MaxEntries
      BY <1>6, FS_CardinalityType, JournalAssumption DEF TablesIntact, Full
    <2>3. Cardinality(records') <= MaxEntries
      BY <2>1, <2>2
    <2>4. ASSUME NEW namespace \in Namespaces
          PROVE  ChainVerifies(Of(namespace), heads[namespace])'
      <3>1. ChainVerifies(Of(namespace)', heads'[namespace])
        BY <1>5, <1>11 DEF TablesIntact
      <3> QED BY <3>1 DEF ChainVerifies, ChainState, Materializes, ChainHead, Genesis
    <2>5. \A o \in records : o.namespace = row.namespace =>
              o.sequence # row.sequence /\ o.key # row.key
      BY <1>4, <1>5, <1>6 DEF Existing, Of
    <2>6. \A o, other \in records' :
              o.namespace = other.namespace /\ (o.sequence = other.sequence \/ o.key = other.key)
                  => o = other
      BY <1>8, <2>5 DEF TablesIntact
    <2> QED BY <2>1, <2>3, <2>4, <2>6 DEF TablesIntact
  <1>13. Held(r)'
    <2>1. row \in Existing(r)'
      BY <1>4, <1>8 DEF Existing, Of
    <2>2. SameWrite(row, r)
      BY <1>4, <1>6 DEF SameWrite, current
    <2> QED BY <2>1, <2>2 DEF Held, SameWrite
  <1> QED BY <1>1, <1>4, <1>7, <1>8, <1>10, <1>12, <1>13

-----------------------------------------------------------------------------
(* What a step of one process leaves to the others *)

Same(q) == /\ pc'[q] = pc[q] /\ request'[q] = request[q] /\ pending'[q] = pending[q]
           /\ answer'[q] = answer[q] /\ scan'[q] = scan[q] /\ observed'[q] = observed[q]
           /\ q \in landed' => q \in landed

OthersSame(p) == \A q \in Processes : q # p => Same(q)

\* A write that is held stays held.
LEMMA HeldStays ==
    ASSUME NEW r, Held(r), records \subseteq records'
    PROVE  Held(r)'
  BY DEF Held, Existing, Of, SameWrite

LEMMA TablesSame ==
    ASSUME UNCHANGED tables
    PROVE  /\ \A r : Verdict(r)' = Verdict(r) /\ (Held(r)' <=> Held(r))
           /\ TablesIntact => TablesIntact'
           /\ PromisesHeld /\ promised' = promised => PromisesHeld'
           /\ records \subseteq records'
  <1>1. records' = records /\ heads' = heads
    BY DEF tables
  <1>2. \A r : Verdict(r)' = Verdict(r)
    BY <1>1 DEF Verdict, ChainState, Existing, Of, Materializes, ChainHead, SameWrite, Full, Genesis
  <1>3. \A r : Held(r)' <=> Held(r)
    BY <1>1 DEF Held, Existing, Of, SameWrite
  <1>4. TablesIntact => TablesIntact'
    BY <1>1 DEF TablesIntact, ChainVerifies, Of, ChainState, Materializes, ChainHead, Genesis
  <1> QED BY <1>1, <1>2, <1>3, <1>4 DEF PromisesHeld, Promise

\* A head that was committed stays so.
LEMMA HeadStays ==
    ASSUME NEW q \in Processes, HeadCommitted(q), records \subseteq records', scan'[q] = scan[q]
    PROVE  HeadCommitted(q)'
  <1>1. PICK row \in RecordOf(q) : Materializes(row) /\ row.head = scan[q].head.head
    BY DEF HeadCommitted
  <1>2. row \in RecordOf(q)'
    BY <1>1 DEF RecordOf, Of
  <1>3. Materializes(row)' /\ row.head = scan'[q].head.head
    BY <1>1 DEF Materializes, ChainHead
  <1> QED BY <1>2, <1>3 DEF HeadCommitted, ChainState

LEMMA OthersKeep ==
    ASSUME NEW q \in Processes, ProcessInv(q), Same(q), records \subseteq records',
           pc[q] \in {Writing, Committing} => lock' = lock,
           pc[q] = Committing => UNCHANGED tables
    PROVE  ProcessInv(q)'
  <1>1. /\ pc'[q] = pc[q] /\ request'[q] = request[q] /\ pending'[q] = pending[q]
        /\ answer'[q] = answer[q] /\ scan'[q] = scan[q] /\ observed'[q] = observed[q]
        /\ q \in landed' => q \in landed
    BY DEF Same
  <1>2. WriterHolds(q)'
    <2>1. CASE pc[q] = Committing
      <3>1. PICK r \in Request : /\ r = request[q] /\ Verdict(r) = "insert"
                                /\ pending[q] = {RowAfter(heads[r.namespace], r)}
        BY <2>1 DEF ProcessInv, WriterHolds
      <3>2. Verdict(r)' = "insert" /\ heads' = heads
        BY <2>1, <3>1, TablesSame DEF tables
      <3>3. RowAfter(heads'[r.namespace], r) = RowAfter(heads[r.namespace], r)
        BY <3>2
      <3>4. /\ r = request'[q] /\ Verdict(r)' = "insert"
            /\ pending'[q] = {RowAfter(heads'[r.namespace], r)}
        BY <1>1, <3>1, <3>2, <3>3
      <3>5. request[q] \in Request /\ lock' = lock /\ lock = q
        BY <2>1, <3>1 DEF ProcessInv, WriterHolds
      <3>6. \E o \in Request : /\ o = request'[q] /\ Verdict(o)' = "insert"
                               /\ pending'[q] = {RowAfter(heads'[o.namespace], o)}
        BY <3>4
      <3> QED BY <1>1, <2>1, <3>1, <3>5, <3>6 DEF WriterHolds, Calling, RowAfter, ChainHead
    <2>2. CASE pc[q] # Committing
      BY <1>1, <2>2 DEF ProcessInv, WriterHolds, Calling
    <2> QED BY <2>1, <2>2
  <1>3. ReaderSees(q)'
    BY <1>1, HeadStays DEF ProcessInv, ReaderSees, ChainVerifies, ChainState, Materializes,
       ChainHead, Genesis
  <1>4. LandedHeld(q)'
    <2> SUFFICES ASSUME q \in landed PROVE \E r \in Request : r = request'[q] /\ Held(r)'
      BY <1>1 DEF LandedHeld
    <2>1. PICK r \in Request : r = request[q] /\ Held(r)
      BY DEF ProcessInv, LandedHeld
    <2>2. Held(r)'
      BY <2>1, HeldStays
    <2> QED BY <1>1, <2>1, <2>2
  <1>5. ToldTruly(q)'
    BY <1>1 DEF ProcessInv, ToldTruly
  <1> QED BY <1>2, <1>3, <1>4, <1>5 DEF ProcessInv

\* A step of p is safe when it keeps the tables and p's own invariant, and
\* frees or takes the lock only where nobody else relies on it.
LEMMA StepKeeps ==
    ASSUME StoreInv, NEW p \in Processes, StoreTypes', TablesIntact', PromisesHeld',
           OthersSame(p), records \subseteq records', ProcessInv(p)',
           lock' = lock \/ lock \notin Processes \ {p},
           UNCHANGED tables \/ lock \notin Processes \ {p}
    PROVE  StoreInv'
  <1>1. ASSUME NEW q \in Processes, q # p PROVE ProcessInv(q)'
    <2>1. Same(q) /\ ProcessInv(q)
      BY <1>1 DEF OthersSame, StoreInv
    <2>2. pc[q] \in {Writing, Committing} => lock \in Processes \ {p}
      BY <1>1, <2>1 DEF ProcessInv, WriterHolds
    <2> QED BY <2>1, <2>2, OthersKeep
  <1> QED BY <1>1 DEF StoreInv

\* The same when the tables stay as they are.
LEMMA QuietKeeps ==
    ASSUME StoreInv, NEW p \in Processes, StoreTypes', UNCHANGED <<tables>>,
           promised' = promised, OthersSame(p), ProcessInv(p)',
           lock' = lock \/ lock \notin Processes \ {p}
    PROVE  StoreInv'
  <1>1. TablesIntact' /\ PromisesHeld' /\ records \subseteq records'
    BY TablesSame DEF StoreInv
  <1> QED BY <1>1, StepKeeps

-----------------------------------------------------------------------------
(* The steps of a writer *)

LEMMA InvFacts ==
    ASSUME StoreInv, NEW p \in Processes
    PROVE  /\ StoreTypes /\ TypeOK /\ TablesIntact /\ PromisesHeld /\ ProcessInv(p)
           /\ WriterHolds(p) /\ ReaderSees(p) /\ LandedHeld(p) /\ ToldTruly(p)
  BY DEF StoreInv, ProcessInv, StoreTypes

LEMMA SubmitKeeps ==
    ASSUME StoreInv, NEW p \in Processes, Submit(p)
    PROVE  StoreInv'
  <1>1. /\ pc[p] = Idle /\ pc' = [pc EXCEPT ![p] = Waiting] /\ landed' = landed \ {p}
        /\ UNCHANGED <<tables, lock, pending, answer, reads, promised>>
        /\ writes' \in 0 .. MaxWrites
    BY SubstrateAssumption, InvFacts DEF Submit, TypeOK
  <1>2. PICK mode \in Modes, namespace \in Namespaces, key \in Keys, body \in Bodies :
          request' = [request EXCEPT ![p] =
                [mode |-> mode, namespace |-> namespace, key |-> key, body |-> body,
                 expectedHead |-> IF mode = "append-once" THEN Genesis ELSE known[p]]]
    BY DEF Submit
  <1> DEFINE r == [mode |-> mode, namespace |-> namespace, key |-> key, body |-> body,
                   expectedHead |-> IF mode = "append-once" THEN Genesis ELSE known[p]]
  <1>3. Genesis \in Heads /\ known[p] \in Heads
    BY InvFacts DEF TypeOK, Genesis, Heads
  <1>4. r \in Request
    BY <1>3 DEF Request
  <1> HIDE DEF r
  <1>5. request' = [request EXCEPT ![p] = r]
    BY <1>2 DEF r
  <1>6. StoreTypes'
    BY <1>1, <1>4, <1>5, InvFacts DEF StoreTypes, TypeOK, tables, reads
  <1>7. OthersSame(p) /\ pc'[p] = Waiting /\ request'[p] = r
    BY <1>1, <1>5, InvFacts DEF OthersSame, Same, TypeOK, reads
  <1>8. ProcessInv(p)'
    <2>1. pending[p] = {}
      BY <1>1, InvFacts DEF WriterHolds, Idle, Committing
    <2> QED BY <1>1, <1>4, <1>7, <2>1, InvFacts
            DEF ProcessInv, WriterHolds, ReaderSees, LandedHeld, ToldTruly, Calling, reads,
                Waiting, Writing, Committing, Reading, Verifying
  <1> QED BY <1>1, <1>6, <1>7, <1>8, QuietKeeps

LEMMA RetryKeeps ==
    ASSUME StoreInv, NEW p \in Processes, Retry(p)
    PROVE  StoreInv'
  <1>1. /\ pc[p] = Idle /\ pc' = [pc EXCEPT ![p] = Waiting]
        /\ UNCHANGED <<tables, lock, request, pending, answer, reads, writes, history>>
        /\ request[p] \in Request
    BY InvFacts DEF Retry, WriterHolds
  <1>2. StoreTypes'
    BY <1>1, InvFacts DEF StoreTypes, TypeOK, tables, reads, history
  <1>3. OthersSame(p) /\ pc'[p] = Waiting
    BY <1>1, InvFacts DEF OthersSame, Same, TypeOK, reads, history
  <1>4. WriterHolds(p)'
    <2>1. pending[p] = {}
      BY <1>1, InvFacts DEF WriterHolds, Idle, Committing
    <2> QED BY <1>1, <1>3, <2>1 DEF WriterHolds, Waiting, Writing, Committing
  <1>5. LandedHeld(p)'
    BY <1>1, TablesSame, InvFacts DEF LandedHeld, history
  <1>6. ReaderSees(p)' /\ ToldTruly(p)'
    BY <1>1, <1>3, InvFacts DEF ReaderSees, ToldTruly, reads, history, Waiting, Reading, Verifying
  <1> QED BY <1>1, <1>2, <1>3, <1>4, <1>5, <1>6, QuietKeeps DEF ProcessInv, history

LEMMA BeginImmediateKeeps ==
    ASSUME StoreInv, NEW p \in Processes, BeginImmediate(p)
    PROVE  StoreInv'
  <1>1. /\ pc[p] = Waiting /\ lock = NoProcess /\ lock' = p /\ pc' = [pc EXCEPT ![p] = Writing]
        /\ UNCHANGED <<tables, request, pending, answer, reads, writes, history>>
        /\ lock \notin Processes
    BY SubstrateAssumption DEF BeginImmediate, LockFree
  <1>2. StoreTypes'
    BY <1>1, InvFacts DEF StoreTypes, TypeOK, tables, reads, history
  <1>3. OthersSame(p) /\ pc'[p] = Writing
    BY <1>1, InvFacts DEF OthersSame, Same, TypeOK, reads, history
  <1>4. WriterHolds(p)'
    <2>1. pending[p] = {} /\ request[p] \in Request
      BY <1>1, InvFacts DEF WriterHolds, Calling, Waiting, Committing
    <2> QED BY <1>1, <1>3, <2>1 DEF WriterHolds, Writing, Committing
  <1>5. LandedHeld(p)'
    BY <1>1, TablesSame, InvFacts DEF LandedHeld, history
  <1>6. ReaderSees(p)' /\ ToldTruly(p)'
    BY <1>1, <1>3, InvFacts DEF ReaderSees, ToldTruly, reads, history, Writing, Reading, Verifying
  <1> QED BY <1>1, <1>2, <1>3, <1>4, <1>5, <1>6, QuietKeeps DEF ProcessInv, history

LEMMA InsertKeeps ==
    ASSUME StoreInv, NEW p \in Processes, Insert(p)
    PROVE  StoreInv'
  <1>1. PICK r : r = request[p]
    OBVIOUS
  <1>2. /\ pc[p] = Writing /\ Verdict(r) = "insert"
        /\ pending' = [pending EXCEPT ![p] = {RowAfter(heads[r.namespace], r)}]
        /\ pc' = [pc EXCEPT ![p] = Committing]
        /\ UNCHANGED <<tables, lock, request, answer, reads, writes, history>>
    BY <1>1 DEF Insert
  <1>3. r \in Request /\ lock = p
    BY <1>1, <1>2, InvFacts DEF WriterHolds, Calling, Writing
  <1>4. heads[r.namespace] \in HeadRow /\ ChainState(heads[r.namespace])
    BY <1>3, NamespaceFacts, InvFacts DEF Request
  <1> DEFINE row == RowAfter(heads[r.namespace], r)
  <1>5. row \in Row
    BY <1>3, <1>4, RowAfterFacts
  <1>6. heads' = heads /\ RowAfter(heads'[r.namespace], r) = row
    BY <1>2 DEF tables
  <1> HIDE DEF row
  <1>7. pending' = [pending EXCEPT ![p] = {row}]
    BY <1>2 DEF row
  <1>8. StoreTypes'
    <2>1. StoreTypes
      BY InvFacts
    <2>2. pending' \in [Processes -> SUBSET Row]
      BY <1>5, <1>7, <2>1 DEF StoreTypes
    <2>3. pc' \in [Processes -> {Idle, Waiting, Writing, Committing, Reading, Verifying}]
      BY <1>2, <2>1 DEF StoreTypes, TypeOK
    <2>4. UNCHANGED <<records, heads, lock, request, known, writes, promised, landed, answer,
                      scan, observed>>
      BY <1>2 DEF tables, reads, history
    <2>5. TypeOK'
      BY <2>1, <2>2, <2>3, <2>4 DEF StoreTypes, TypeOK
    <2> QED BY <2>1, <2>2, <2>4, <2>5 DEF StoreTypes
  <1>9. OthersSame(p) /\ pc'[p] = Committing /\ pending'[p] = {row}
    BY <1>2, <1>7, InvFacts DEF OthersSame, Same, TypeOK, StoreTypes, reads, history
  <1>10. WriterHolds(p)'
    <2>1. Verdict(r)' = "insert" /\ r = request'[p]
      BY <1>1, <1>2, TablesSame
    <2>2. \E o \in Request : /\ o = request'[p] /\ Verdict(o)' = "insert"
                             /\ pending'[p] = {RowAfter(heads'[o.namespace], o)}
      BY <1>3, <1>6, <1>9, <2>1
    <2> QED BY <1>2, <1>3, <1>9, <2>1, <2>2 DEF WriterHolds, RowAfter, ChainHead
  <1>11. LandedHeld(p)'
    BY <1>2, TablesSame, InvFacts DEF LandedHeld, history
  <1>12. ReaderSees(p)' /\ ToldTruly(p)'
    BY <1>2, <1>9, InvFacts DEF ReaderSees, ToldTruly, reads, history, Committing, Reading, Verifying
  <1> QED BY <1>2, <1>8, <1>9, <1>10, <1>11, <1>12, QuietKeeps DEF ProcessInv, history

LEMMA ReturnFacts ==
    ASSUME StoreInv, NEW p \in Processes, NEW value, Return(p, value),
           value \notin {"CHAIN_INVALID"}
    PROVE  /\ pc' = [pc EXCEPT ![p] = Idle] /\ pc'[p] = Idle /\ pending'[p] = {}
           /\ pending' \in [Processes -> SUBSET Row]
           /\ answer' = [q \in Processes |-> answer'[q]] /\ answer'[p] = value
           /\ request' = request /\ writes' = writes
           /\ known' = known /\ scan' = scan /\ observed' = observed
           /\ \A q \in Processes : q # p => /\ pc'[q] = pc[q] /\ pending'[q] = pending[q]
                                            /\ answer'[q] = answer[q]
           /\ ReaderSees(p)'
  BY InvFacts DEF Return, StoreTypes, TypeOK, ReaderSees, reads, Idle, Reading, Verifying

LEMMA BusyKeeps ==
    ASSUME StoreInv, NEW p \in Processes, Busy(p)
    PROVE  StoreInv'
  <1>1. /\ pc[p] = Waiting /\ Return(p, "STORE_UNAVAILABLE") /\ UNCHANGED <<tables, lock, history>>
        /\ request[p] \in Request
    BY InvFacts DEF Busy, WriterHolds, Calling
  <1>2. /\ pc' = [pc EXCEPT ![p] = Idle] /\ pc'[p] = Idle /\ pending'[p] = {}
        /\ pending' \in [Processes -> SUBSET Row]
        /\ answer' = [q \in Processes |-> answer'[q]] /\ answer'[p] = "STORE_UNAVAILABLE"
        /\ request' = request /\ writes' = writes
        /\ known' = known /\ scan' = scan /\ observed' = observed
        /\ \A q \in Processes : q # p => /\ pc'[q] = pc[q] /\ pending'[q] = pending[q]
                                         /\ answer'[q] = answer[q]
        /\ ReaderSees(p)'
    BY <1>1, ReturnFacts
  <1>3. StoreTypes'
    BY <1>1, <1>2, InvFacts DEF StoreTypes, TypeOK, tables, history
  <1>4. OthersSame(p)
    BY <1>1, <1>2 DEF OthersSame, Same, history
  <1>5. WriterHolds(p)'
    BY <1>1, <1>2 DEF WriterHolds, Idle, Writing, Committing
  <1>6. LandedHeld(p)'
    BY <1>1, <1>2, TablesSame, InvFacts DEF LandedHeld, history
  <1>7. ToldTruly(p)'
    BY <1>1, <1>2, InvFacts DEF ToldTruly, history
  <1> QED BY <1>1, <1>2, <1>3, <1>4, <1>5, <1>6, <1>7, QuietKeeps DEF ProcessInv, history

LEMMA RollBackKeeps ==
    ASSUME StoreInv, NEW p \in Processes, RollBack(p)
    PROVE  StoreInv'
  <1>1. PICK r : r = request[p]
    OBVIOUS
  <1>2. /\ pc[p] = Writing /\ Verdict(r) # "insert" /\ Return(p, Verdict(r)) /\ lock' = NoProcess
        /\ promised' = IF Verdict(r) = "existing" THEN promised \cup {Promise(r)} ELSE promised
        /\ UNCHANGED <<tables, landed>>
    BY <1>1 DEF RollBack
  <1>3. r \in Request /\ lock = p
    BY <1>1, <1>2, InvFacts DEF WriterHolds, Calling, Writing
  <1>4. /\ Verdict(r) \in {"existing", "conflict", "CAPACITY_EXHAUSTED"}
        /\ Verdict(r) = "existing" <=> Held(r)
    BY <1>2, <1>3, VerdictFacts, InvFacts
  <1>5. /\ pc' = [pc EXCEPT ![p] = Idle] /\ pc'[p] = Idle /\ pending'[p] = {}
        /\ pending' \in [Processes -> SUBSET Row]
        /\ answer' = [q \in Processes |-> answer'[q]] /\ answer'[p] = Verdict(r)
        /\ request' = request /\ writes' = writes
        /\ known' = known /\ scan' = scan /\ observed' = observed
        /\ \A q \in Processes : q # p => /\ pc'[q] = pc[q] /\ pending'[q] = pending[q]
                                         /\ answer'[q] = answer[q]
        /\ ReaderSees(p)'
    BY <1>2, <1>4, ReturnFacts
  <1>6. Promise(r) \in [namespace: Namespaces, key: Keys, body: Bodies]
    BY <1>3 DEF Promise, Request
  <1>7. StoreTypes'
    BY <1>2, <1>5, <1>6, InvFacts DEF StoreTypes, TypeOK, tables
  <1>8. PromisesHeld' /\ TablesIntact' /\ records' = records
    <2>1. Held(r) => \E row \in records : Promise(row) = Promise(r)
      BY DEF Held, Existing, Of, SameWrite, Promise
    <2> QED BY <1>2, <1>4, <2>1, TablesSame, InvFacts DEF PromisesHeld, Promise, tables
  <1>9. OthersSame(p)
    BY <1>2, <1>5 DEF OthersSame, Same
  <1>10. WriterHolds(p)'
    BY <1>4, <1>5 DEF WriterHolds, Calling, Idle, Waiting, Writing, Committing
  <1>11. LandedHeld(p)'
    BY <1>2, <1>5, TablesSame, InvFacts DEF LandedHeld
  <1>12. ToldTruly(p)'
    <2>1. p \in landed => Held(r)
      BY <1>1, InvFacts DEF LandedHeld
    <2> QED BY <1>2, <1>4, <1>5, <2>1, InvFacts DEF ToldTruly
  <1> QED BY <1>2, <1>3, <1>5, <1>7, <1>8, <1>9, <1>10, <1>11, <1>12, StepKeeps DEF ProcessInv

\* The transaction ends by a commit that lands, whatever the process is told,
\* or by its death after the commit record reached the log.
LEMMA LandKeeps ==
    ASSUME StoreInv, NEW p \in Processes, pc[p] = Committing, Land(p),
           lock' \in {lock, NoProcess},
           UNCHANGED <<request, writes>>, known' \in [Processes -> Heads],
           scan' = [q \in Processes |-> scan'[q]], observed' = [q \in Processes |-> observed'[q]],
           pc' = [pc EXCEPT ![p] = Idle], pending' = [pending EXCEPT ![p] = {}],
           NEW value \in {"appended", "ambiguous", "none"},
           answer' = [answer EXCEPT ![p] = value],
           "CHAIN_INVALID" # observed'[p],
           landed' \in {landed \cup {p}, landed \ {p}},
           promised' = promised \/ promised' = promised \cup {Promise(request[p])},
           \A q \in Processes : q # p => scan'[q] = scan[q] /\ observed'[q] = observed[q]
    PROVE  StoreInv'
  <1>1. PICK r : r = request[p]
    OBVIOUS
  <1>2. PICK row : row = RowAfter(heads[r.namespace], r)
    OBVIOUS
  <1>3. StoreTypes /\ TablesIntact /\ WriterHolds(p) /\ ToldTruly(p) /\ PromisesHeld
    BY InvFacts
  <1>4. /\ r \in Request /\ row \in Row /\ row \notin records
        /\ records' = records \cup {row}
        /\ heads' \in [Namespaces -> HeadRow]
        /\ row.namespace = r.namespace /\ row.key = r.key /\ row.body = r.body
        /\ Verdict(r) = "insert" /\ Held(r)'
        /\ TablesIntact'
    BY <1>1, <1>2, <1>3, LandFacts
  <1>5. lock = p /\ lock' \in Processes \cup {NoProcess}
    BY <1>3 DEF WriterHolds
  <1>6. Promise(r) \in [namespace: Namespaces, key: Keys, body: Bodies]
    BY <1>4 DEF Promise, Request
  <1>7. StoreTypes'
    BY <1>1, <1>3, <1>4, <1>5, <1>6 DEF StoreTypes, TypeOK, Idle
  <1>8. PromisesHeld'
    BY <1>1, <1>3, <1>4 DEF PromisesHeld, Promise
  <1>9. OthersSame(p) /\ pc'[p] = Idle /\ pending'[p] = {} /\ answer'[p] = value
    BY <1>3 DEF OthersSame, Same, StoreTypes, TypeOK
  <1>10. WriterHolds(p)'
    BY <1>1, <1>4, <1>9 DEF WriterHolds, Idle, Writing, Committing
  <1>11. LandedHeld(p)' /\ ReaderSees(p)' /\ ToldTruly(p)'
    BY <1>1, <1>4, <1>9 DEF LandedHeld, ReaderSees, ToldTruly, Idle, Reading, Verifying
  <1> QED BY <1>4, <1>5, <1>7, <1>8, <1>9, <1>10, <1>11, StepKeeps DEF ProcessInv

LEMMA CommitKeeps ==
    ASSUME StoreInv, NEW p \in Processes, Commit(p) \/ CommitUnacknowledged(p)
    PROVE  StoreInv'
  <1>1. /\ pc[p] = Committing /\ lock' = NoProcess /\ lock = p
        /\ \E value \in {"appended", "ambiguous"} : Return(p, value)
    BY InvFacts DEF Commit, CommitUnacknowledged, WriterHolds
  <1>2. PICK value \in {"appended", "ambiguous"} : Return(p, value)
    BY <1>1
  <1>3. /\ UNCHANGED <<request, writes, known, scan, observed>>
        /\ pc' = [pc EXCEPT ![p] = Idle] /\ pending' = [pending EXCEPT ![p] = {}]
        /\ answer' = [answer EXCEPT ![p] = value]
    BY <1>2 DEF Return, reads
  <1>4. CASE Land(p) /\ landed' = landed \cup {p}
    <2>1. promised' = promised \/ promised' = promised \cup {Promise(request[p])}
      BY DEF Commit, CommitUnacknowledged
    <2>2. /\ known \in [Processes -> Heads] /\ scan = [q \in Processes |-> scan[q]]
          /\ observed = [q \in Processes |-> observed[q]] /\ "CHAIN_INVALID" # observed[p]
      BY InvFacts DEF StoreTypes, TypeOK, ToldTruly
    <2>3. /\ known' \in [Processes -> Heads] /\ scan' = [q \in Processes |-> scan'[q]]
          /\ observed' = [q \in Processes |-> observed'[q]] /\ "CHAIN_INVALID" # observed'[p]
          /\ \A q \in Processes : scan'[q] = scan[q] /\ observed'[q] = observed[q]
      BY <1>3, <2>2
    <2> QED BY <1>1, <1>3, <1>4, <2>1, <2>3, LandKeeps
  <1>5. CASE UNCHANGED <<tables, landed>> /\ UNCHANGED promised /\ Return(p, "ambiguous")
    <2>1. answer' = [answer EXCEPT ![p] = "ambiguous"]
      BY <1>5 DEF Return
    <2>2. StoreTypes'
      BY <1>1, <1>3, <1>5, <2>1, InvFacts DEF StoreTypes, TypeOK, tables
    <2>3. OthersSame(p) /\ pc'[p] = Idle /\ pending'[p] = {} /\ answer'[p] = "ambiguous"
      BY <1>3, <1>5, <2>1, InvFacts DEF OthersSame, Same, StoreTypes, TypeOK
    <2>4. WriterHolds(p)'
      <3>1. request[p] \in Request
        BY <1>1, InvFacts DEF WriterHolds, Calling
      <3> QED BY <1>3, <2>3, <3>1 DEF WriterHolds, Idle, Writing, Committing
    <2>5. LandedHeld(p)'
      BY <1>3, <1>5, TablesSame, InvFacts DEF LandedHeld
    <2>6. ReaderSees(p)' /\ ToldTruly(p)'
      BY <1>3, <2>3, InvFacts DEF ReaderSees, ToldTruly, Idle, Reading, Verifying
    <2> QED BY <1>1, <1>5, <2>2, <2>3, <2>4, <2>5, <2>6, QuietKeeps DEF ProcessInv
  <1> QED BY <1>4, <1>5 DEF Commit, CommitUnacknowledged

-----------------------------------------------------------------------------
(* The steps of a reader, and the death of a process *)

\* A step that only reads leaves the writer's part of its process alone.
LEMMA ReaderKeeps ==
    ASSUME StoreInv, NEW p \in Processes, pc[p] \in {Idle, Reading, Verifying},
           UNCHANGED <<tables, lock, request, pending, answer, writes, history>>,
           NEW place \in {Idle, Reading, Verifying}, pc' = [pc EXCEPT ![p] = place],
           known' \in [Processes -> Heads],
           scan' = [q \in Processes |-> scan'[q]], observed' = [q \in Processes |-> observed'[q]],
           \A q \in Processes : q # p => scan'[q] = scan[q] /\ observed'[q] = observed[q],
           observed'[p] # "CHAIN_INVALID", ReaderSees(p)'
    PROVE  StoreInv'
  <1>1. StoreTypes'
    BY InvFacts DEF StoreTypes, TypeOK, tables, history, Idle, Reading, Verifying
  <1>2. OthersSame(p) /\ pc'[p] = place
    BY InvFacts DEF OthersSame, Same, StoreTypes, TypeOK, history
  <1>3. WriterHolds(p)'
    BY <1>2, InvFacts DEF WriterHolds, Calling, Idle, Waiting, Writing, Committing, Reading, Verifying
  <1>4. LandedHeld(p)'
    BY TablesSame, InvFacts DEF LandedHeld, history
  <1>5. ToldTruly(p)'
    BY InvFacts DEF ToldTruly, history
  <1> QED BY <1>1, <1>2, <1>3, <1>4, <1>5, QuietKeeps DEF ProcessInv, history

LEMMA ReadHeadKeeps ==
    ASSUME StoreInv, NEW p \in Processes, ReadHead(p)
    PROVE  StoreInv'
  <1>1. /\ pc[p] = Idle
        /\ UNCHANGED <<tables, lock, request, pending, answer, writes, history>>
    BY DEF ReadHead
  <1>2. PICK namespace \in Namespaces :
          IF heads[namespace].head = Genesis
          THEN /\ known' = [known EXCEPT ![p] = Genesis]
               /\ observed' = [observed EXCEPT ![p] =
                      IF ChainState(heads[namespace]) THEN "coherent" ELSE "CHAIN_INVALID"]
               /\ UNCHANGED <<pc, scan>>
          ELSE /\ scan' = [scan EXCEPT ![p] =
                      [namespace |-> namespace, rows |-> {}, head |-> heads[namespace]]]
               /\ pc' = [pc EXCEPT ![p] = Reading]
               /\ UNCHANGED <<known, observed>>
    BY DEF ReadHead
  <1>3. /\ StoreTypes /\ IsFiniteSet(Of(namespace)) /\ heads[namespace] \in HeadRow
        /\ ChainState(heads[namespace]) /\ ChainVerifies(Of(namespace), heads[namespace])
        /\ observed[p] # "CHAIN_INVALID"
    BY NamespaceFacts, InvFacts DEF ToldTruly
  <1>4. CASE heads[namespace].head = Genesis
    <2>1. /\ known' = [known EXCEPT ![p] = Genesis]
          /\ observed' = [observed EXCEPT ![p] = "coherent"] /\ UNCHANGED <<pc, scan>>
      BY <1>2, <1>3, <1>4
    <2>2. Genesis \in Heads
      BY DEF Genesis, Heads
    <2>3. pc' = [pc EXCEPT ![p] = Idle]
      BY <1>1, <1>3, <2>1 DEF StoreTypes, TypeOK
    <2>4. ReaderSees(p)'
      BY <1>1, <2>1 DEF ReaderSees, Idle, Reading, Verifying
    <2>5. /\ known' \in [Processes -> Heads] /\ scan' = [q \in Processes |-> scan'[q]]
          /\ observed' = [q \in Processes |-> observed'[q]] /\ observed'[p] = "coherent"
          /\ \A q \in Processes : q # p => scan'[q] = scan[q] /\ observed'[q] = observed[q]
      BY <1>3, <2>1, <2>2 DEF StoreTypes, TypeOK
    <2> QED BY <1>1, <2>3, <2>4, <2>5, ReaderKeeps
  <1>5. CASE heads[namespace].head # Genesis
    <2> DEFINE head == heads[namespace]
               seen == [namespace |-> namespace, rows |-> {}, head |-> head]
    <2>1. /\ scan' = [scan EXCEPT ![p] = seen] /\ pc' = [pc EXCEPT ![p] = Reading]
          /\ UNCHANGED <<known, observed>>
      BY <1>2, <1>5
    <2>2. PICK row \in Of(namespace) :
              row.sequence = head.sequence /\ row.head = head.head /\ Materializes(row)
      BY <1>3, <1>5, ChainFacts
    <2>3. scan'[p] = seen /\ seen.namespace = namespace /\ seen.head = head /\ records' = records
      BY <1>1, <1>3, <2>1 DEF StoreTypes, tables
    <2> HIDE DEF seen, head
    <2>4. HeadCommitted(p)'
      <3>1. row \in RecordOf(p)'
        BY <2>2, <2>3 DEF RecordOf, Of
      <3>2. head \in HeadRow /\ ChainState(head)
        BY <1>3 DEF head
      <3> QED BY <2>2, <2>3, <3>1, <3>2 DEF HeadCommitted, ChainState, Materializes, ChainHead, Genesis
    <2>5. ReaderSees(p)'
      BY <1>3, <2>1, <2>4 DEF ReaderSees, StoreTypes, TypeOK, Reading, Verifying
    <2>6. /\ known' \in [Processes -> Heads] /\ scan' = [q \in Processes |-> scan'[q]]
          /\ observed' = [q \in Processes |-> observed'[q]] /\ observed'[p] # "CHAIN_INVALID"
          /\ \A q \in Processes : q # p => scan'[q] = scan[q] /\ observed'[q] = observed[q]
      BY <1>3, <2>1 DEF StoreTypes, TypeOK
    <2> QED BY <1>1, <2>1, <2>5, <2>6, ReaderKeeps
  <1> QED BY <1>4, <1>5

LEMMA VerifyRowsKeeps ==
    ASSUME StoreInv, NEW p \in Processes, VerifyRows(p)
    PROVE  StoreInv'
  <1>1. /\ pc[p] = Idle /\ pc' = [pc EXCEPT ![p] = Verifying]
        /\ UNCHANGED <<tables, lock, request, pending, answer, writes, history, known, observed>>
    BY DEF VerifyRows
  <1>2. PICK namespace \in Namespaces :
          scan' = [scan EXCEPT ![p] = [namespace |-> namespace, rows |-> Of(namespace),
                                       head |-> heads[namespace]]]
    BY DEF VerifyRows
  <1>3. StoreTypes /\ ChainVerifies(Of(namespace), heads[namespace])
        /\ observed[p] # "CHAIN_INVALID"
    BY NamespaceFacts, InvFacts DEF ToldTruly
  <1>4. scan'[p].rows = Of(namespace) /\ scan'[p].head = heads[namespace]
    BY <1>2, <1>3 DEF StoreTypes
  <1>5. ChainVerifies(scan'[p].rows, scan'[p].head)
    BY <1>3, <1>4
  <1>6. ReaderSees(p)'
    BY <1>1, <1>3, <1>5 DEF ReaderSees, StoreTypes, TypeOK, Reading, Verifying, ChainVerifies,
       ChainState, Materializes, ChainHead, Genesis
  <1>7. /\ known' \in [Processes -> Heads] /\ scan' = [q \in Processes |-> scan'[q]]
        /\ observed' = [q \in Processes |-> observed'[q]] /\ observed'[p] # "CHAIN_INVALID"
        /\ \A q \in Processes : q # p => scan'[q] = scan[q] /\ observed'[q] = observed[q]
    BY <1>1, <1>2, <1>3 DEF StoreTypes, TypeOK
  <1> QED BY <1>1, <1>6, <1>7, ReaderKeeps

LEMMA ObserveKeeps ==
    ASSUME StoreInv, NEW p \in Processes, pc[p] \in {Reading, Verifying}, Observe(p, TRUE),
           known' \in [Processes -> Heads]
    PROVE  StoreInv'
  <1>1. /\ pc' = [pc EXCEPT ![p] = Idle] /\ scan' = [scan EXCEPT ![p] = NoScan]
        /\ observed' = [observed EXCEPT ![p] = "coherent"]
        /\ UNCHANGED <<tables, lock, request, pending, answer, writes, history>>
    BY DEF Observe
  <1>2. ReaderSees(p)'
    BY <1>1, InvFacts DEF ReaderSees, StoreTypes, TypeOK, Idle, Reading, Verifying
  <1>3. /\ scan' = [q \in Processes |-> scan'[q]]
        /\ observed' = [q \in Processes |-> observed'[q]] /\ observed'[p] # "CHAIN_INVALID"
        /\ \A q \in Processes : q # p => scan'[q] = scan[q] /\ observed'[q] = observed[q]
    BY <1>1, InvFacts DEF StoreTypes
  <1> QED BY <1>1, <1>2, <1>3, ReaderKeeps

LEMMA ReadEndsKeeps ==
    ASSUME StoreInv, NEW p \in Processes, ReadRecord(p) \/ VerifyHead(p)
    PROVE  StoreInv'
  <1>1. known \in [Processes -> Heads]
    BY InvFacts DEF TypeOK
  <1>2. CASE ReadRecord(p)
    <2>1. pc[p] = Reading /\ HeadCommitted(p)
      BY <1>2, InvFacts DEF ReadRecord, ReaderSees
    <2>2. /\ ChainState(scan[p].head) /\ scan[p].head.head \in Heads
          /\ \E row \in RecordOf(p) : Materializes(row) /\ row.head = scan[p].head.head
      BY <2>1 DEF HeadCommitted, HeadRow
    <2>3. Observe(p, TRUE) /\ known' = [known EXCEPT ![p] = scan[p].head.head]
      BY <1>2, <2>2 DEF ReadRecord, Observe
    <2> QED BY <1>1, <2>1, <2>2, <2>3, ObserveKeeps
  <1>3. CASE VerifyHead(p)
    <2>1. pc[p] = Verifying /\ ChainVerifies(scan[p].rows, scan[p].head) /\ known' = known
      BY <1>3, InvFacts DEF VerifyHead, ReaderSees
    <2>2. Observe(p, TRUE)
      BY <1>3, <2>1 DEF VerifyHead, Observe, HeadOfSnapshot
    <2> QED BY <1>1, <2>1, <2>2, ObserveKeeps
  <1> QED BY <1>2, <1>3

LEMMA CrashKeeps ==
    ASSUME StoreInv, NEW p \in Processes, Crash(p)
    PROVE  StoreInv'
  <1>1. /\ pc' = [pc EXCEPT ![p] = Idle] /\ pending' = [pending EXCEPT ![p] = {}]
        /\ answer' = [answer EXCEPT ![p] = "none"] /\ known' = [known EXCEPT ![p] = Genesis]
        /\ scan' = [scan EXCEPT ![p] = NoScan] /\ observed' = [observed EXCEPT ![p] = "none"]
        /\ lock' = IF lock = p THEN NoProcess ELSE lock
        /\ landed' = landed \ {p} /\ UNCHANGED <<request, writes, promised>>
    BY DEF Crash
  <1>2. Genesis \in Heads
    BY DEF Genesis, Heads
  <1>3. /\ known' \in [Processes -> Heads] /\ scan' = [q \in Processes |-> scan'[q]]
        /\ observed' = [q \in Processes |-> observed'[q]] /\ observed'[p] = "none"
        /\ \A q \in Processes : q # p => scan'[q] = scan[q] /\ observed'[q] = observed[q]
    BY <1>1, <1>2, InvFacts DEF StoreTypes, TypeOK
  <1>4. CASE pc[p] = Committing /\ Land(p)
    BY <1>1, <1>3, <1>4, LandKeeps
  <1>5. CASE UNCHANGED tables
    <2>1. StoreTypes'
      BY <1>1, <1>3, <1>5, InvFacts DEF StoreTypes, TypeOK, tables
    <2>2. OthersSame(p) /\ pc'[p] = Idle /\ pending'[p] = {} /\ answer'[p] = "none"
      BY <1>1, <1>3, InvFacts DEF OthersSame, Same, StoreTypes, TypeOK
    <2>3. ProcessInv(p)'
      BY <1>1, <1>3, <2>2
         DEF ProcessInv, WriterHolds, ReaderSees, LandedHeld, ToldTruly, Calling,
             Idle, Waiting, Writing, Committing, Reading, Verifying
    <2>4. lock' = lock \/ lock \notin Processes \ {p}
      BY <1>1
    <2> QED BY <1>1, <1>5, <2>1, <2>2, <2>3, <2>4, QuietKeeps
  <1> QED BY <1>4, <1>5 DEF Crash

-----------------------------------------------------------------------------
(* The theorems *)

LEMMA InitHolds ==
    ASSUME Init
    PROVE  StoreInv
  <1>1. GenesisHead \in HeadRow /\ Genesis \in Heads /\ ChainState(GenesisHead)
    BY DEF GenesisHead, HeadRow, Heads, Genesis, ChainState
  <1>2. StoreTypes
    BY <1>1, SubstrateAssumption DEF Init, StoreTypes, TypeOK
  <1>3. TablesIntact
    <2>1. IsFiniteSet({}) /\ Cardinality({}) = 0 /\ 0 <= MaxEntries
      BY FS_EmptySet, JournalAssumption
    <2>2. ChainVerifies({}, GenesisHead)
      <3>1. {row.sequence : row \in {}} = 1 .. 0
        OBVIOUS
      <3> QED BY <1>1, <2>1, <3>1 DEF ChainVerifies, GenesisHead
    <2> QED BY <2>1, <2>2 DEF Init, TablesIntact, Of
  <1>4. \A p \in Processes : ProcessInv(p)
    BY DEF Init, ProcessInv, WriterHolds, ReaderSees, LandedHeld, ToldTruly, Calling,
           Idle, Waiting, Writing, Committing, Reading, Verifying
  <1> QED BY <1>2, <1>3, <1>4 DEF StoreInv, PromisesHeld, Init

LEMMA StepHolds ==
    ASSUME StoreInv, [Next]_vars
    PROVE  StoreInv'
  <1>1. ASSUME NEW p \in Processes, Submit(p) \/ Retry(p) \/ BeginImmediate(p) \/ Busy(p)
        PROVE  StoreInv'
    BY <1>1, SubmitKeeps, RetryKeeps, BeginImmediateKeeps, BusyKeeps
  <1>2. ASSUME NEW p \in Processes,
               RollBack(p) \/ Insert(p) \/ Commit(p) \/ CommitUnacknowledged(p)
        PROVE  StoreInv'
    BY <1>2, RollBackKeeps, InsertKeeps, CommitKeeps
  <1>3. ASSUME NEW p \in Processes,
               ReadHead(p) \/ VerifyRows(p) \/ ReadRecord(p) \/ VerifyHead(p)
        PROVE  StoreInv'
    BY <1>3, ReadHeadKeeps, VerifyRowsKeeps, ReadEndsKeeps
  <1>4. ASSUME NEW p \in Processes, Crash(p) PROVE StoreInv'
    BY <1>4, CrashKeeps
  <1>5. CASE UNCHANGED vars
    <2>1. /\ UNCHANGED tables /\ UNCHANGED <<lock, pc, request, pending, answer, writes>>
          /\ UNCHANGED <<known, scan, observed, promised, landed>>
      BY <1>5 DEF vars, tables, reads, history
    <2>2. StoreTypes'
      BY <2>1 DEF StoreInv, StoreTypes, TypeOK, tables
    <2>3. TablesIntact' /\ PromisesHeld' /\ records \subseteq records'
      BY <2>1, TablesSame DEF StoreInv
    <2>4. ASSUME NEW p \in Processes PROVE ProcessInv(p)'
      BY <2>1, <2>3, OthersKeep DEF StoreInv, Same
    <2> QED BY <2>2, <2>3, <2>4 DEF StoreInv
  <1> QED BY <1>1, <1>2, <1>3, <1>4, <1>5 DEF Next, Statement

LEMMA StoreInvariant == Spec => []StoreInv
  BY InitHolds, StepHolds, PTL DEF Spec

\* Whatever writers, lost acknowledgements and crashes do, the committed rows
\* of every namespace are one contiguous chain ending at the head table's row,
\* and the store-wide bound holds.
THEOREM StoreJournalIntact == Spec => []JournalIntact
  <1>1. StoreInv => JournalIntact
    BY DEF StoreInv, StoreTypes, TablesIntact, JournalIntact
  <1> QED BY <1>1, StoreInvariant, PTL

\* No caller is ever told that an untampered store is corrupt, by a write, by
\* a read of two statements that other commits fall between, or by a
\* verification.
THEOREM StoreNeverAccused == Spec => []NeverAccused
  <1>1. StoreInv => NeverAccused
    BY DEF StoreInv, ProcessInv, ToldTruly, NeverAccused
  <1> QED BY <1>1, StoreInvariant, PTL

\* A write that was answered stays in the journal with its caller's bytes, and
\* one that landed unheard is recognised when it is sent again.
THEOREM StoreOwnWriteRecognised == Spec => []OwnWriteRecognised
  <1>1. StoreInv => OwnWriteRecognised
    BY DEF StoreInv, StoreTypes, TypeOK, ProcessInv, ToldTruly, PromisesHeld, OwnWriteRecognised
  <1> QED BY <1>1, StoreInvariant, PTL

-----------------------------------------------------------------------------
(* The store is the atomic store of OnceStore *)

\* Both stores read the rows through the same definitions of Journal.
LEMMA SameJournal ==
    /\ Once!GenesisHead = GenesisHead
    /\ Once!Request = Request
    /\ \A S : Once!Full(S) = Full(S)
    /\ \A row, r : Once!SameWrite(row, r) = SameWrite(row, r)
    /\ \A current, r : Once!RowAfter(current, r) = RowAfter(current, r)
  <1>1. Once!GenesisHead = GenesisHead
    BY DEF Once!GenesisHead, GenesisHead, Once!Genesis, Genesis
  <1>2. Once!Request = Request
    BY DEF Once!Request, Request, Once!Modes, Modes, Once!Heads, Heads, Once!Link, Link
  <1>3. \A S : Once!Full(S) = Full(S)
    BY DEF Once!Full, Full, Once!Cardinality, Cardinality
  <1>4. \A row, r : Once!SameWrite(row, r) = SameWrite(row, r)
    BY DEF Once!SameWrite, SameWrite
  <1>5. \A current, r : Once!RowAfter(current, r) = RowAfter(current, r)
    BY DEF Once!RowAfter, RowAfter, Once!ChainHead, ChainHead
  <1> QED BY <1>1, <1>2, <1>3, <1>4, <1>5

LEMMA TipFacts ==
    ASSUME StoreInv, NEW namespace \in Namespaces
    PROVE  Once!Tip(namespace) = heads[namespace]
  <1> DEFINE head == heads[namespace]
             rows == Of(namespace)
  <1>1. StoreTypes /\ TablesIntact
    BY DEF StoreInv
  <1>2. /\ IsFiniteSet(rows) /\ head \in HeadRow /\ ChainVerifies(rows, head)
        /\ ChainState(head)
    BY <1>1, NamespaceFacts
  <1>3. /\ head.sequence \in Nat
        /\ \A row \in rows : row.sequence \in 1 .. head.sequence
        /\ head.head # Genesis => \E row \in rows : row.sequence = head.sequence
                                                    /\ row.head = head.head
        /\ head.head = Genesis => rows = {}
    BY <1>2, ChainFacts
  <1>4. Once!Of(namespace) = rows
    BY DEF Once!Of, Of
  <1>5. head = [sequence |-> head.sequence, head |-> head.head, entryCount |-> head.sequence]
    BY <1>2 DEF HeadRow, ChainState
  <1>6. \A row, other \in rows : row.sequence = other.sequence => row = other
    BY <1>1 DEF TablesIntact, Of
  <1> HIDE DEF rows
  <1>7. CASE rows = {}
    <2>1. head.head = Genesis /\ head.sequence = 0
      BY <1>2, <1>3, <1>7 DEF ChainState
    <2>2. Once!Tip(namespace) = GenesisHead
      BY <1>4, <1>7, SameJournal DEF Once!Tip
    <2> QED BY <1>5, <2>1, <2>2 DEF GenesisHead
  <1>8. CASE rows # {}
    <2>1. PICK row \in rows : row.sequence = head.sequence /\ row.head = head.head
      BY <1>3, <1>8
    <2>2. \A last \in rows : (\A other \in rows : other.sequence <= last.sequence) => last = row
      <3> SUFFICES ASSUME NEW last \in rows, \A other \in rows : other.sequence <= last.sequence
                   PROVE  last = row
        OBVIOUS
      <3>1. row.sequence <= last.sequence /\ last.sequence \in 1 .. head.sequence
        BY <1>3
      <3>2. last.sequence = row.sequence
        BY <1>3, <2>1, <3>1
      <3> QED BY <1>6, <3>2
    <2>3. \A other \in rows : other.sequence <= row.sequence
      BY <1>3, <2>1
    <2>4. (CHOOSE last \in rows : \A other \in rows : other.sequence <= last.sequence) = row
      BY <2>2, <2>3
    <2>5. Once!Tip(namespace) = [sequence |-> row.sequence, head |-> row.head,
                                 entryCount |-> row.sequence]
      BY <1>4, <1>8, <2>4 DEF Once!Tip
    <2> QED BY <1>5, <2>1, <2>5
  <1> QED BY <1>7, <1>8

\* The verdict of the transaction is the one answer of the abstract store.
LEMMA AnswerFacts ==
    ASSUME StoreInv, NEW r \in Request
    PROVE  Once!Answer(r) = IF Verdict(r) = "insert" THEN "appended" ELSE Verdict(r)
  <1>1. StoreTypes /\ TablesIntact
    BY DEF StoreInv
  <1>2. Once!Tip(r.namespace) = heads[r.namespace]
    BY TipFacts DEF Request
  <1>3. Once!Held(r) = Existing(r)
    BY DEF Once!Held, Once!Of, Existing, Of
  <1>4. Once!Answer(r) =
          IF Held(r) THEN "existing"
          ELSE IF \/ Existing(r) # {}
                  \/ r.mode = "compare-and-swap" /\ heads[r.namespace].head # r.expectedHead
               THEN "conflict"
          ELSE IF Full(records) THEN "CAPACITY_EXHAUSTED"
          ELSE "appended"
    BY <1>2, <1>3, SameJournal DEF Once!Answer, Held
  <1> QED BY <1>1, <1>4, VerdictFacts

\* Only p's call changes.
LEMMA CallsChange ==
    ASSUME NEW p \in Processes, \A q \in Processes : q # p => pc'[q] = pc[q] /\ request'[q] = request[q],
           NEW call, Pending(p)' = call
    PROVE  [q \in Processes |-> Pending(q)]' = [[q \in Processes |-> Pending(q)] EXCEPT ![p] = call]
  <1>1. \A q \in Processes : q # p => Pending(q)' = Pending(q)
    BY DEF Pending
  <1> QED BY <1>1

LEMMA CallsStay ==
    ASSUME NEW p \in Processes, \A q \in Processes : q # p => pc'[q] = pc[q] /\ request'[q] = request[q],
           Pending(p)' = Pending(p)
    PROVE  [q \in Processes |-> Pending(q)]' = [q \in Processes |-> Pending(q)]
  <1>1. \A q \in Processes : Pending(q)' = Pending(q)
    BY DEF Pending
  <1> QED BY <1>1

LEMMA CallRefines ==
    ASSUME StoreInv, NEW p \in Processes, Submit(p) \/ Retry(p)
    PROVE  Once!Next
  <1>1. /\ pc[p] = Idle /\ pc' = [pc EXCEPT ![p] = Waiting] /\ UNCHANGED <<records, answer>>
        /\ \A q \in Processes : q # p => request'[q] = request[q]
    BY InvFacts DEF Submit, Retry, tables, TypeOK
  <1>2. StoreInv'
    BY SubmitKeeps, RetryKeeps
  <1>3. pc'[p] = Waiting /\ \A q \in Processes : q # p => pc'[q] = pc[q]
    BY <1>1, InvFacts DEF TypeOK
  <1>4. request'[p] \in Request
    BY <1>2, <1>3 DEF StoreInv, ProcessInv, WriterHolds, Calling
  <1>5. PICK r \in Request : r = request'[p]
    BY <1>4
  <1>6. Pending(p) = NoRequest /\ Pending(p)' = r
    BY <1>1, <1>3, <1>5 DEF Pending, Idle, Waiting, Writing, Committing
  <1>7. [q \in Processes |-> Pending(q)]' = [[q \in Processes |-> Pending(q)] EXCEPT ![p] = r]
    BY <1>1, <1>3, <1>6, CallsChange
  <1>8. [q \in Processes |-> Pending(q)]'[p] = r
    BY <1>7
  <1>9. Once!Call(p)
    BY <1>1, <1>6, <1>7, <1>8, SameJournal DEF Once!Call
  <1> QED BY <1>9 DEF Once!Next

\* A call of p that ends with an answer.
LEMMA ReturnRefines ==
    ASSUME StoreInv, NEW p \in Processes, Calling(p), NEW value,
           \A q \in Processes : q # p => pc'[q] = pc[q] /\ request'[q] = request[q],
           pc'[p] = Idle, answer' = [answer EXCEPT ![p] = value]
    PROVE  /\ Once!Return(p, value)
           /\ [q \in Processes |-> Pending(q)][p] = request[p] /\ request[p] \in Request
  <1>1. request[p] \in Request /\ request[p] # NoRequest
    BY SubstrateAssumption, InvFacts DEF WriterHolds
  <1>2. Pending(p) = request[p] /\ Pending(p)' = NoRequest
    BY DEF Calling, Pending, Idle, Waiting, Writing, Committing
  <1>3. [q \in Processes |-> Pending(q)]' =
            [[q \in Processes |-> Pending(q)] EXCEPT ![p] = NoRequest]
    BY <1>2, CallsChange
  <1> QED BY <1>1, <1>2, <1>3 DEF Once!Return

\* What lands is what the abstract store writes.
LEMMA WriteRefines ==
    ASSUME StoreInv, NEW p \in Processes, pc[p] = Committing, Land(p),
           [q \in Processes |-> Pending(q)][p] = request[p]
    PROVE  Once!Write(p)
  <1>1. PICK r \in Request : /\ r = request[p] /\ Verdict(r) = "insert"
                             /\ pending[p] = {RowAfter(heads[r.namespace], r)}
    BY InvFacts DEF WriterHolds
  <1>2. Once!Answer(r) = "appended" /\ Once!Tip(r.namespace) = heads[r.namespace]
    BY <1>1, AnswerFacts, TipFacts DEF Request
  <1>3. records' = records \cup {RowAfter(heads[r.namespace], r)}
    BY <1>1 DEF Land
  <1> QED BY <1>1, <1>2, <1>3, SameJournal DEF Once!Write

\* A call that ends without a commit.
LEMMA DeclineRefines ==
    ASSUME StoreInv, NEW p \in Processes, Busy(p) \/ RollBack(p)
    PROVE  Once!Next
  <1>1. /\ Calling(p) /\ UNCHANGED records /\ request' = request
        /\ pc' = [pc EXCEPT ![p] = Idle]
    BY DEF Busy, RollBack, Return, tables, Calling, Waiting, Writing
  <1>2. /\ pc'[p] = Idle
        /\ \A q \in Processes : q # p => pc'[q] = pc[q] /\ request'[q] = request[q]
    BY <1>1, InvFacts DEF TypeOK
  <1>3. CASE Busy(p)
    <2>1. Once!Return(p, "STORE_UNAVAILABLE")
      BY <1>1, <1>2, <1>3, ReturnRefines DEF Busy, Return
    <2> QED BY <1>1, <2>1 DEF Once!Next, Once!Unavailable
  <1>4. CASE RollBack(p)
    <2>1. PICK value : value = Verdict(request[p])
      OBVIOUS
    <2>2. value # "insert" /\ answer' = [answer EXCEPT ![p] = value]
      BY <1>4, <2>1 DEF RollBack, Return
    <2>3. /\ Once!Return(p, value) /\ request[p] \in Request
          /\ [q \in Processes |-> Pending(q)][p] = request[p]
      BY <1>1, <1>2, <2>2, ReturnRefines
    <2>4. Once!Answer(request[p]) = value
      BY <2>1, <2>2, <2>3, AnswerFacts
    <2>5. value # "appended"
      BY <2>1, <2>3, InvFacts, VerdictFacts
    <2>6. Once!Decline(p)
      BY <1>1, <2>3, <2>4, <2>5 DEF Once!Decline
    <2> QED BY <2>6 DEF Once!Next
  <1> QED BY <1>3, <1>4

\* A commit takes effect at its one instant, told or not.
LEMMA CommitRefines ==
    ASSUME StoreInv, NEW p \in Processes, Commit(p) \/ CommitUnacknowledged(p)
    PROVE  Once!Next
  <1>1. /\ pc[p] = Committing /\ Calling(p) /\ request' = request
        /\ pc' = [pc EXCEPT ![p] = Idle]
    BY DEF Commit, CommitUnacknowledged, Return, Calling
  <1>2. /\ pc'[p] = Idle
        /\ \A q \in Processes : q # p => pc'[q] = pc[q] /\ request'[q] = request[q]
    BY <1>1, InvFacts DEF TypeOK
  <1>3. [q \in Processes |-> Pending(q)][p] = request[p]
    BY <1>1 DEF Pending
  <1>4. CASE Commit(p)
    <2>1. Land(p) /\ answer' = [answer EXCEPT ![p] = "appended"]
      BY <1>4 DEF Commit, Return
    <2>2. Once!Return(p, "appended") /\ Once!Write(p)
      BY <1>1, <1>2, <1>3, <2>1, ReturnRefines, WriteRefines
    <2> QED BY <2>2 DEF Once!Next, Once!Acknowledge
  <1>5. CASE CommitUnacknowledged(p)
    <2>1. /\ Land(p) \/ UNCHANGED records
          /\ answer' = [answer EXCEPT ![p] = "ambiguous"]
      BY <1>5 DEF CommitUnacknowledged, Return, tables
    <2>2. Once!Return(p, "ambiguous")
      BY <1>1, <1>2, <2>1, ReturnRefines
    <2>3. Once!Write(p) \/ UNCHANGED records
      BY <1>1, <1>3, <2>1, WriteRefines
    <2> QED BY <2>2, <2>3 DEF Once!Next, Once!Doubt
  <1> QED BY <1>4, <1>5

\* A crash leaves a caller in doubt, or a process without its last answer.
LEMMA CrashRefines ==
    ASSUME StoreInv, NEW p \in Processes, Crash(p)
    PROVE  Once!Next
  <1>1. /\ pc' = [pc EXCEPT ![p] = Idle] /\ request' = request
        /\ answer' = [answer EXCEPT ![p] = "none"]
        /\ UNCHANGED records \/ (pc[p] = Committing /\ Land(p))
    BY DEF Crash, tables
  <1>2. /\ pc'[p] = Idle
        /\ \A q \in Processes : q # p => pc'[q] = pc[q] /\ request'[q] = request[q]
    BY <1>1, InvFacts DEF TypeOK
  <1>3. CASE Calling(p)
    <2>1. /\ Once!Return(p, "none")
          /\ [q \in Processes |-> Pending(q)][p] = request[p]
      BY <1>1, <1>2, <1>3, ReturnRefines
    <2>2. Once!Write(p) \/ UNCHANGED records
      BY <1>1, <2>1, WriteRefines
    <2> QED BY <2>1, <2>2 DEF Once!Next, Once!Doubt
  <1>4. CASE ~ Calling(p)
    <2>1. Pending(p) = NoRequest /\ Pending(p)' = NoRequest /\ UNCHANGED records
      BY <1>1, <1>2, <1>4 DEF Pending, Calling, Idle, Waiting, Writing, Committing
    <2>2. [q \in Processes |-> Pending(q)]' = [q \in Processes |-> Pending(q)]
      BY <1>2, <2>1, CallsStay
    <2>3. Once!Forget(p)
      BY <1>1, <2>1, <2>2 DEF Once!Forget
    <2> QED BY <2>3 DEF Once!Next
  <1> QED BY <1>3, <1>4

\* Statements in the middle of a call, and reads, are no step of its own.
LEMMA InnerStutters ==
    ASSUME StoreInv, NEW p \in Processes,
           \/ BeginImmediate(p) \/ Insert(p)
           \/ ReadHead(p) \/ VerifyRows(p) \/ ReadRecord(p) \/ VerifyHead(p)
    PROVE  UNCHANGED Once!vars
  <1>1. UNCHANGED <<records, request, answer>>
    BY DEF BeginImmediate, Insert, ReadHead, VerifyRows, ReadRecord, VerifyHead, Observe, tables
  <1>2. \/ /\ pc[p] \in {Waiting, Writing}
           /\ \E place \in {Writing, Committing} : pc' = [pc EXCEPT ![p] = place]
        \/ /\ pc[p] \in {Idle, Reading, Verifying}
           /\ \/ UNCHANGED pc
              \/ \E place \in {Idle, Reading, Verifying} : pc' = [pc EXCEPT ![p] = place]
    BY DEF BeginImmediate, Insert, ReadHead, VerifyRows, ReadRecord, VerifyHead, Observe
  <1>3. /\ \A q \in Processes : q # p => pc'[q] = pc[q] /\ request'[q] = request[q]
        /\ \/ pc[p] \in {Waiting, Writing} /\ pc'[p] \in {Writing, Committing}
           \/ pc[p] \in {Idle, Reading, Verifying} /\ pc'[p] \in {Idle, Reading, Verifying}
    BY <1>1, <1>2, InvFacts DEF TypeOK
  <1>4. Pending(p)' = Pending(p)
    BY <1>1, <1>3 DEF Pending, Idle, Waiting, Writing, Committing, Reading, Verifying
  <1>5. [q \in Processes |-> Pending(q)]' = [q \in Processes |-> Pending(q)]
    BY <1>3, <1>4, CallsStay
  <1> QED BY <1>1, <1>5 DEF Once!vars

LEMMA StepRefines ==
    ASSUME StoreInv, [Next]_vars
    PROVE  [Once!Next]_Once!vars
  <1>1. ASSUME NEW p \in Processes,
               \/ Submit(p) \/ Retry(p) \/ Busy(p) \/ RollBack(p)
               \/ Commit(p) \/ CommitUnacknowledged(p) \/ Crash(p)
        PROVE  Once!Next
    BY <1>1, CallRefines, DeclineRefines, CommitRefines, CrashRefines
  <1>2. ASSUME NEW p \in Processes,
               \/ BeginImmediate(p) \/ Insert(p)
               \/ ReadHead(p) \/ VerifyRows(p) \/ ReadRecord(p) \/ VerifyHead(p)
        PROVE  UNCHANGED Once!vars
    BY <1>2, InnerStutters
  <1>3. CASE UNCHANGED vars
    <2>1. UNCHANGED <<records, answer, pc, request>>
      BY <1>3 DEF vars, tables
    <2>2. \A q \in Processes : Pending(q)' = Pending(q)
      BY <2>1 DEF Pending
    <2> QED BY <2>1, <2>2 DEF Once!vars
  <1> QED BY <1>1, <1>2, <1>3 DEF Next, Statement

LEMMA InitRefines == Init => Once!Init
  <1> SUFFICES ASSUME Init PROVE Once!Init
    OBVIOUS
  <1>1. \A p \in Processes : Pending(p) = NoRequest
    BY DEF Init, Pending, Idle, Waiting, Writing, Committing
  <1> QED BY <1>1 DEF Init, Once!Init

\* Locks, transactions, lost acknowledgements and crashes are invisible to the
\* callers: every write takes effect at one instant between its call and its
\* answer or not at all.
THEOREM StoreImplementsOnceStore == Spec => ImplementsOnceStore
  BY InitRefines, StepRefines, StoreInvariant, PTL DEF Spec, ImplementsOnceStore, Once!Spec
=============================================================================

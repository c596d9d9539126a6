-------------------------- MODULE DurableSubstrate --------------------------
(***************************************************************************)
(* The SQLite durable store (src/durable-sqlite-substrate.ts): processes   *)
(* that share one file write it under BEGIN IMMEDIATE .. COMMIT, read it   *)
(* with separate statements, crash anywhere, and may lose the              *)
(* acknowledgement of a commit.  A step of a process is one statement or   *)
(* a run of statements that the write lock or one read snapshot protects.  *)
(***************************************************************************)
EXTENDS Journal

CONSTANTS Processes,
          NoProcess,    \* nobody holds the write lock
          NoRequest,    \* a process that never asked for a write
          NoScan,       \* a process that is not reading
          MaxWrites     \* writes submitted in all (bound of the model)

ASSUME SubstrateAssumption == /\ NoProcess \notin Processes
                              /\ NoRequest \notin Request
                              /\ MaxWrites \in Nat

VARIABLES
    records,    \* the table durable_record
    heads,      \* the table durable_head
    lock,       \* the holder of the cross-process write lock
    pc,         \* where each process is
    request,    \* its write
    pending,    \* the rows its open transaction has inserted
    answer,     \* the answer to its last write
    known,      \* the head it last read
    scan,       \* what an unfinished read has seen so far
    observed,   \* how its last read ended
    writes,     \* writes submitted by all processes
    promised,   \* the writes answered with `appended` or `existing`
    landed      \* the processes whose present write is in the journal

tables == <<records, heads>>
reads == <<known, scan, observed>>
history == <<promised, landed>>
vars == <<records, heads, lock, pc, request, pending, answer, reads, writes, history>>

Idle == "idle"          \* between two calls
Waiting == "waiting"    \* BEGIN IMMEDIATE waits for the lock
Writing == "writing"    \* inside the transaction, nothing decided
Committing == "committing"
Reading == "reading"    \* readCurrent holds a head, not yet its record
Verifying == "verifying"    \* verifyChain holds the rows, not yet the head

Of(namespace) == {row \in records : row.namespace = namespace}

\* The journal row under the request's key, as a set of at most one row.
Existing(r) == {row \in Of(r.namespace) : row.key = r.key}

-----------------------------------------------------------------------------
\* A caller fences its write with the head it read last, be it a foreign one.
Submit(p) ==
    /\ pc[p] = Idle
    /\ writes < MaxWrites
    /\ \E mode \in Modes, namespace \in Namespaces, key \in Keys, body \in Bodies :
          request' = [request EXCEPT ![p] =
                [mode |-> mode, namespace |-> namespace, key |-> key, body |-> body,
                 expectedHead |-> IF mode = "append-once" THEN Genesis ELSE known[p]]]
    /\ pc' = [pc EXCEPT ![p] = Waiting]
    /\ writes' = writes + 1
    /\ landed' = landed \ {p}
    /\ UNCHANGED <<tables, lock, pending, answer, reads, promised>>

\* A caller left in doubt, or refused the lock, sends its write again.
Retry(p) ==
    /\ pc[p] = Idle
    /\ answer[p] \in {"ambiguous", "STORE_UNAVAILABLE"}
    /\ pc' = [pc EXCEPT ![p] = Waiting]
    /\ UNCHANGED <<tables, lock, request, pending, answer, reads, writes, history>>

\* Mutant: BEGIN DEFERRED, which takes no write lock.
LockIgnored == lock \in Processes \cup {NoProcess}

\* BEGIN IMMEDIATE gets the write lock.
LockFree == lock = NoProcess

BeginImmediate(p) ==
    /\ pc[p] = Waiting
    /\ LockFree
    /\ lock' = p
    /\ pc' = [pc EXCEPT ![p] = Writing]
    /\ UNCHANGED <<tables, request, pending, answer, reads, writes, history>>

\* The call returns: its transaction, if any, has ended.
Return(p, value) ==
    /\ pc' = [pc EXCEPT ![p] = Idle]
    /\ pending' = [pending EXCEPT ![p] = {}]
    /\ answer' = [answer EXCEPT ![p] = value]
    /\ UNCHANGED <<request, reads, writes>>

Busy(p) ==
    /\ pc[p] = Waiting
    /\ lock # NoProcess
    /\ Return(p, "STORE_UNAVAILABLE")
    /\ UNCHANGED <<tables, lock, history>>

\* Mutant: the expected head was compared before the lock, not under it.
VerdictUnfenced(r) ==
    LET current == heads[r.namespace] IN
    IF ~ ChainState(current) \/ \E row \in Existing(r) : ~ Materializes(row) THEN "CHAIN_INVALID"
    ELSE IF Existing(r) # {} THEN
        IF \E row \in Existing(r) : SameWrite(row, r) THEN "existing" ELSE "conflict"
    ELSE IF Full(records) THEN "CAPACITY_EXHAUSTED"
    ELSE "insert"

\* Mutant: a full store refuses before it looks for the write.
VerdictFullFirst(r) ==
    LET current == heads[r.namespace] IN
    IF Full(records) THEN "CAPACITY_EXHAUSTED"
    ELSE IF Existing(r) # {} THEN
        IF \E row \in Existing(r) : SameWrite(row, r) THEN "existing" ELSE "conflict"
    ELSE IF r.mode = "compare-and-swap" /\ current.head # r.expectedHead THEN "conflict"
    ELSE "insert"

\* What the transaction decides from the tables it reads under the lock.
Verdict(r) ==
    LET current == heads[r.namespace] IN
    IF ~ ChainState(current) \/ \E row \in Existing(r) : ~ Materializes(row) THEN "CHAIN_INVALID"
    ELSE IF Existing(r) # {} THEN
        IF \E row \in Existing(r) : SameWrite(row, r) THEN "existing" ELSE "conflict"
    ELSE IF r.mode = "compare-and-swap" /\ current.head # r.expectedHead THEN "conflict"
    ELSE IF Full(records) THEN "CAPACITY_EXHAUSTED"
    ELSE IF \E row \in Of(r.namespace) : row.sequence = current.sequence + 1 THEN "CHAIN_INVALID"
    ELSE "insert"

Promise(r) == [namespace |-> r.namespace, key |-> r.key, body |-> r.body]

\* The transaction rolls back and the call is answered.
RollBack(p) ==
    /\ pc[p] = Writing
    /\ Verdict(request[p]) # "insert"
    /\ Return(p, Verdict(request[p]))
    /\ lock' = NoProcess
    /\ promised' = IF Verdict(request[p]) = "existing"
                   THEN promised \cup {Promise(request[p])} ELSE promised
    /\ UNCHANGED <<tables, landed>>

Insert(p) ==
    /\ pc[p] = Writing
    /\ Verdict(request[p]) = "insert"
    /\ pending' = [pending EXCEPT ![p] =
                      {RowAfter(heads[request[p].namespace], request[p])}]
    /\ pc' = [pc EXCEPT ![p] = Committing]
    /\ UNCHANGED <<tables, lock, request, answer, reads, writes, history>>

\* The inserted record and the advanced head become durable together.
Land(p) ==
    /\ records' = records \cup pending[p]
    /\ heads' = [namespace \in Namespaces |->
          IF \E row \in pending[p] : row.namespace = namespace
          THEN HeadAfter(heads[namespace],
                         CHOOSE row \in pending[p] : row.namespace = namespace)
          ELSE heads[namespace]]

Commit(p) ==
    /\ pc[p] = Committing
    /\ Land(p)
    /\ lock' = NoProcess
    /\ Return(p, "appended")
    /\ promised' = promised \cup {Promise(request[p])}
    /\ landed' = landed \cup {p}

\* COMMIT fails after it landed, or before; the rollback frees the lock.
CommitUnacknowledged(p) ==
    /\ pc[p] = Committing
    /\ \/ Land(p) /\ landed' = landed \cup {p}
       \/ UNCHANGED <<tables, landed>>
    /\ lock' = NoProcess
    /\ Return(p, "ambiguous")
    /\ UNCHANGED promised

-----------------------------------------------------------------------------
\* readCurrent: the head, then the record at its sequence.
ReadHead(p) ==
    /\ pc[p] = Idle
    /\ \E namespace \in Namespaces :
          IF heads[namespace].head = Genesis
          THEN /\ known' = [known EXCEPT ![p] = Genesis]
               /\ observed' = [observed EXCEPT ![p] =
                      IF ChainState(heads[namespace]) THEN "coherent" ELSE "CHAIN_INVALID"]
               /\ UNCHANGED <<pc, scan>>
          ELSE /\ scan' = [scan EXCEPT ![p] =
                      [namespace |-> namespace, rows |-> {}, head |-> heads[namespace]]]
               /\ pc' = [pc EXCEPT ![p] = Reading]
               /\ UNCHANGED <<known, observed>>
    /\ UNCHANGED <<tables, lock, request, pending, answer, writes, history>>

\* The read ends: the caller has an answer or an accusation.
Observe(p, intact) ==
    /\ pc' = [pc EXCEPT ![p] = Idle]
    /\ scan' = [scan EXCEPT ![p] = NoScan]
    /\ observed' = [observed EXCEPT ![p] = IF intact THEN "coherent" ELSE "CHAIN_INVALID"]
    /\ UNCHANGED <<tables, lock, request, pending, answer, writes, history>>

\* selectBySequence(namespace, head.sequence)
RecordOf(p) == {row \in Of(scan[p].namespace) : row.sequence = scan[p].head.sequence}

ReadRecord(p) ==
    /\ pc[p] = Reading
    /\ LET seen == scan[p].head
           intact == /\ ChainState(seen)
                     /\ \E row \in RecordOf(p) : Materializes(row) /\ row.head = seen.head
       IN /\ Observe(p, intact)
          /\ known' = IF intact THEN [known EXCEPT ![p] = seen.head]
                      ELSE known

\* verifyChain pins a read snapshot when it selects the rows.
VerifyRows(p) ==
    /\ pc[p] = Idle
    /\ \E namespace \in Namespaces :
          scan' = [scan EXCEPT ![p] = [namespace |-> namespace, rows |-> Of(namespace),
                                       head |-> heads[namespace]]]
    /\ pc' = [pc EXCEPT ![p] = Verifying]
    /\ UNCHANGED <<tables, lock, request, pending, answer, known, observed, writes, history>>

\* Mutant: two autocommit statements, so the head is the live one.
HeadOfLive(p) == heads[scan[p].namespace]

\* headOf inside the snapshot that the rows were read from.
HeadOfSnapshot(p) == scan[p].head

VerifyHead(p) ==
    /\ pc[p] = Verifying
    /\ Observe(p, ChainVerifies(scan[p].rows, HeadOfSnapshot(p)))
    /\ UNCHANGED known

-----------------------------------------------------------------------------
\* A process dies and is started again: SQLite rolls its transaction back,
\* unless the commit record had already reached the log.
Crash(p) ==
    /\ pc' = [pc EXCEPT ![p] = Idle]
    /\ pending' = [pending EXCEPT ![p] = {}]
    /\ answer' = [answer EXCEPT ![p] = "none"]
    /\ known' = [known EXCEPT ![p] = Genesis]
    /\ scan' = [scan EXCEPT ![p] = NoScan]
    /\ observed' = [observed EXCEPT ![p] = "none"]
    /\ lock' = IF lock = p THEN NoProcess ELSE lock
    /\ \/ UNCHANGED tables
       \/ pc[p] = Committing /\ Land(p)
    /\ landed' = landed \ {p}
    /\ UNCHANGED <<request, writes, promised>>

Init ==
    /\ records = {}
    /\ heads = [namespace \in Namespaces |-> GenesisHead]
    /\ lock = NoProcess
    /\ pc = [p \in Processes |-> Idle]
    /\ request = [p \in Processes |-> NoRequest]
    /\ pending = [p \in Processes |-> {}]
    /\ answer = [p \in Processes |-> "none"]
    /\ known = [p \in Processes |-> Genesis]
    /\ scan = [p \in Processes |-> NoScan]
    /\ observed = [p \in Processes |-> "none"]
    /\ writes = 0
    /\ promised = {}
    /\ landed = {}

\* The statements a process runs by itself once a call has begun.
Statement(p) ==
    \/ BeginImmediate(p) \/ Busy(p)
    \/ RollBack(p) \/ Insert(p) \/ Commit(p) \/ CommitUnacknowledged(p)
    \/ ReadRecord(p) \/ VerifyHead(p)

Next == \E p \in Processes :
           \/ Statement(p)
           \/ Submit(p) \/ Retry(p) \/ ReadHead(p) \/ VerifyRows(p)
           \/ Crash(p)

Spec == Init /\ [][Next]_vars

-----------------------------------------------------------------------------
\* The type invariant.
TypeOK ==
    /\ records \subseteq Row
    /\ heads \in [Namespaces -> HeadRow]
    /\ lock \in Processes \cup {NoProcess}
    /\ pc \in [Processes -> {Idle, Waiting, Writing, Committing, Reading, Verifying}]
    /\ request \in [Processes -> Request \cup {NoRequest}]
    /\ \A p \in Processes : pending[p] \subseteq Row
    /\ known \in [Processes -> Heads]
    /\ writes \in 0 .. MaxWrites
    /\ promised \subseteq [namespace: Namespaces, key: Keys, body: Bodies]
    /\ landed \subseteq Processes

\* Whatever the interleaving of writers, lost acknowledgements and crashes,
\* what is committed is one contiguous chain per namespace that ends at the
\* head table's row, a rollback never leaves half a write, and the store-wide
\* bound holds.
JournalIntact ==
    /\ TypeOK
    /\ \A namespace \in Namespaces : ChainVerifies(Of(namespace), heads[namespace])
    /\ Cardinality(records) <= MaxEntries

\* A store that nobody tampered with never reports CHAIN_INVALID, neither to
\* a writer nor to a reader whose statements straddle other commits.
NeverAccused == \A p \in Processes : "CHAIN_INVALID" \notin {answer[p], observed[p]}

\* A write answered with `appended` or `existing` is in the journal with the
\* caller's own bytes, for ever, crashes and rollbacks included; and a caller
\* whose write landed, told so or not, is never told `conflict` or
\* CAPACITY_EXHAUSTED when it sends that write again.
OwnWriteRecognised ==
    /\ \A write \in promised : \E row \in records : Promise(row) = write
    /\ \A p \in landed : answer[p] \notin {"conflict", "CAPACITY_EXHAUSTED"}

\* The store behaves as the single atomic store of OnceStore.
Pending(p) == IF pc[p] \in {Waiting, Writing, Committing} THEN request[p] ELSE NoRequest
Once == INSTANCE OnceStore WITH
            rows <- records,
            calls <- [p \in Processes |-> Pending(p)],
            answers <- answer
ImplementsOnceStore == Once!Spec

=============================================================================

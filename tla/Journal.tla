------------------------------ MODULE Journal -------------------------------
(***************************************************************************)
(* The rows of a durable journal and the hash chain over them              *)
(* (src/durable-substrate.ts).  A digest is taken to be free of            *)
(* collisions: the head of a chain is the sequence of the links it covers, *)
(* and a body stands for its own digest.                                   *)
(***************************************************************************)
EXTENDS Naturals, Sequences, FiniteSets

CONSTANTS Namespaces, Keys, Bodies,
          MaxEntries        \* the store-wide bound kept in durable_meta

ASSUME JournalAssumption == MaxEntries \in Nat \ {0}

\* The head of an empty chain, null in the code.
Genesis == <<>>

Link == [namespace: Namespaces, key: Keys, sequence: Nat \ {0}, body: Bodies]
Heads == Seq(Link)

\* A row of the table durable_record.
Row == [namespace: Namespaces, key: Keys, sequence: Nat \ {0},
        previousHead: Heads, head: Heads, body: Bodies]

\* A row of the table durable_head; an absent row reads as the genesis.
HeadRow == [sequence: Nat, head: Heads, entryCount: Nat]
GenesisHead == [sequence |-> 0, head |-> Genesis, entryCount |-> 0]

Modes == {"append-once", "compare-and-swap"}
Request == [mode: Modes, namespace: Namespaces, key: Keys, body: Bodies,
            expectedHead: Heads]

ChainHead(namespace, key, sequence, previousHead, body) ==
    Append(previousHead, [namespace |-> namespace, key |-> key,
                          sequence |-> sequence, body |-> body])

\* The row a request adds after the given head.
RowAfter(current, r) ==
    [namespace |-> r.namespace, key |-> r.key,
     sequence |-> current.sequence + 1, previousHead |-> current.head,
     head |-> ChainHead(r.namespace, r.key, current.sequence + 1,
                        current.head, r.body),
     body |-> r.body]

HeadAfter(current, row) ==
    [sequence |-> row.sequence, head |-> row.head,
     entryCount |-> current.entryCount + 1]

\* What materialize accepts of one row.
Materializes(row) ==
    /\ row.head = ChainHead(row.namespace, row.key, row.sequence,
                            row.previousHead, row.body)
    /\ (row.sequence = 1) <=> (row.previousHead = Genesis)

\* What headOf accepts of a head row.
ChainState(current) ==
    /\ current.sequence = 0 <=> current.head = Genesis
    /\ current.entryCount = current.sequence

\* The rows form one contiguous chain that ends at the given head.
ChainVerifies(rows, current) ==
    /\ ChainState(current)
    /\ \A row \in rows : Materializes(row)
    /\ {row.sequence : row \in rows} = 1 .. Cardinality(rows)
    /\ current.sequence = Cardinality(rows)
    /\ \A row \in rows :
          IF row.sequence = 1 THEN row.previousHead = Genesis
          ELSE \E before \in rows : /\ before.sequence = row.sequence - 1
                                    /\ before.head = row.previousHead
    /\ \A row \in rows : row.sequence = current.sequence => row.head = current.head

Full(rows) == Cardinality(rows) >= MaxEntries

\* `existing` means that this very write is already in the journal.
SameWrite(row, r) ==
    /\ row.body = r.body
    /\ r.mode = "compare-and-swap" => row.previousHead = r.expectedHead
=============================================================================

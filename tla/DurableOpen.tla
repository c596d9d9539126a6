---------------------------- MODULE DurableOpen -----------------------------
(***************************************************************************)
(* Opening a durable store (openDurableSqliteSubstrate of                  *)
(* src/durable-sqlite-substrate.ts): processes, of one release or of       *)
(* several, race to provision the same absent file, each under the         *)
(* identity its deployment binding gives it.                               *)
(***************************************************************************)
EXTENDS Naturals, FiniteSets

CONSTANTS Processes,
          Identities,   \* store id, backend namespace and bound, as one value
          Wanted,       \* the identity each process opens the file under
          Format,       \* the format version each process's release supports
          NoProcess,    \* nobody holds the write lock
          NoIdentity    \* the file has no durable_meta row

VARIABLES version,  \* PRAGMA user_version, 0 in a new file
          meta,     \* the identity row of durable_meta
          lock,     \* the holder of the write lock
          pc,       \* where each process is
          made      \* the tables its open transaction has created
vars == <<version, meta, lock, pc, made>>

Ended == {"open", "STORE_FORMAT_MISMATCH", "STORE_BINDING_INVALID",
          "STORE_UNAVAILABLE", "STORE_CORRUPT", "ambiguous"}

\* The process opens the file, or opens it again after its last try ended.
Probe(p) ==
    /\ pc[p] \in {"closed"} \cup (Ended \ {"open"})
    /\ pc' = [pc EXCEPT ![p] = IF version = 0 THEN "waiting"
                               ELSE IF version = Format[p] THEN "binding"
                               ELSE "STORE_FORMAT_MISMATCH"]
    /\ UNCHANGED <<version, meta, lock, made>>

LockFree == lock = NoProcess

BeginImmediate(p) ==
    /\ pc[p] = "waiting"
    /\ LockFree
    /\ lock' = p
    /\ pc' = [pc EXCEPT ![p] = "provisioning"]
    /\ UNCHANGED <<version, meta, made>>

\* Mutant: the lock is waited for without a timeout.
BusyNever(p) == FALSE /\ pc[p] = "waiting" /\ UNCHANGED vars

Busy(p) ==
    /\ pc[p] = "waiting"
    /\ lock # NoProcess
    /\ pc' = [pc EXCEPT ![p] = "STORE_UNAVAILABLE"]
    /\ UNCHANGED <<version, meta, lock, made>>

\* Mutant: the version read before the lock is trusted under it.
VersionSeen == 0

\* user_version is read again inside the transaction.
VersionNow == version

\* The winner of the race creates schema, version and identity together; a
\* loser finds them and goes on to the checks of an ordinary open.
Provision(p) ==
    /\ pc[p] = "provisioning"
    /\ IF VersionNow \in {0, Format[p]}
       THEN /\ pc' = [pc EXCEPT ![p] = IF VersionNow = 0 /\ meta # NoIdentity
                                       THEN "STORE_CORRUPT" ELSE "committing"]
            /\ made' = [made EXCEPT ![p] = VersionNow = 0 /\ meta = NoIdentity]
            /\ lock' = IF VersionNow = 0 /\ meta # NoIdentity THEN NoProcess ELSE lock
       ELSE /\ pc' = [pc EXCEPT ![p] = "STORE_FORMAT_MISMATCH"]
            /\ lock' = NoProcess
            /\ UNCHANGED made
    /\ UNCHANGED <<version, meta>>

Land(p) ==
    /\ version' = IF made[p] THEN Format[p] ELSE version
    /\ meta' = IF made[p] THEN Wanted[p] ELSE meta

Release(p, next) ==
    /\ lock' = NoProcess
    /\ made' = [made EXCEPT ![p] = FALSE]
    /\ pc' = [pc EXCEPT ![p] = next]

Commit(p) ==
    /\ pc[p] = "committing"
    /\ Land(p)
    /\ Release(p, "binding")

\* COMMIT fails after it landed, or before; the open ends in doubt.
CommitUnacknowledged(p) ==
    /\ pc[p] = "committing"
    /\ Land(p) \/ UNCHANGED <<version, meta>>
    /\ Release(p, "ambiguous")

\* Every identity field of the file is the caller's.
BindingHolds(p) == meta = Wanted[p]

Bind(p) ==
    /\ pc[p] = "binding"
    /\ pc' = [pc EXCEPT ![p] = IF meta = NoIdentity THEN "STORE_CORRUPT"
                               ELSE IF BindingHolds(p) THEN "open"
                               ELSE "STORE_BINDING_INVALID"]
    /\ UNCHANGED <<version, meta, lock, made>>

\* A process dies, or closes its store; what it did not commit is gone.
Die(p) ==
    /\ pc' = [pc EXCEPT ![p] = "closed"]
    /\ made' = [made EXCEPT ![p] = FALSE]
    /\ lock' = IF lock = p THEN NoProcess ELSE lock
    /\ \/ UNCHANGED <<version, meta>>
       \/ pc[p] = "committing" /\ Land(p)

Init ==
    /\ version = 0
    /\ meta = NoIdentity
    /\ lock = NoProcess
    /\ pc = [p \in Processes |-> "closed"]
    /\ made = [p \in Processes |-> FALSE]

Statement(p) == \/ BeginImmediate(p) \/ Busy(p) \/ Provision(p)
                \/ Commit(p) \/ CommitUnacknowledged(p) \/ Bind(p)
Next == \E p \in Processes : Probe(p) \/ Statement(p) \/ Die(p)

Spec == Init /\ [][Next]_vars

\* An open is one synchronous run of statements.
FairSpec == Spec /\ \A p \in Processes : WF_vars(Statement(p))

-----------------------------------------------------------------------------
\* The type invariant.
TypeOK ==
    /\ version \in {0} \cup {Format[p] : p \in Processes}
    /\ meta \in Identities \cup {NoIdentity}
    /\ lock \in Processes \cup {NoProcess}
    /\ pc \in [Processes -> Ended \cup {"closed", "waiting", "provisioning",
                                        "committing", "binding"}]
    /\ made \in [Processes -> BOOLEAN]

\* A file is provisioned whole or not at all: a crash or a lost commit never
\* leaves a version without an identity, no opener ever reports it corrupt, and
\* two that are both in agree on what they opened, whoever created it.
ProvisionedWhole ==
    /\ TypeOK
    /\ (version = 0) <=> (meta = NoIdentity)
    /\ \A p, q \in Processes :
          /\ pc[p] # "STORE_CORRUPT"
          /\ pc[p] = "open" /\ pc[q] = "open" =>
                Wanted[p] = Wanted[q] /\ Wanted[p] = meta /\ Format[p] = Format[q]

\* An open always ends, in a store or in a typed refusal.
OpenEnds == \A p \in Processes : pc[p] = "waiting" ~> pc[p] \in Ended \cup {"closed"}
=============================================================================

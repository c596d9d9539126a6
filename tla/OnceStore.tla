----------------------------- MODULE OnceStore ------------------------------
(***************************************************************************)
(* What the durable substrate promises its callers                         *)
(* (the DurableSubstrate interface of src/durable-substrate.ts): a write   *)
(* takes effect at one instant between its call and its answer or not at   *)
(* all, a key is written once, a compare-and-swap lands only on the head   *)
(* it expected, and only an answer marked ambiguous, or a crash, leaves    *)
(* the caller in doubt.                                                    *)
(***************************************************************************)
EXTENDS Journal

CONSTANTS Processes, NoRequest

VARIABLES rows,      \* what the store holds, and nothing else
          calls,     \* the request each process waits for, or NoRequest
          answers    \* the last answer of each process
vars == <<rows, calls, answers>>

Definite == {"appended", "existing", "conflict", "CAPACITY_EXHAUSTED"}
Answers == Definite \cup {"none", "ambiguous", "STORE_UNAVAILABLE"}

Of(namespace) == {row \in rows : row.namespace = namespace}
Tip(namespace) ==
    IF Of(namespace) = {} THEN GenesisHead
    ELSE LET last == CHOOSE row \in Of(namespace) :
                        \A other \in Of(namespace) : other.sequence <= row.sequence
         IN [sequence |-> last.sequence, head |-> last.head,
             entryCount |-> last.sequence]

Held(r) == {row \in Of(r.namespace) : row.key = r.key}

\* The one definite answer the store can give to a request now.
Answer(r) ==
    IF \E row \in Held(r) : SameWrite(row, r) THEN "existing"
    ELSE IF \/ Held(r) # {}
            \/ r.mode = "compare-and-swap" /\ Tip(r.namespace).head # r.expectedHead
         THEN "conflict"
    ELSE IF Full(rows) THEN "CAPACITY_EXHAUSTED"
    ELSE "appended"

Init == /\ rows = {}
        /\ calls = [p \in Processes |-> NoRequest]
        /\ answers = [p \in Processes |-> "none"]

Call(p) == /\ calls[p] = NoRequest
           /\ calls'[p] \in Request
           /\ calls' = [calls EXCEPT ![p] = calls'[p]]
           /\ UNCHANGED <<rows, answers>>

Return(p, answer) == /\ calls[p] # NoRequest
                     /\ calls' = [calls EXCEPT ![p] = NoRequest]
                     /\ answers' = [answers EXCEPT ![p] = answer]

Write(p) == /\ Answer(calls[p]) = "appended"
            /\ rows' = rows \cup {RowAfter(Tip(calls[p].namespace), calls[p])}

\* The call takes effect and its caller is told so.
Acknowledge(p) == Return(p, "appended") /\ Write(p)

\* The call changes nothing and its caller is told why.
Decline(p) == /\ Return(p, Answer(calls[p]))
              /\ Answer(calls[p]) # "appended"
              /\ UNCHANGED rows

\* The call never started.
Unavailable(p) == Return(p, "STORE_UNAVAILABLE") /\ UNCHANGED rows

\* The caller is told that it cannot know, or crashes before it is told.
Doubt(p) == /\ \E answer \in {"ambiguous", "none"} : Return(p, answer)
            /\ UNCHANGED rows \/ Write(p)

\* A process that waits for nothing crashes and forgets its last answer.
Forget(p) == /\ calls[p] = NoRequest
             /\ answers' = [answers EXCEPT ![p] = "none"]
             /\ UNCHANGED <<rows, calls>>

Next == \E p \in Processes :
           \/ Call(p) \/ Acknowledge(p) \/ Decline(p) \/ Unavailable(p)
           \/ Doubt(p) \/ Forget(p)

Spec == Init /\ [][Next]_vars
=============================================================================

---------------------------- MODULE MeteredCalls -----------------------------
(***************************************************************************)
(* What scheduling promises about inference: at any time at most one       *)
(* reservation is open, a model is called under an open reservation and    *)
(* once for each, and a reservation is only closed by what its call cost.  *)
(***************************************************************************)
EXTENDS Naturals

CONSTANT Limit

VARIABLES open,    \* the open reservation: a set of at most one
          called,  \* the reservations a model was called under
          spent    \* tokens settled
vars == <<open, called, spent>>

Init == open = {} /\ called = {} /\ spent = 0

Reserve ==
    /\ open = {}
    /\ \E r \in open' : /\ open' = {r}
                        /\ r.id \notin called /\ r.amount \in 1 .. Limit - spent
    /\ UNCHANGED <<called, spent>>

Call(r) == /\ r.id \notin called
           /\ called' = called \cup {r.id}
           /\ UNCHANGED <<open, spent>>

Settle(r) == /\ r.id \in called
             /\ open' = {}
             /\ \E cost \in 0 .. r.amount : spent' = spent + cost
             /\ UNCHANGED called

Next == Reserve \/ \E r \in open : Call(r) \/ Settle(r)

Spec == Init /\ [][Next]_vars
=============================================================================

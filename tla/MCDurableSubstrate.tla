------------------------- MODULE MCDurableSubstrate -------------------------
(***************************************************************************)
(* Small instances of the durable store for TLC.                           *)
(***************************************************************************)
EXTENDS DurableSubstrate, TLC

CONSTANTS p1, p2, k1, k2, k3, b1, b2, n1, n2

Interchangeable == Permutations(Processes) \cup Permutations(Keys) \cup Permutations(Bodies) \cup Permutations(Namespaces)
=============================================================================

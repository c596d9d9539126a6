--------------------------- MODULE MCDemoSchedule ----------------------------
(* DemoSchedule for TLC: interchangeable workflows of one work item. *)
EXTENDS DemoSchedule, TLC

Symmetry == Permutations(Workflows)
=============================================================================

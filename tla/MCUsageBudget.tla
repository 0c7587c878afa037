--------------------------- MODULE MCUsageBudget ---------------------------
(* Small instances of UsageBudget for TLC. *)
EXTENDS UsageBudget, TLC

Symmetry == Permutations(Leases)
=============================================================================

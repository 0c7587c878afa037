------------------------------ MODULE MCScaler ------------------------------
(* Scaler for TLC: lease ids are interchangeable. *)
EXTENDS Scaler, TLC

Symmetry == Permutations(Leases)
=============================================================================

----------------------------- MODULE MCGateway -----------------------------
(* Symmetry for TLC: requests are only compared. *)
EXTENDS Gateway, TLC

Symmetry == Permutations(Procs)
=============================================================================

--------------------------- MODULE MCUserAccount ---------------------------
(* UserAccount for TLC: requests are interchangeable, and so are passwords. *)
EXTENDS UserAccount, TLC

Symmetry == Permutations(Procs) \cup Permutations(Passwords)

(* Bound: a behaviour is followed up to its first lost update of a watched  *)
(* column; the properties promise nothing of that column afterwards.        *)
NothingLost == lost = {}

=============================================================================

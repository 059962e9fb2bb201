---------------------------- MODULE MCTwoFactor ----------------------------
(* Symmetry for TLC: requests, fingerprints and countries are only compared. *)
EXTENDS TwoFactor, TLC

CONSTANTS d1, d2, c1, c2

\* One device seen in two countries, another whose country is not known.
MCOrigins == {<<d1, c1>>, <<d1, c2>>, <<d2, NoCountry>>}

Symmetry == Permutations(Procs) \cup Permutations(Countries)

\* Past the first stale write nothing is claimed of what it wrote.
NothingHurt == hurt = {}
=============================================================================

---------------------------- MODULE MCStoredData ----------------------------
EXTENDS StoredData, TLC

\* No formula tells the requests, or the companies, from one another.
StoreSymmetry == Permutations(Requests) \cup Permutations(Companies)

=============================================================================

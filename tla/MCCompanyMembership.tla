----------------------- MODULE MCCompanyMembership -----------------------
EXTENDS CompanyMembership, TLC

Symmetry == Permutations(Users) \cup Permutations(Procs)

=============================================================================

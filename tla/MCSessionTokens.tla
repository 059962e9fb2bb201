-------------------------- MODULE MCSessionTokens --------------------------
(* SessionTokens with the symmetry TLC runs it with (safety only). *)
EXTENDS SessionTokens, TLC

\* Requests are interchangeable; users and devices are only compared.
Symmetry == Permutations(Procs) \cup Permutations(Devices)
                \cup Permutations(Users)

\* Bound: where a request has died or a call was rejected, not both the last
\* session and the last token are used.
FewRecordsAfterFailure ==
    failures = 0 \/ row[MaxSessions] = "unused"
                 \/ token[MaxTokens].state = "unused"

=============================================================================

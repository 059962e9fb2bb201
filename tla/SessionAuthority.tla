-------------------------- MODULE SessionAuthority --------------------------
(***************************************************************************)
(* What the session store of auth-service promises to the rest of the      *)
(* platform, with no database, no tokens and no interleaving: a session id *)
(* becomes valid once, stays valid for a while, and once it is no longer   *)
(* valid it never is again.  The gateway trusts a request as long as its   *)
(* session is valid, so this is what a logout is worth.                    *)
(*                                                                         *)
(* SessionTokens implements this module with  valid <- cache.              *)
(***************************************************************************)

CONSTANT Sessions       \* session ids

VARIABLES
    opened,             \* ids that were made valid at some time
    valid,              \* ids the gateway accepts now
    closed              \* ids whose closing was reported as done

absVars == <<opened, valid, closed>>

AbsTypeOK ==
    /\ opened \subseteq Sessions
    /\ valid  \subseteq Sessions
    /\ closed \subseteq Sessions

AbsInit ==
    /\ opened = {}
    /\ valid  = {}
    /\ closed = {}

(* A login makes a fresh id valid. *)
Open(s) ==
    /\ s \notin opened
    /\ opened' = opened \cup {s}
    /\ valid'  = valid \cup {s}
    /\ UNCHANGED closed

(* An id stops being valid: its time is over, or somebody is closing it. *)
Lapse(s) ==
    /\ s \in valid
    /\ valid' = valid \ {s}
    /\ UNCHANGED <<opened, closed>>

(* A closing is reported as done; the id is not valid from then on. *)
Close(s) ==
    /\ s \in opened
    /\ valid'  = valid \ {s}
    /\ closed' = closed \cup {s}
    /\ UNCHANGED opened

AbsNext == \E s \in Sessions : Open(s) \/ Lapse(s) \/ Close(s)

AbsSpec == AbsInit /\ [][AbsNext]_absVars

=============================================================================

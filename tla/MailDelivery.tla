---------------------------- MODULE MailDelivery ----------------------------
(***************************************************************************)
(* What the platform promises of a mail it owes somebody, with no listener,*)
(* no queue and no provider: it is delivered at most once, it counts as    *)
(* sent only when it was delivered whole, and it is given up only when     *)
(* more went wrong than the retries are there to make up for.              *)
(*                                                                         *)
(* Notification implements this module.                                    *)
(***************************************************************************)
EXTENDS Naturals

CONSTANT Letters        \* the mails that may be owed

VARIABLES
    owed,               \* mails the business operation has asked for
    delivered,          \* delivered[m]: times m has reached the addressee
    excused,            \* mails that met with more than the retries cover
    closed              \* closed[m]: what the platform has settled on

absVars == <<owed, delivered, excused, closed>>

AbsInit ==
    /\ owed = {}
    /\ delivered = [m \in Letters |-> 0]
    /\ excused = {}
    /\ closed = [m \in Letters |-> "open"]

Owe(m) ==
    /\ owed' = owed \cup {m}
    /\ UNCHANGED <<delivered, excused, closed>>

\* Also after it was given up: a request may be slow.
Deliver(m) ==
    /\ m \in owed /\ delivered[m] = 0
    /\ delivered' = [delivered EXCEPT ![m] = 1]
    /\ UNCHANGED <<owed, excused, closed>>

Confirm(m) ==
    /\ closed[m] = "open" /\ delivered[m] = 1
    /\ closed' = [closed EXCEPT ![m] = "sent"]
    /\ UNCHANGED <<owed, delivered, excused>>

\* Mails are hit by a fault, and some of those are given up.
Hit(hit, lost) ==
    /\ lost \subseteq owed \cap (excused \cup hit)
    /\ \A m \in lost : closed[m] = "open"
    /\ excused' = excused \cup hit
    /\ closed' = [m \in Letters |->
                    IF m \in lost THEN "abandoned" ELSE closed[m]]
    /\ UNCHANGED <<owed, delivered>>

AbsNext ==
    \/ \E m \in Letters : Owe(m) \/ Deliver(m) \/ Confirm(m)
    \/ \E hit, lost \in SUBSET Letters : Hit(hit, lost)

AbsSpec == AbsInit /\ [][AbsNext]_absVars

=============================================================================

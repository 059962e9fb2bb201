------------------------- MODULE CompanyMembership -------------------------
(***************************************************************************)
(* company-service: one company and its members.  The use cases read the   *)
(* requester's membership, then the target's, and then write the row of    *)
(* the target as a whole.  Only a request that, by what it has read, takes *)
(* an active owner away does so in a SERIALIZABLE transaction that counts  *)
(* the owners left; every other write is one statement at READ COMMITTED.  *)
(* Companies share no rows, so one of them is modelled.                    *)
(***************************************************************************)
EXTENDS Naturals, FiniteSets

CONSTANTS
    Users,              \* users registered in auth-service
    Workers,            \* users that auth-service has yet to provision
    NoUser,
    MaxMembers,         \* bound: rows of CompanyMembership ever inserted
    Procs               \* requests being served at the same time

ASSUME PeopleDiffer ==
    /\ Users \cap Workers = {} /\ NoUser \notin Users \cup Workers
ASSUME MaxMembersIsNat == MaxMembers \in Nat

VARIABLES
    company,            \* the row of the table Company
    member,             \* member[m]: the row of CompanyMembership with id m
    made,               \* rows inserted so far; m is the m-th
    workers,            \* users provisioned by auth-service
    op,                 \* op[p]: the request p is serving
    \* History, read by properties only.
    granted,            \* rows that an owner made rows of an owner
    slipped             \* an unchecked write took an active owner away

history == <<granted, slipped>>
vars == <<company, member, made, workers, op, granted, slipped>>

-----------------------------------------------------------------------------
(* Types.                                                                  *)

Members  == 1..MaxMembers
NoMember == 0
People   == Users \cup Workers

Roles  == {"OWNER", "MANAGER", "WORKER"}
Status == {"INVITED", "ACTIVE", "SUSPENDED"}

Gone == [user |-> NoUser, role |-> "NONE", status |-> "NONE"]
Row  == [user : People, role : Roles, status : Status] \cup {Gone}

PC == {"idle", "update", "remove", "plain", "serial", "count",
       "invite", "provision", "place", "delete"}

\* by: the requester, until its rights are settled, or the worker placed;
\* manages, owns: what the requester's membership allowed when it was read;
\* on, row: the row to write and what to write, Gone to delete it; seen: the
\* active owners the transaction counts; overtaken: another transaction that
\* counts owners has committed since this one began.
Op == [pc        : PC,
       by        : People \cup {NoUser},
       manages   : BOOLEAN,
       owns      : BOOLEAN,
       on        : Members \cup {NoMember},
       row       : Row,
       seen      : SUBSET Members,
       overtaken : BOOLEAN]

Idle == [pc |-> "idle", by |-> NoUser, manages |-> FALSE, owns |-> FALSE,
         on |-> NoMember, row |-> Gone, seen |-> {}, overtaken |-> FALSE]

TypeOK ==
    /\ company \in {"none", "exists", "deleted"}
    /\ member  \in [Members -> Row]
    /\ made    \in 0..MaxMembers
    /\ workers \subseteq Workers
    /\ op      \in [Procs -> Op]
    /\ granted \subseteq 1..made
    /\ slipped \in BOOLEAN

Init ==
    /\ company = "none"
    /\ member  = [m \in Members |-> Gone]
    /\ made    = 0
    /\ workers = {}
    /\ op      = [p \in Procs |-> Idle]
    /\ granted = {}
    /\ slipped = FALSE

-----------------------------------------------------------------------------
(* The entity's rules.                                                     *)

IsOwner(r)  == r.role = "OWNER"
IsActive(r) == r.status = "ACTIVE"
CanManageMembers(r) == IsActive(r) /\ r.role \in {"OWNER", "MANAGER"}

ActiveOwner(r) == IsOwner(r) /\ IsActive(r)
Present        == {m \in Members : member[m] # Gone}
ActiveOwners   == {m \in Members : ActiveOwner(member[m])}

Goto(p, new) == op' = [op EXCEPT ![p] = new]
End(p)       == Goto(p, Idle)

\* A transaction holds the lock of the row it has written.
Locked(m) == \E p \in Procs : op[p].pc = "count" /\ op[p].on = m

\* Fault: the id of a new row is not a fresh one.
InsertReusingId(r) ==
    /\ made < MaxMembers
    /\ made' = made
    /\ member' = [member EXCEPT ![made + 1] = r]

\* An insert: the id is new, and a user has one row per company.  RowToSpare
\* sees to it that a request that has begun finds the bound not reached.
Insert(r) ==
    /\ made < MaxMembers
    /\ made' = made + 1
    /\ member' = [member EXCEPT ![made + 1] = r]

RowToSpare ==
    made + Cardinality({p \in Procs : op[p].pc \in {"invite", "provision", "place"}})
        < MaxMembers
HasRow(u) == \E m \in Present : member[m].user = u

-----------------------------------------------------------------------------
(* CreateCompanyUseCase: company and first owner in one transaction.       *)

CreateCompany(u) ==
    /\ company = "none" /\ RowToSpare
    /\ company' = "exists"
    /\ Insert([user |-> u, role |-> "OWNER", status |-> "ACTIVE"])
    /\ granted' = granted \cup {made + 1}
    /\ UNCHANGED <<workers, op, slipped>>

(* findByCompanyAndUser: row m is the requester's.                         *)
Ask(p, m, pc) ==
    /\ op[p].pc = "idle"
    /\ m \in Present
    /\ Goto(p, [Idle EXCEPT !.pc = pc, !.by = member[m].user,
                            !.manages = CanManageMembers(member[m]),
                            !.owns    = IsOwner(member[m])])
    /\ UNCHANGED <<company, member, made, workers, history>>

-----------------------------------------------------------------------------
(* UpdateMemberUseCase and RemoveMemberUseCase.                            *)

UpdateAsk(p, m) ==
    /\ CanManageMembers(member[m])
    /\ Ask(p, m, "update")

\* Fault: anyone who manages members may make owners.
MayGrantAny(o, role) == TRUE

MayGrant(o, role) == role = "OWNER" => o.owns

\* The checked write, or the plain one, by what has been read of the target.
Write(p, m, new) ==
    Goto(p, [Idle EXCEPT
        !.owns = op[p].owns,
        !.on   = m,
        !.row  = new,
        !.pc   = IF ActiveOwner(member[m]) /\ ~ActiveOwner(new)
                THEN "serial" ELSE "plain"])

(* findById(target); a role or a status that is not given stays as it is.  *)
UpdateRead(p, m, role, status) ==
    /\ op[p].pc = "update" /\ m \in Present
    /\ role = member[m].role \/ MayGrant(op[p], role)
    /\ Write(p, m, [member[m] EXCEPT !.role = role, !.status = status])
    /\ UNCHANGED <<company, member, made, workers, history>>

RemoveAsk(p, m) == Ask(p, m, "remove")

(* A member may leave; to remove another takes a manager, and to remove an *)
(* owner an owner.                                                         *)
RemoveRead(p, m) ==
    /\ op[p].pc = "remove" /\ m \in Present
    /\ \/ member[m].user = op[p].by
       \/ op[p].manages /\ (IsOwner(member[m]) => op[p].owns)
    /\ Write(p, m, Gone)
    /\ UNCHANGED <<company, member, made, workers, history>>

-----------------------------------------------------------------------------
(* AcceptInvitationUseCase and DeclineInvitationUseCase.                   *)

Answer(p, m, new) ==
    /\ op[p].pc = "idle"
    /\ m \in Present /\ member[m].status = "INVITED"
    /\ Goto(p, [Idle EXCEPT !.pc = "plain", !.by = member[m].user,
                            !.on = m, !.row = new])
    /\ UNCHANGED <<company, member, made, workers, history>>

AcceptInvitation(p, m) == Answer(p, m, [member[m] EXCEPT !.status = "ACTIVE"])
DeclineInvitation(p, m) == Answer(p, m, Gone)

-----------------------------------------------------------------------------
(* The writes.                                                             *)

\* The rows made rows of an owner by an owner who writes the role into m.
Grants(o, m, role) == IF role = "OWNER" /\ o.owns THEN {m} ELSE {}

\* Fault: the writes are upserts.
MissingNever(m) == FALSE

Missing(m) == member[m] = Gone

(* update or delete: the row as it was computed, whatever it holds by now; *)
(* fails when the row is gone, waits for a transaction that has written it.*)
PlainWrite(p) ==
    LET m == op[p].on IN
    /\ op[p].pc = "plain" /\ ~Locked(m)
    /\ IF Missing(m) THEN UNCHANGED <<member, granted, slipped>>
       ELSE /\ member'  = [member EXCEPT ![m] = op[p].row]
            /\ granted' = granted \cup Grants(op[p], m, op[p].row.role)
            /\ slipped' = (slipped \/ (ActiveOwner(member[m])
                                         /\ ~ActiveOwner(op[p].row)))
    /\ End(p)
    /\ UNCHANGED <<company, made, workers>>

(* updateAndCountActiveOwners, deleteAndCountActiveOwners: the first        *)
(* statement takes the snapshot and the lock; it fails when the row is gone *)
SerialWrite(p) ==
    LET m == op[p].on IN
    /\ op[p].pc = "serial" /\ ~Locked(m)
    /\ IF Missing(m) THEN End(p)
       ELSE Goto(p, [op[p] EXCEPT !.pc = "count",
                                  !.seen = ActiveOwners \ {m}])
    /\ UNCHANGED <<company, member, made, workers, history>>

\* Fault: the transaction runs at READ COMMITTED.
OvertakenNever(o) == FALSE

\* Two transactions that each write an owner and count the others cannot be
\* put in an order: PostgreSQL lets the first commit and aborts the second.
Overtaken(o) == o.overtaken

(* The count and the end: without an owner left, or overtaken, the write is *)
(* undone.                                                                  *)
SerialEnd(p) ==
    LET m == op[p].on IN
    /\ op[p].pc = "count"
    /\ IF op[p].seen = {} \/ Overtaken(op[p])
       THEN End(p) /\ UNCHANGED member
       ELSE /\ member' = [member EXCEPT ![m] = op[p].row]
            /\ op' = [q \in Procs |->
                        IF q = p THEN Idle
                        ELSE IF op[q].pc = "count"
                        THEN [op[q] EXCEPT !.overtaken = TRUE] ELSE op[q]]
    /\ UNCHANGED <<company, made, workers, history>>

-----------------------------------------------------------------------------
(* InviteMemberUseCase.                                                    *)

InviteAsk(p, m) ==
    /\ RowToSpare
    /\ CanManageMembers(member[m])
    /\ Ask(p, m, "invite")

(* After the look-up in auth-service: the insert, which fails for a user    *)
(* who has a row (as the check before it does) and for a deleted company.   *)
InviteSave(p, u, role) ==
    /\ op[p].pc = "invite"
    /\ MayGrant(op[p], role)
    /\ IF HasRow(u) \/ company # "exists" THEN UNCHANGED <<member, made, granted>>
       ELSE /\ Insert([user |-> u, role |-> role, status |-> "INVITED"])
            /\ granted' = granted \cup Grants(op[p], made + 1, role)
    /\ End(p)
    /\ UNCHANGED <<company, workers, slipped>>

-----------------------------------------------------------------------------
(* RegisterWorkerUseCase: an account in auth-service, then a membership.   *)

WorkerAsk(p, m) ==
    /\ RowToSpare
    /\ CanManageMembers(member[m])
    /\ Ask(p, m, "provision")

(* POST users/provision.  The answer arrives, or the call times out though *)
(* auth-service has made the account.                                      *)
Provision(p, w) ==
    /\ op[p].pc = "provision" /\ w \in Workers \ workers
    /\ workers' = workers \cup {w}
    /\ End(p) \/ Goto(p, [op[p] EXCEPT !.pc = "place", !.by = w])
    /\ UNCHANGED <<company, member, made, history>>

(* The membership, active at once, in any role but OWNER.  It fails when    *)
(* the company has been deleted; the account stays.                        *)
WorkerSave(p, role) ==
    /\ op[p].pc = "place" /\ role # "OWNER"
    /\ IF company # "exists" THEN UNCHANGED <<member, made>>
       ELSE Insert([user |-> op[p].by, role |-> role, status |-> "ACTIVE"])
    /\ End(p)
    /\ UNCHANGED <<company, workers, history>>

-----------------------------------------------------------------------------
(* DeleteCompanyUseCase.                                                   *)

DeleteAsk(p, m) ==
    /\ ActiveOwner(member[m])
    /\ Ask(p, m, "delete")

(* The memberships go by cascade. *)
DeleteCompany(p) ==
    /\ op[p].pc = "delete"
    /\ \A m \in Members : ~Locked(m)
    /\ company' = "deleted"
    /\ member' = [m \in Members |-> Gone]
    /\ End(p)
    /\ UNCHANGED <<made, workers, history>>

-----------------------------------------------------------------------------

(* A call is refused or the process dies; a transaction is rolled back. *)
Fail(p) ==
    /\ op[p].pc # "idle"
    /\ End(p)
    /\ UNCHANGED <<company, member, made, workers, history>>

Begin(p) == \E m \in Members :
    \/ UpdateAsk(p, m) \/ RemoveAsk(p, m)
    \/ AcceptInvitation(p, m) \/ DeclineInvitation(p, m)
    \/ InviteAsk(p, m) \/ WorkerAsk(p, m) \/ DeleteAsk(p, m)

Step(p) ==
    \/ \E m \in Members, role \in Roles, status \in Status :
          UpdateRead(p, m, role, status)
    \/ \E m \in Members : RemoveRead(p, m)
    \/ PlainWrite(p) \/ SerialWrite(p) \/ SerialEnd(p)
    \/ \E u \in Users, role \in Roles : InviteSave(p, u, role)
    \/ \E w \in Workers : Provision(p, w)
    \/ \E role \in Roles : WorkerSave(p, role)
    \/ DeleteCompany(p)

Next == \/ \E u \in Users : CreateCompany(u)
        \/ \E p \in Procs : Begin(p) \/ Step(p) \/ Fail(p)

Spec == Init /\ [][Next]_vars

-----------------------------------------------------------------------------
(* Properties.                                                             *)

(* Two owners that are degraded or removed at the same time "cannot both    *)
(* slip through": the company keeps an active owner, unless a plain write   *)
(* hit a row that had become an active owner after it was read.             *)
OwnerRemains ==
    company = "exists" => ActiveOwners # {} \/ slipped

(* "An OWNER cannot degrade or remove himself if he is the only OWNER": a   *)
(* company always has an active owner.                                      *)
CompanyHasOwner ==
    company = "exists" => ActiveOwners # {}

(* Every owner was made one by an owner, however the requests interleave,   *)
(* and also when a late whole-row write brings an old role back.            *)
OwnershipGranted ==
    \A m \in Present : IsOwner(member[m]) => m \in granted

(* A member who was removed, or whose invitation was declined, is never     *)
(* brought back by a write that was computed before: a new row is needed.   *)
RemovedStaysOut ==
    [][\A m \in 1..made : member[m] = Gone => member'[m] = Gone]_vars

=============================================================================

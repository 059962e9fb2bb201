----------------------- MODULE CompanyMembershipProofs -----------------------
(***************************************************************************)
(* Theorems about CompanyMembership, for any number of users, members and  *)
(* requests.                                                               *)
(***************************************************************************)
EXTENDS CompanyMembership, TLAPS

USE PeopleDiffer, MaxMembersIsNat

-----------------------------------------------------------------------------
(* Type correctness.  TypeOK is not inductive: that a write hits a row that *)
(* was inserted, and that the worker placed is a person, depends on pc.     *)

Writing == {"plain", "serial", "count"}

\* What a request holds that is about to write.
Aims(o, n) == /\ o.pc \in Writing => o.on \in 1..n
              /\ o.pc = "place" => o.by \in People

TypeInv ==
    /\ TypeOK
    /\ \A m \in Members : m > made => member[m] = Gone
    /\ \A p \in Procs : Aims(op[p], made)

(* A request that does nothing is well typed. *)
LEMMA IdleType == Idle \in Op /\ \A n : Aims(Idle, n)
BY DEF Idle, Op, PC, Row, Aims, Writing, NoMember

(* The rows of a company are typed, and so are the changes made to one. *)
LEMMA RowType ==
    /\ Gone \in Row
    /\ \A r \in Row : r = Gone \/ r \in [user : People, role : Roles, status : Status]
    /\ \A u \in People, r \in Roles, s \in Status :
          [user |-> u, role |-> r, status |-> s] \in Row \ {Gone}
BY DEF Row, Gone, Roles

(* A row that is present was inserted. *)
LEMMA PresentMade ==
    ASSUME TypeInv, NEW m \in Present
    PROVE  /\ m \in 1..made /\ m \in Members /\ made \in Nat
           /\ member[m] \in [user : People, role : Roles, status : Status]
BY DEF TypeInv, TypeOK, Present, Members, Row

(* Insert adds the row made + 1 and leaves the others alone. *)
LEMMA InsertType ==
    ASSUME TypeInv, NEW r \in Row, Insert(r)
    PROVE  /\ member' \in [Members -> Row]
           /\ made' \in 0..MaxMembers
           /\ made' = made + 1 /\ made + 1 \in Members
           /\ member'[made + 1] = r
           /\ \A m \in Members : m # made + 1 => member'[m] = member[m]
           /\ \A m \in Members : m > made' => member'[m] = Gone
BY DEF TypeInv, TypeOK, Insert, Members

(* A request moves on to a well-typed state. *)
LEMMA GotoType ==
    ASSUME TypeInv, NEW p \in Procs, NEW new \in Op, NEW n \in Nat, n >= made,
           Aims(new, n), Goto(p, new)
    PROVE  op' \in [Procs -> Op] /\ \A q \in Procs : Aims(op'[q], n)
BY DEF TypeInv, TypeOK, Goto, Aims

(* The beginning of a request. *)
LEMMA BeginType == ASSUME TypeInv, NEW p \in Procs, Begin(p) PROVE TypeInv'
<1> PICK m \in Members :
      \/ UpdateAsk(p, m) \/ RemoveAsk(p, m)
      \/ AcceptInvitation(p, m) \/ DeclineInvitation(p, m)
      \/ InviteAsk(p, m) \/ WorkerAsk(p, m) \/ DeleteAsk(p, m)
  BY DEF Begin
<1>1. ASSUME NEW pc \in PC \ (Writing \cup {"place"}), Ask(p, m, pc)
      PROVE  TypeInv'
  <2> DEFINE new == [Idle EXCEPT !.pc = pc, !.by = member[m].user,
                                 !.manages = CanManageMembers(member[m]),
                                 !.owns    = IsOwner(member[m])]
  <2>1. member[m].user \in People BY <1>1, PresentMade DEF Ask
  <2>2. new \in Op /\ Aims(new, made)
    BY <2>1, IdleType DEF Op, Idle, Aims, CanManageMembers, IsOwner
  <2> QED BY <1>1, <2>2, GotoType DEF Ask, TypeInv, TypeOK, history
<1>2. ASSUME NEW r \in Row, Answer(p, m, r) PROVE TypeInv'
  <2> DEFINE new == [Idle EXCEPT !.pc = "plain", !.by = member[m].user,
                                 !.on = m, !.row = r]
  <2>1. member[m].user \in People /\ m \in 1..made
    BY <1>2, PresentMade DEF Answer
  <2>2. new \in Op /\ Aims(new, made)
    BY <2>1, IdleType DEF Op, Idle, Aims, PC, Members
  <2> QED BY <1>2, <2>2, GotoType DEF Answer, TypeInv, TypeOK, history
<1>3. CASE AcceptInvitation(p, m)
  <2>1. [member[m] EXCEPT !.status = "ACTIVE"] \in Row
    BY <1>3, PresentMade DEF AcceptInvitation, Answer, Row, Status
  <2> QED BY <1>2, <1>3, <2>1 DEF AcceptInvitation
<1>4. CASE DeclineInvitation(p, m)
  BY <1>2, <1>4, RowType DEF DeclineInvitation
<1> QED BY <1>1, <1>3, <1>4 DEF UpdateAsk, RemoveAsk, InviteAsk, WorkerAsk,
                               DeleteAsk, PC, Writing

(* What UpdateRead and RemoveRead have decided to write. *)
LEMMA WriteType ==
    ASSUME TypeInv, NEW p \in Procs, NEW m \in Present, NEW r \in Row,
           Write(p, m, r), UNCHANGED <<company, member, made, workers, history>>
    PROVE  TypeInv'
<1> DEFINE new == [Idle EXCEPT
        !.owns = op[p].owns, !.on = m, !.row = r,
        !.pc = IF ActiveOwner(member[m]) /\ ~ActiveOwner(r)
               THEN "serial" ELSE "plain"]
<1>1. op[p].owns \in BOOLEAN /\ m \in 1..made
  BY PresentMade DEF TypeInv, TypeOK, Op
<1>2. new \in Op /\ Aims(new, made)
  BY <1>1, IdleType, PresentMade DEF Op, Idle, Aims, PC
<1> QED BY <1>2, GotoType DEF Write, TypeInv, TypeOK, history

LEMMA ReadType ==
    ASSUME TypeInv, NEW p \in Procs, NEW m \in Members,
           \/ RemoveRead(p, m)
           \/ \E role \in Roles, status \in Status : UpdateRead(p, m, role, status)
    PROVE  TypeInv'
<1>1. CASE RemoveRead(p, m)
  BY <1>1, WriteType, RowType DEF RemoveRead
<1>2. ASSUME NEW role \in Roles, NEW status \in Status,
             UpdateRead(p, m, role, status)
      PROVE  TypeInv'
  <2>1. [member[m] EXCEPT !.role = role, !.status = status] \in Row
    BY <1>2, PresentMade DEF UpdateRead, Row
  <2> QED BY <1>2, <2>1, WriteType DEF UpdateRead
<1> QED BY <1>1, <1>2

(* A request ends. *)
LEMMA EndType ==
    ASSUME TypeInv, NEW p \in Procs, End(p), NEW n \in Nat, n >= made
    PROVE  op' \in [Procs -> Op] /\ \A q \in Procs : Aims(op'[q], n)
BY IdleType, GotoType DEF End

(* The writes. *)
LEMMA CommitType ==
    ASSUME TypeInv, NEW p \in Procs,
           PlainWrite(p) \/ SerialWrite(p) \/ SerialEnd(p)
    PROVE  TypeInv'
<1> DEFINE m == op[p].on
<1>0. op[p] \in Op /\ Aims(op[p], made) /\ made \in Nat
  BY DEF TypeInv, TypeOK
<1>1. CASE PlainWrite(p)
  <2>1. op' \in [Procs -> Op] /\ \A q \in Procs : Aims(op'[q], made)
    BY <1>0, <1>1, EndType DEF PlainWrite
  <2>2. m \in 1..made /\ op[p].row \in Row
    BY <1>0, <1>1 DEF PlainWrite, Aims, Writing, Op
  <2>3. member' \in [Members -> Row] /\ \A x \in Members : x > made => member'[x] = Gone
    BY <1>1, <2>2 DEF PlainWrite, TypeInv, TypeOK, Members
  <2>4. granted' \subseteq 1..made /\ slipped' \in BOOLEAN
    BY <1>1, <2>2 DEF PlainWrite, TypeInv, TypeOK, Grants
  <2> QED BY <1>1, <2>1, <2>3, <2>4 DEF PlainWrite, TypeInv, TypeOK
<1>2. CASE SerialWrite(p)
  <2>1. [op[p] EXCEPT !.pc = "count", !.seen = ActiveOwners \ {m}] \in Op
    BY <1>0 DEF Op, PC, ActiveOwners
  <2>2. Aims([op[p] EXCEPT !.pc = "count", !.seen = ActiveOwners \ {m}], made)
    BY <1>0, <1>2 DEF Aims, SerialWrite, Writing, Op
  <2> HIDE DEF m
  <2>3. op' \in [Procs -> Op] /\ \A q \in Procs : Aims(op'[q], made)
    BY <1>0, <1>2, <2>1, <2>2, EndType, GotoType DEF SerialWrite, m
  <2> QED BY <1>2, <2>3 DEF SerialWrite, TypeInv, TypeOK, history
<1>3. CASE SerialEnd(p)
  <2>1. m \in 1..made /\ op[p].row \in Row
    BY <1>0, <1>3 DEF SerialEnd, Aims, Writing, Op
  <2>2. member' \in [Members -> Row] /\ \A x \in Members : x > made => member'[x] = Gone
    BY <1>3, <2>1 DEF SerialEnd, TypeInv, TypeOK, Members
  <2>3. op' \in [Procs -> Op] /\ \A q \in Procs : Aims(op'[q], made)
    <3>1. CASE End(p) BY <1>0, <3>1, EndType
    <3>2. CASE op' = [q \in Procs |->
                        IF q = p THEN Idle
                        ELSE IF op[q].pc = "count"
                        THEN [op[q] EXCEPT !.overtaken = TRUE] ELSE op[q]]
      <4>1. ASSUME NEW q \in Procs
            PROVE  op'[q] \in Op /\ Aims(op'[q], made)
        BY <3>2, IdleType DEF TypeInv, TypeOK, Aims, Op
      <4> QED BY <3>2, <4>1
    <3> QED BY <1>3, <3>1, <3>2 DEF SerialEnd
  <2> QED BY <1>3, <2>2, <2>3 DEF SerialEnd, TypeInv, TypeOK, history
<1> QED BY <1>1, <1>2, <1>3

(* Invitations, workers, the company itself, and failures. *)
LEMMA OtherType ==
    ASSUME TypeInv, NEW p \in Procs,
           \/ \E u \in Users, role \in Roles : InviteSave(p, u, role)
           \/ \E w \in Workers : Provision(p, w)
           \/ \E role \in Roles : WorkerSave(p, role)
           \/ DeleteCompany(p) \/ Fail(p)
    PROVE  TypeInv'
<1>0. op[p] \in Op /\ Aims(op[p], made) /\ made \in Nat /\ made + 1 \in Nat
  BY DEF TypeInv, TypeOK
<1>1. ASSUME NEW n \in Nat, n >= made, End(p)
      PROVE  op' \in [Procs -> Op] /\ \A q \in Procs : Aims(op'[q], n)
  BY <1>1, EndType
<1>2. ASSUME NEW u \in Users, NEW role \in Roles, InviteSave(p, u, role)
      PROVE  TypeInv'
  <2> DEFINE r == [user |-> u, role |-> role, status |-> "INVITED"]
  <2>1. r \in Row BY RowType DEF People, Status
  <2> HIDE DEF r
  <2>2. CASE HasRow(u) \/ company # "exists"
    <3>1. UNCHANGED <<company, member, made, workers, granted, slipped>>
      BY <1>2, <2>2 DEF InviteSave
    <3>2. op' \in [Procs -> Op] /\ \A q \in Procs : Aims(op'[q], made)
      BY <1>0, <1>1, <1>2 DEF InviteSave
    <3> QED BY <3>1, <3>2 DEF TypeInv, TypeOK
  <2>3. CASE ~(HasRow(u) \/ company # "exists")
    <3>1. Insert(r) BY <1>2, <2>3 DEF InviteSave, r
    <3>2. granted' \subseteq 1..made'
      <4>1. granted' = granted \cup Grants(op[p], made + 1, role)
        BY <1>2, <2>3 DEF InviteSave
      <4>2. granted \subseteq 1..made /\ made' = made + 1
        BY <2>1, <3>1, InsertType DEF TypeInv, TypeOK
      <4>3. Grants(op[p], made + 1, role) \subseteq {made + 1} BY DEF Grants
      <4>4. \A x \in 1..made \cup {made + 1} : x \in 1..(made + 1)
        BY <1>0
      <4> QED BY <4>1, <4>2, <4>3, <4>4
    <3>3. op' \in [Procs -> Op] /\ \A q \in Procs : Aims(op'[q], made + 1)
      BY <1>0, <1>1, <1>2 DEF InviteSave
    <3> QED BY <1>2, <2>1, <3>1, <3>2, <3>3, InsertType DEF InviteSave, TypeInv, TypeOK
  <2> QED BY <2>2, <2>3
<1>3. ASSUME NEW w \in Workers, Provision(p, w) PROVE TypeInv'
  <2> DEFINE new == [op[p] EXCEPT !.pc = "place", !.by = w]
  <2>1. new \in Op /\ Aims(new, made)
    BY <1>0 DEF Op, PC, Aims, People, Writing
  <2> HIDE DEF new
  <2>2. End(p) \/ Goto(p, new) BY <1>3 DEF Provision, new
  <2>3. op' \in [Procs -> Op] /\ \A q \in Procs : Aims(op'[q], made)
    BY <1>0, <1>1, <2>1, <2>2, GotoType
  <2> QED BY <1>3, <2>3 DEF Provision, TypeInv, TypeOK, history
<1>4. ASSUME NEW role \in Roles, WorkerSave(p, role) PROVE TypeInv'
  <2> DEFINE r == [user |-> op[p].by, role |-> role, status |-> "ACTIVE"]
  <2>1. r \in Row BY <1>0, <1>4, RowType DEF WorkerSave, Aims, Status
  <2> HIDE DEF r
  <2>2. CASE company # "exists"
    BY <1>0, <1>1, <1>4, <2>2 DEF WorkerSave, TypeInv, TypeOK, history
  <2>3. CASE company = "exists"
    <3>1. Insert(r) BY <1>4, <2>3 DEF WorkerSave, r
    <3>2. op' \in [Procs -> Op] /\ \A q \in Procs : Aims(op'[q], made + 1)
      BY <1>0, <1>1, <1>4 DEF WorkerSave
    <3> QED BY <1>0, <1>4, <2>1, <3>1, <3>2, InsertType
            DEF WorkerSave, TypeInv, TypeOK, history
  <2> QED BY <2>2, <2>3
<1>5. CASE DeleteCompany(p)
  BY <1>0, <1>1, <1>5, RowType DEF DeleteCompany, TypeInv, TypeOK, history
<1>6. CASE Fail(p)
  BY <1>0, <1>1, <1>6 DEF Fail, TypeInv, TypeOK, history
<1> QED BY <1>2, <1>3, <1>4, <1>5, <1>6

LEMMA CreateType ==
    ASSUME TypeInv, NEW u \in Users, CreateCompany(u) PROVE TypeInv'
<1> DEFINE r == [user |-> u, role |-> "OWNER", status |-> "ACTIVE"]
<1>1. r \in Row BY RowType DEF People, Roles, Status
<1> HIDE DEF r
<1>2. Insert(r) BY DEF CreateCompany, r
<1>3. made \in Nat /\ \A p \in Procs : Aims(op[p], made + 1)
  BY DEF TypeInv, TypeOK, Aims
<1> QED BY <1>1, <1>2, <1>3, InsertType DEF CreateCompany, TypeInv, TypeOK

LEMMA TypeInit == Init => TypeInv
<1> SUFFICES ASSUME Init PROVE TypeInv
  OBVIOUS
<1>1. op \in [Procs -> Op] /\ \A p \in Procs : Aims(op[p], made)
  BY IdleType DEF Init
<1>2. member \in [Members -> Row] /\ \A m \in Members : member[m] = Gone
  BY RowType DEF Init
<1>3. made \in 0..MaxMembers /\ granted \subseteq 1..made /\ workers \subseteq Workers
      /\ company \in {"none", "exists", "deleted"}
  BY DEF Init
<1>4. slipped \in BOOLEAN BY Zenon DEF Init
<1> QED BY <1>1, <1>2, <1>3, <1>4 DEF TypeInv, TypeOK

LEMMA TypeStep == TypeInv /\ [Next]_vars => TypeInv'
<1> SUFFICES ASSUME TypeInv, [Next]_vars PROVE TypeInv'
  OBVIOUS
<1>1. CASE UNCHANGED vars
  BY <1>1 DEF vars, TypeInv, TypeOK, Present
<1>2. ASSUME NEW p \in Procs, Step(p) PROVE TypeInv'
  BY <1>2, ReadType, CommitType, OtherType DEF Step
<1> QED BY <1>1, <1>2, BeginType, OtherType, CreateType DEF Next

(* Every variable keeps its type (the rows, the requests and what they are  *)
(* about to write), and TypeInv holds as well.                              *)
THEOREM TypeCorrect == Spec => []TypeOK
<1>1. TypeInv => TypeOK BY DEF TypeInv
<1> QED BY <1>1, TypeInit, TypeStep, PTL DEF Spec

-----------------------------------------------------------------------------
(* Safety.  The invariant says what each request may rely on although rows  *)
(* change between its reads and its write: the row of a transaction cannot  *)
(* go away under it, a write of the role OWNER goes back to an owner, and   *)
(* the owners counted stay owners until another transaction that counts     *)
(* commits or an unchecked write slips in.                                  *)

Others(mem, m) == {x \in Members : x # m /\ ActiveOwner(mem[x])}

OpOk(o, mem, gr, sl) ==
    /\ o.pc = "count" => mem[o.on] # Gone
    /\ o.pc \in {"serial", "count"} => o.on \in gr
    /\ o.pc = "plain" /\ IsOwner(o.row) => o.owns \/ o.on \in gr
    /\ o.pc = "count" /\ ~o.overtaken /\ ~sl => o.seen \subseteq Others(mem, o.on)

\* No two transactions have written the same row.
Apart ==
    \A p, q \in Procs : (p # q /\ op[p].pc = "count" /\ op[q].pc = "count")
                            => op[p].on # op[q].on

SafeInv ==
    /\ \A p \in Procs : OpOk(op[p], member, granted, slipped)
    /\ Apart
    /\ OwnershipGranted
    /\ OwnerRemains

LEMMA GoneIsNoOwner == ~IsOwner(Gone) /\ ~ActiveOwner(Gone)
BY DEF Gone, IsOwner, ActiveOwner

LEMMA IdleOk == \A mem, gr, sl : OpOk(Idle, mem, gr, sl)
BY DEF OpOk, Idle

(* A step that changes nothing but where its request stands, and begins no  *)
(* transaction.                                                             *)
LEMMA GotoSafe ==
    ASSUME TypeInv, SafeInv, NEW p \in Procs, NEW new \in Op, Goto(p, new),
           OpOk(new, member, granted, slipped), new.pc # "count",
           UNCHANGED <<company, member, granted, slipped>>
    PROVE  SafeInv'
<1>1. \A q \in Procs : op'[q] = IF q = p THEN new ELSE op[q]
  BY DEF Goto, TypeInv, TypeOK
<1>2. \A q \in Procs : OpOk(op'[q], member, granted, slipped)
  BY <1>1 DEF SafeInv
<1>3. Apart' BY <1>1 DEF SafeInv, Apart
<1> QED BY <1>2, <1>3 DEF SafeInv, OwnershipGranted, OwnerRemains, Present, ActiveOwners

LEMMA EndSafe ==
    ASSUME TypeInv, SafeInv, NEW p \in Procs, End(p),
           UNCHANGED <<company, member, granted, slipped>>
    PROVE  SafeInv'
BY GotoSafe, IdleOk, IdleType DEF End, Idle

(* A row is inserted by a request that ends. *)
LEMMA InsertSafe ==
    ASSUME TypeInv, SafeInv, NEW r \in Row, r # Gone, Insert(r),
           op' = op \/ \E p \in Procs : End(p),
           granted \subseteq granted', IsOwner(r) => made + 1 \in granted',
           UNCHANGED slipped,
           company' = company \/ ActiveOwner(r)
    PROVE  SafeInv'
<1>1. \A q \in Procs : op'[q] = op[q] \/ op'[q] = Idle
  BY DEF End, Goto, TypeInv, TypeOK
<1>2. /\ member'[made + 1] = r /\ made + 1 \in Members
      /\ \A m \in Members : m # made + 1 => member'[m] = member[m]
      /\ member[made + 1] = Gone
  <2>1. made + 1 > made BY DEF TypeInv, TypeOK
  <2> QED BY <2>1, InsertType DEF TypeInv
<1>3. ASSUME NEW q \in Procs PROVE OpOk(op[q], member', granted', slipped')
  <2>1. op[q].pc = "count" => op[q].on \in 1..made /\ op[q].on \in Members
    BY DEF TypeInv, TypeOK, Aims, Writing, Members
  <2>2. op[q].pc = "count" => member'[op[q].on] # Gone
    BY <1>2, <2>1 DEF SafeInv, OpOk
  <2>3. Others(member, op[q].on) \subseteq Others(member', op[q].on)
    BY <1>2, GoneIsNoOwner DEF Others
  <2> QED BY <2>2, <2>3 DEF SafeInv, OpOk
<1>4. \A q \in Procs : OpOk(op'[q], member', granted', slipped')
  BY <1>1, <1>3, IdleOk
<1>5. Apart' BY <1>1 DEF SafeInv, Apart, Idle
<1>6. OwnershipGranted' BY <1>2 DEF SafeInv, OwnershipGranted, Present
<1>7. OwnerRemains'
  BY <1>2, GoneIsNoOwner DEF SafeInv, OwnerRemains, ActiveOwners
<1> QED BY <1>4, <1>5, <1>6, <1>7 DEF SafeInv

LEMMA BeginSafe ==
    ASSUME TypeInv, SafeInv, NEW p \in Procs, Begin(p) PROVE SafeInv'
<1> PICK m \in Members :
      \/ UpdateAsk(p, m) \/ RemoveAsk(p, m)
      \/ AcceptInvitation(p, m) \/ DeclineInvitation(p, m)
      \/ InviteAsk(p, m) \/ WorkerAsk(p, m) \/ DeleteAsk(p, m)
  BY DEF Begin
<1>1. ASSUME NEW pc \in PC \ (Writing \cup {"place"}), Ask(p, m, pc)
      PROVE  SafeInv'
  <2> DEFINE new == [Idle EXCEPT !.pc = pc, !.by = member[m].user,
                                 !.manages = CanManageMembers(member[m]),
                                 !.owns    = IsOwner(member[m])]
  <2>1. member[m].user \in People BY <1>1, PresentMade DEF Ask
  <2>2. new \in Op /\ new.pc = pc
    BY <2>1, IdleType DEF Op, Idle, CanManageMembers, IsOwner
  <2>3. OpOk(new, member, granted, slipped) BY <2>2 DEF OpOk, Writing
  <2> HIDE DEF new
  <2> QED BY <1>1, <2>2, <2>3, GotoSafe DEF Ask, history, new, Writing
<1>2. ASSUME NEW r \in Row, IsOwner(r) => IsOwner(member[m]), Answer(p, m, r)
      PROVE  SafeInv'
  <2> DEFINE new == [Idle EXCEPT !.pc = "plain", !.by = member[m].user,
                                 !.on = m, !.row = r]
  <2>1. member[m].user \in People /\ m \in Present
    BY <1>2, PresentMade DEF Answer
  <2>2. new \in Op /\ new.pc = "plain" /\ new.on = m /\ new.row = r
    BY <2>1, IdleType DEF Op, Idle, PC
  <2>3. OpOk(new, member, granted, slipped)
    BY <1>2, <2>1, <2>2 DEF OpOk, SafeInv, OwnershipGranted
  <2> HIDE DEF new
  <2> QED BY <1>2, <2>2, <2>3, GotoSafe DEF Answer, history, new
<1>3. CASE AcceptInvitation(p, m)
  <2>1. /\ [member[m] EXCEPT !.status = "ACTIVE"] \in Row
        /\ [member[m] EXCEPT !.status = "ACTIVE"].role = member[m].role
    BY <1>3, PresentMade DEF AcceptInvitation, Answer, Row, Status
  <2> QED BY <1>2, <1>3, <2>1 DEF AcceptInvitation, IsOwner
<1>4. CASE DeclineInvitation(p, m)
  BY <1>2, <1>4, RowType, GoneIsNoOwner DEF DeclineInvitation
<1> QED BY <1>1, <1>3, <1>4 DEF UpdateAsk, RemoveAsk, InviteAsk, WorkerAsk,
                               DeleteAsk, PC, Writing

LEMMA ReadSafe ==
    ASSUME TypeInv, SafeInv, NEW p \in Procs, NEW m \in Members,
           \/ RemoveRead(p, m)
           \/ \E role \in Roles, status \in Status : UpdateRead(p, m, role, status)
    PROVE  SafeInv'
<1>1. ASSUME m \in Present, NEW r \in Row, Write(p, m, r),
             IsOwner(r) => IsOwner(member[m]) \/ op[p].owns,
             UNCHANGED <<company, member, made, workers, history>>
      PROVE  SafeInv'
  <2> DEFINE new == [Idle EXCEPT
          !.owns = op[p].owns, !.on = m, !.row = r,
          !.pc = IF ActiveOwner(member[m]) /\ ~ActiveOwner(r)
                 THEN "serial" ELSE "plain"]
  <2>1. op[p].owns \in BOOLEAN BY DEF TypeInv, TypeOK, Op
  <2>2. /\ new \in Op /\ new.on = m /\ new.row = r /\ new.owns = op[p].owns
        /\ new.pc = "plain" \/ (new.pc = "serial" /\ ActiveOwner(member[m]))
    BY <2>1, IdleType DEF Op, Idle, PC
  <2>3. OpOk(new, member, granted, slipped)
    BY <1>1, <2>2 DEF OpOk, SafeInv, OwnershipGranted, ActiveOwner
  <2> HIDE DEF new
  <2> QED BY <1>1, <2>2, <2>3, GotoSafe DEF Write, history, new
<1>2. CASE RemoveRead(p, m)
  BY <1>1, <1>2, RowType, GoneIsNoOwner DEF RemoveRead
<1>3. ASSUME NEW role \in Roles, NEW status \in Status,
             UpdateRead(p, m, role, status)
      PROVE  SafeInv'
  <2> DEFINE r == [member[m] EXCEPT !.role = role, !.status = status]
  <2>1. r \in Row /\ r.role = role BY <1>3, PresentMade DEF UpdateRead, Row
  <2>2. IsOwner(r) => IsOwner(member[m]) \/ op[p].owns
    BY <1>3, <2>1 DEF UpdateRead, MayGrant, IsOwner
  <2> HIDE DEF r
  <2> QED BY <1>1, <1>3, <2>1, <2>2 DEF UpdateRead, r
<1> QED BY <1>2, <1>3

(* A plain write never hits the row of a transaction, and says so when it   *)
(* takes an owner away.                                                     *)
LEMMA PlainSafe ==
    ASSUME TypeInv, SafeInv, NEW p \in Procs, PlainWrite(p) PROVE SafeInv'
<1> DEFINE m == op[p].on
<1>0. m \in 1..made /\ m \in Members /\ op[p].pc = "plain"
  BY DEF PlainWrite, TypeInv, TypeOK, Aims, Writing, Members
<1>1. CASE Missing(m)
  BY <1>1, EndSafe DEF PlainWrite
<1>2. CASE ~Missing(m)
  <2>0. /\ member' = [member EXCEPT ![m] = op[p].row]
        /\ granted' = granted \cup Grants(op[p], m, op[p].row.role)
        /\ slipped' = (slipped \/ (ActiveOwner(member[m])
                                     /\ ~ActiveOwner(op[p].row)))
        /\ company' = company
    BY <1>2 DEF PlainWrite
  <2>1. \A q \in Procs : op'[q] = IF q = p THEN Idle ELSE op[q]
    BY DEF PlainWrite, End, Goto, TypeInv, TypeOK
  <2>2. /\ member'[m] = op[p].row
        /\ \A x \in Members : x # m => member'[x] = member[x]
    BY <1>0, <2>0 DEF TypeInv, TypeOK
  <2>3. ~slipped' => (ActiveOwner(member[m]) => ActiveOwner(member'[m]))
    BY <2>0, <2>2
  <2>4. ASSUME NEW q \in Procs, q # p PROVE OpOk(op[q], member', granted', slipped')
    <3>1. op[q].pc = "count" => op[q].on # m
      BY <1>0 DEF PlainWrite, Locked
    <3>2. op[q].pc = "count" => op[q].on \in Members
      BY DEF TypeInv, TypeOK, Aims, Writing, Members
    <3>3. op[q].pc = "count" => member'[op[q].on] # Gone
      BY <2>2, <3>1, <3>2 DEF SafeInv, OpOk
    <3>4. ~slipped' => Others(member, op[q].on) \subseteq Others(member', op[q].on)
      BY <2>2, <2>3 DEF Others
    <3>5. ~slipped' => ~slipped BY <2>0
    <3> QED BY <2>0, <3>3, <3>4, <3>5 DEF SafeInv, OpOk
  <2>5. \A q \in Procs : OpOk(op'[q], member', granted', slipped')
    BY <2>1, <2>4, IdleOk
  <2>6. Apart' BY <2>1 DEF SafeInv, Apart, Idle
  <2>7. OwnershipGranted'
    <3>1. IsOwner(op[p].row) => m \in granted'
      BY <1>0, <2>0 DEF SafeInv, OpOk, Grants, IsOwner
    <3> QED BY <2>0, <2>2, <3>1 DEF SafeInv, OwnershipGranted, Present
  <2>8. OwnerRemains'
    BY <1>0, <2>0, <2>2, <2>3 DEF SafeInv, OwnerRemains, ActiveOwners
  <2> QED BY <2>5, <2>6, <2>7, <2>8 DEF SafeInv
<1> QED BY <1>1, <1>2

(* A transaction begins: its row is there and nobody else's.                *)
LEMMA SerialWriteSafe ==
    ASSUME TypeInv, SafeInv, NEW p \in Procs, SerialWrite(p) PROVE SafeInv'
<1> DEFINE m == op[p].on
           new == [op[p] EXCEPT !.pc = "count", !.seen = ActiveOwners \ {m}]
<1>0. /\ m \in Members /\ op[p].pc = "serial" /\ op[p] \in Op
      /\ UNCHANGED <<company, member, granted, slipped>>
  BY DEF SerialWrite, TypeInv, TypeOK, Aims, Writing, Members, history
<1>1. CASE Missing(m)
  BY <1>0, <1>1, EndSafe DEF SerialWrite
<1>2. CASE ~Missing(m)
  <2>1. new.pc = "count" /\ new.on = m /\ new.seen = ActiveOwners \ {m}
    BY <1>0 DEF Op
  <2>2. OpOk(new, member, granted, slipped)
    BY <1>0, <1>2, <2>1 DEF OpOk, SafeInv, Missing, Others, ActiveOwners
  <2>3. Goto(p, new) BY <1>2 DEF SerialWrite
  <2>4. \A q \in Procs : q # p /\ op[q].pc = "count" => op[q].on # m
    BY DEF SerialWrite, Locked
  <2> HIDE DEF new, m
  <2>5. \A q \in Procs : op'[q] = IF q = p THEN new ELSE op[q]
    BY <2>3 DEF Goto, TypeInv, TypeOK
  <2>6. \A q \in Procs : OpOk(op'[q], member, granted, slipped)
    BY <2>2, <2>5 DEF SafeInv
  <2>7. Apart' BY <2>1, <2>4, <2>5 DEF SafeInv, Apart
  <2> QED BY <1>0, <2>6, <2>7
          DEF SafeInv, OwnershipGranted, OwnerRemains, Present, ActiveOwners
<1> QED BY <1>1, <1>2

(* A transaction commits: an owner it has counted is still there, or it was *)
(* overtaken and is rolled back, or an unchecked write has slipped in.      *)
LEMMA SerialEndSafe ==
    ASSUME TypeInv, SafeInv, NEW p \in Procs, SerialEnd(p) PROVE SafeInv'
<1> DEFINE m == op[p].on
<1>0. /\ m \in Members /\ op[p].pc = "count"
      /\ UNCHANGED <<company, granted, slipped>>
  BY DEF SerialEnd, TypeInv, TypeOK, Aims, Writing, Members, history
<1>1. CASE op[p].seen = {} \/ Overtaken(op[p])
  BY <1>0, <1>1, EndSafe DEF SerialEnd
<1>2. CASE ~(op[p].seen = {} \/ Overtaken(op[p]))
  <2>0. /\ member' = [member EXCEPT ![m] = op[p].row]
        /\ op' = [q \in Procs |->
                    IF q = p THEN Idle
                    ELSE IF op[q].pc = "count"
                    THEN [op[q] EXCEPT !.overtaken = TRUE] ELSE op[q]]
    BY <1>2 DEF SerialEnd
  <2>1. /\ op'[p] = Idle
        /\ \A q \in Procs : q # p => op'[q] = IF op[q].pc = "count"
                 THEN [op[q] EXCEPT !.overtaken = TRUE] ELSE op[q]
    BY <2>0
  <2>2. /\ member'[m] = op[p].row
        /\ \A x \in Members : x # m => member'[x] = member[x]
    BY <1>0, <2>0 DEF TypeInv, TypeOK
  <2>3. ASSUME NEW q \in Procs, q # p
        PROVE  OpOk(op'[q], member', granted, slipped)
    <3>1. CASE op[q].pc # "count"
      BY <2>1, <2>3, <3>1 DEF SafeInv, OpOk
    <3>2. CASE op[q].pc = "count"
      <4>1. op[q].on # m /\ op[q].on \in Members
        BY <1>0, <2>3, <3>2 DEF SafeInv, Apart, TypeInv, TypeOK, Aims, Writing, Members
      <4>2. op'[q] = [op[q] EXCEPT !.overtaken = TRUE]
        BY <2>1, <2>3, <3>2
      <4>3. op'[q].overtaken /\ op'[q].on = op[q].on /\ op'[q].pc = "count"
        BY <3>2, <4>2 DEF TypeInv, TypeOK, Op
      <4>4. member'[op[q].on] # Gone /\ op[q].on \in granted
        BY <2>2, <3>2, <4>1 DEF SafeInv, OpOk
      <4> QED BY <4>3, <4>4 DEF OpOk
    <3> QED BY <3>1, <3>2
  <2>4. \A q \in Procs : OpOk(op'[q], member', granted', slipped')
    BY <1>0, <2>1, <2>3, IdleOk
  <2>5. Apart'
    <3>1. ASSUME NEW q \in Procs, op'[q].pc = "count"
          PROVE  q # p /\ op[q].pc = "count" /\ op'[q].on = op[q].on
      <4>1. q # p BY <2>1, <3>1 DEF Idle
      <4>2. op[q].pc = "count" BY <2>1, <3>1, <4>1
      <4>3. op'[q] = [op[q] EXCEPT !.overtaken = TRUE] BY <2>1, <4>1, <4>2
      <4>4. op[q] \in Op BY DEF TypeInv, TypeOK
      <4> QED BY <4>1, <4>2, <4>3, <4>4 DEF Op
    <3> QED BY <3>1 DEF SafeInv, Apart
  <2>6. OwnershipGranted'
    BY <1>0, <2>2 DEF SafeInv, OwnershipGranted, Present, OpOk
  <2>7. OwnerRemains'
    <3>1. ASSUME ~slipped PROVE ActiveOwners' # {}
      <4>1. PICK x \in op[p].seen : TRUE BY <1>2
      <4>2. x \in Others(member, m)
        BY <1>0, <1>2, <3>1, <4>1 DEF SafeInv, OpOk, Overtaken
      <4> QED BY <2>2, <4>2 DEF Others, ActiveOwners
    <3> QED BY <1>0, <3>1 DEF OwnerRemains
  <2> QED BY <2>4, <2>5, <2>6, <2>7 DEF SafeInv
<1> QED BY <1>1, <1>2

LEMMA OtherSafe ==
    ASSUME TypeInv, SafeInv, NEW p \in Procs,
           \/ \E u \in Users, role \in Roles : InviteSave(p, u, role)
           \/ \E w \in Workers : Provision(p, w)
           \/ \E role \in Roles : WorkerSave(p, role)
           \/ DeleteCompany(p) \/ Fail(p)
    PROVE  SafeInv'
<1>0. op[p] \in Op /\ Aims(op[p], made) BY DEF TypeInv, TypeOK
<1>1. ASSUME NEW u \in Users, NEW role \in Roles, InviteSave(p, u, role)
      PROVE  SafeInv'
  <2> DEFINE r == [user |-> u, role |-> role, status |-> "INVITED"]
  <2>1. r \in Row /\ r # Gone /\ r.role = role BY RowType DEF People, Status
  <2> HIDE DEF r
  <2>2. CASE HasRow(u) \/ company # "exists"
    BY <1>1, <2>2, EndSafe DEF InviteSave
  <2>3. CASE ~(HasRow(u) \/ company # "exists")
    <3>1. /\ Insert(r) /\ End(p) /\ company' = company /\ slipped' = slipped
          /\ granted' = granted \cup Grants(op[p], made + 1, role)
      BY <1>1, <2>3 DEF InviteSave, r
    <3>2. IsOwner(r) => made + 1 \in granted'
      BY <1>1, <2>1, <3>1 DEF InviteSave, MayGrant, Grants, IsOwner
    <3> QED BY <2>1, <3>1, <3>2, InsertSafe
  <2> QED BY <2>2, <2>3
<1>2. ASSUME NEW w \in Workers, Provision(p, w) PROVE SafeInv'
  <2> DEFINE new == [op[p] EXCEPT !.pc = "place", !.by = w]
  <2>1. new \in Op /\ new.pc = "place"
    BY <1>0 DEF Op, PC, People
  <2> HIDE DEF new
  <2>2. End(p) \/ Goto(p, new) BY <1>2 DEF Provision, new
  <2>3. OpOk(new, member, granted, slipped) BY <2>1 DEF OpOk
  <2> QED BY <1>2, <2>1, <2>2, <2>3, EndSafe, GotoSafe DEF Provision, history
<1>3. ASSUME NEW role \in Roles, WorkerSave(p, role) PROVE SafeInv'
  <2> DEFINE r == [user |-> op[p].by, role |-> role, status |-> "ACTIVE"]
  <2>1. r \in Row /\ r # Gone /\ r.role = role
    BY <1>0, <1>3, RowType DEF WorkerSave, Aims, Status
  <2> HIDE DEF r
  <2>2. CASE company # "exists"
    BY <1>3, <2>2, EndSafe DEF WorkerSave, history
  <2>3. CASE company = "exists"
    <3>1. /\ Insert(r) /\ End(p) /\ company' = company
          /\ slipped' = slipped /\ granted' = granted
      BY <1>3, <2>3 DEF WorkerSave, r, history
    <3>2. ~IsOwner(r) BY <1>3, <2>1 DEF WorkerSave, IsOwner
    <3> QED BY <2>1, <3>1, <3>2, InsertSafe
  <2> QED BY <2>2, <2>3
<1>4. CASE DeleteCompany(p)
  <2>1. \A q \in Procs : op'[q] = IF q = p THEN Idle ELSE op[q]
    BY <1>4 DEF DeleteCompany, End, Goto, TypeInv, TypeOK
  <2>2. \A q \in Procs : op[q].pc # "count"
    BY <1>4 DEF DeleteCompany, Locked, TypeInv, TypeOK, Aims, Writing, Members
  <2>3. \A q \in Procs : OpOk(op'[q], member', granted', slipped')
    BY <1>4, <2>1, <2>2, IdleOk DEF SafeInv, OpOk, DeleteCompany, history
  <2>4. Apart' BY <2>1, <2>2 DEF Apart, Idle
  <2>5. OwnershipGranted' /\ OwnerRemains'
    BY <1>4 DEF DeleteCompany, OwnershipGranted, OwnerRemains, Present
  <2> QED BY <2>3, <2>4, <2>5 DEF SafeInv
<1>5. CASE Fail(p)
  BY <1>5, EndSafe DEF Fail, history
<1> QED BY <1>1, <1>2, <1>3, <1>4, <1>5

LEMMA CreateSafe ==
    ASSUME TypeInv, SafeInv, NEW u \in Users, CreateCompany(u) PROVE SafeInv'
<1> DEFINE r == [user |-> u, role |-> "OWNER", status |-> "ACTIVE"]
<1>1. r \in Row /\ r # Gone /\ ActiveOwner(r)
  BY RowType DEF People, Roles, Status, ActiveOwner, IsOwner, IsActive
<1> HIDE DEF r
<1> QED BY <1>1, InsertSafe DEF CreateCompany, r

LEMMA SafeInit == Init => SafeInv
<1> SUFFICES ASSUME Init PROVE SafeInv
  OBVIOUS
<1>1. \A p \in Procs : op[p] = Idle BY DEF Init
<1>2. Apart BY <1>1 DEF Apart, Idle
<1>3. OwnershipGranted /\ OwnerRemains
  BY DEF Init, OwnershipGranted, OwnerRemains, Present
<1> QED BY <1>1, <1>2, <1>3, IdleOk DEF SafeInv

LEMMA SafeStep == TypeInv /\ SafeInv /\ [Next]_vars => SafeInv'
<1> SUFFICES ASSUME TypeInv, SafeInv, [Next]_vars PROVE SafeInv'
  OBVIOUS
<1>1. CASE UNCHANGED vars
  BY <1>1 DEF vars, SafeInv, Apart, OwnershipGranted, OwnerRemains, Present, ActiveOwners
<1>2. ASSUME NEW p \in Procs, Step(p) PROVE SafeInv'
  BY <1>2, ReadSafe, PlainSafe, SerialWriteSafe, SerialEndSafe, OtherSafe DEF Step
<1> QED BY <1>1, <1>2, BeginSafe, OtherSafe, CreateSafe DEF Next

LEMMA Inductive == Spec => [](TypeInv /\ SafeInv)
BY TypeInit, TypeStep, SafeInit, SafeStep, PTL DEF Spec

(* However many owners are degraded or removed at once, the company keeps   *)
(* one, as long as no write outside the counting transactions took an       *)
(* active owner away.                                                       *)
THEOREM AnOwnerRemains == Spec => []OwnerRemains
<1>1. SafeInv => OwnerRemains BY DEF SafeInv
<1> QED BY <1>1, Inductive, PTL

(* The role OWNER is only ever held by a row that an owner gave it to.      *)
THEOREM OwnersAreMadeByOwners == Spec => []OwnershipGranted
<1>1. SafeInv => OwnershipGranted BY DEF SafeInv
<1> QED BY <1>1, Inductive, PTL

(* No late write brings a removed member back.                              *)
THEOREM RemovedForGood == Spec => RemovedStaysOut
<1>1. ASSUME TypeInv, SafeInv, [Next]_vars, NEW m \in 1..made, member[m] = Gone
      PROVE  member'[m] = Gone
  <2>0. m \in Members /\ m # made + 1 BY <1>1 DEF TypeInv, TypeOK, Members
  <2>1. ASSUME NEW r, Insert(r) PROVE member'[m] = Gone
    BY <1>1, <2>0, <2>1 DEF Insert, TypeInv, TypeOK
  <2>2. ASSUME NEW p \in Procs, PlainWrite(p) PROVE member'[m] = Gone
    BY <1>1, <2>0, <2>2 DEF PlainWrite, Missing, TypeInv, TypeOK
  <2>3. ASSUME NEW p \in Procs, SerialEnd(p) PROVE member'[m] = Gone
    <3>1. op[p].on # m BY <1>1, <2>3 DEF SafeInv, OpOk, SerialEnd
    <3> QED BY <1>1, <2>0, <2>3, <3>1 DEF SerialEnd, TypeInv, TypeOK
  <2>4. ASSUME NEW p \in Procs, DeleteCompany(p) PROVE member'[m] = Gone
    BY <2>0, <2>4 DEF DeleteCompany
  <2>5. ASSUME NEW p \in Procs, NEW u \in Users, NEW role \in Roles,
               InviteSave(p, u, role)
        PROVE  member'[m] = Gone
    BY <1>1, <2>1, <2>5 DEF InviteSave
  <2>6. ASSUME NEW p \in Procs, NEW role \in Roles, WorkerSave(p, role)
        PROVE  member'[m] = Gone
    BY <1>1, <2>1, <2>6 DEF WorkerSave
  <2>7. ASSUME NEW p \in Procs, Begin(p) PROVE member' = member
    BY <2>7 DEF Begin, UpdateAsk, RemoveAsk, AcceptInvitation, DeclineInvitation,
                InviteAsk, WorkerAsk, DeleteAsk, Ask, Answer
  <2>8. ASSUME NEW p \in Procs, Step(p) PROVE member'[m] = Gone
    BY <1>1, <2>2, <2>3, <2>4, <2>5, <2>6, <2>8
       DEF Step, UpdateRead, RemoveRead, SerialWrite, Provision
  <2> QED BY <1>1, <2>1, <2>7, <2>8 DEF Next, CreateCompany, Fail, vars
<1>2. TypeInv /\ SafeInv /\ [Next]_vars =>
          [\A m \in 1..made : member[m] = Gone => member'[m] = Gone]_vars
  BY <1>1
<1> QED BY <1>2, Inductive, PTL DEF Spec, RemovedStaysOut

-----------------------------------------------------------------------------
(* Whose rows they are.  A row is written as a whole, from a copy read      *)
(* earlier, and the account of a worker is made by another service before   *)
(* the row is inserted; still every row stays with its user.                *)

NoMemberLeft == company # "exists" => Present = {}
OneRowEach   == \A m, n \in Present : member[m].user = member[n].user => m = n
UserKept     == \A m \in Present : m \in Present' => member'[m].user = member[m].user

\* What a request writes is about the user whose row it is, and a worker who
\* is being placed has no row yet.
Knows(o, mem, w) ==
    /\ o.pc \in Writing /\ o.row # Gone /\ mem[o.on] # Gone
          => o.row.user = mem[o.on].user
    /\ o.pc = "place" => /\ o.by \in w
                         /\ \A m \in Members : mem[m] # Gone => mem[m].user # o.by

\* No two requests place the same worker.
PlacedOnce ==
    \A p, q \in Procs : (p # q /\ op[p].pc = "place" /\ op[q].pc = "place")
                            => op[p].by # op[q].by

PeopleInv ==
    /\ NoMemberLeft
    /\ OneRowEach
    /\ \A m \in Present : member[m].user \in Users \cup workers
    /\ \A p \in Procs : Knows(op[p], member, workers)
    /\ PlacedOnce

PeopleStep == PeopleInv' /\ UserKept

(* A step that inserts no row, in which only p moves on. *)
LEMMA KeptPeople ==
    ASSUME TypeInv, PeopleInv, workers \subseteq workers',
           \A m \in Members : \/ member'[m] = Gone
                              \/ /\ member[m] # Gone
                                 /\ member'[m].user = member[m].user,
           company' # "exists" => company' = company \/ Present' = {},
           NEW p \in Procs,
           \A q \in Procs : q # p => /\ op'[q].pc = op[q].pc
                                     /\ op'[q].by = op[q].by
                                     /\ op'[q].on = op[q].on
                                     /\ op'[q].row = op[q].row,
           Knows(op'[p], member', workers'),
           op'[p].pc = "place" =>
               \A q \in Procs : op[q].pc = "place" => op[q].by # op'[p].by
    PROVE  PeopleStep
<1>1. \A m \in Present' : m \in Present /\ member'[m].user = member[m].user
  BY DEF Present
<1>2. NoMemberLeft' BY <1>1 DEF PeopleInv, NoMemberLeft
<1>3. OneRowEach' BY <1>1 DEF PeopleInv, OneRowEach
<1>4. \A m \in Present' : member'[m].user \in Users \cup workers'
  BY <1>1 DEF PeopleInv
<1>5. ASSUME NEW q \in Procs, q # p PROVE Knows(op'[q], member', workers')
  <2>1. Knows(op[q], member, workers) BY DEF PeopleInv
  <2>2. op[q].pc \in Writing => op[q].on \in Members
    BY DEF TypeInv, TypeOK, Aims, Members
  <2> QED BY <1>5, <2>1, <2>2 DEF Knows
<1>6. PlacedOnce' BY DEF PeopleInv, PlacedOnce
<1> QED BY <1>1, <1>2, <1>3, <1>4, <1>5, <1>6 DEF PeopleInv, PeopleStep, UserKept

(* A step that changes nothing but where its request stands. *)
LEMMA GotoPeople ==
    ASSUME TypeInv, PeopleInv, NEW p \in Procs, NEW new, Goto(p, new),
           Knows(new, member, workers), new.pc # "place",
           UNCHANGED <<company, member, workers>>
    PROVE  PeopleStep
<1>1. \A q \in Procs : op'[q] = IF q = p THEN new ELSE op[q]
  BY DEF Goto, TypeInv, TypeOK
<1> QED BY <1>1, KeptPeople

LEMMA IdleKnows == \A mem, w : Knows(Idle, mem, w) /\ Idle.pc # "place"
BY DEF Knows, Idle, Writing

LEMMA EndPeople ==
    ASSUME TypeInv, PeopleInv, NEW p \in Procs, End(p),
           UNCHANGED <<company, member, workers>>
    PROVE  PeopleStep
BY GotoPeople, IdleKnows DEF End

(* A row is inserted for somebody who has none, and nobody else is placing. *)
LEMMA InsertPeople ==
    ASSUME TypeInv, PeopleInv, NEW r \in Row, r # Gone, Insert(r),
           r.user \in Users \cup workers, workers' = workers, company' = "exists",
           \A m \in Present : member[m].user # r.user,
           \A q \in Procs : op'[q] = op[q] \/ op'[q] = Idle,
           \A q \in Procs : op'[q].pc = "place" => op'[q].by # r.user
    PROVE  PeopleStep
<1>1. /\ member'[made + 1] = r /\ made + 1 \in Members
      /\ \A m \in Members : m # made + 1 => member'[m] = member[m]
      /\ member[made + 1] = Gone
  <2>1. made + 1 > made BY DEF TypeInv, TypeOK
  <2> QED BY <2>1, InsertType DEF TypeInv
<1>2. \A m \in Present' : m = made + 1 \/ (m \in Present /\ member'[m] = member[m])
  BY <1>1 DEF Present
<1>3. UserKept BY <1>1, <1>2 DEF UserKept, Present
<1>4. OneRowEach' BY <1>1, <1>2 DEF PeopleInv, OneRowEach
<1>5. \A m \in Present' : member'[m].user \in Users \cup workers'
  BY <1>1, <1>2 DEF PeopleInv
<1>6. ASSUME NEW q \in Procs PROVE Knows(op'[q], member', workers')
  <2>1. CASE op'[q] = Idle BY <2>1, IdleKnows
  <2>2. CASE op'[q] = op[q]
    <3>1. Knows(op[q], member, workers) BY DEF PeopleInv
    <3>2. op[q].pc \in Writing => op[q].on \in Members /\ op[q].on # made + 1
      BY DEF TypeInv, TypeOK, Aims, Members
    <3> QED BY <1>1, <2>2, <3>1, <3>2 DEF Knows
  <2> QED BY <2>1, <2>2
<1>7. PlacedOnce' BY DEF PeopleInv, PlacedOnce, Idle
<1>8. NoMemberLeft' BY DEF NoMemberLeft
<1> QED BY <1>3, <1>4, <1>5, <1>6, <1>7, <1>8 DEF PeopleInv, PeopleStep

LEMMA BeginPeople ==
    ASSUME TypeInv, PeopleInv, NEW p \in Procs, Begin(p) PROVE PeopleStep
<1> PICK m \in Members :
      \/ UpdateAsk(p, m) \/ RemoveAsk(p, m)
      \/ AcceptInvitation(p, m) \/ DeclineInvitation(p, m)
      \/ InviteAsk(p, m) \/ WorkerAsk(p, m) \/ DeleteAsk(p, m)
  BY DEF Begin
<1>1. ASSUME NEW pc, pc \notin Writing \cup {"place"}, Ask(p, m, pc)
      PROVE  PeopleStep
  <2> DEFINE new == [Idle EXCEPT !.pc = pc, !.by = member[m].user,
                                 !.manages = CanManageMembers(member[m]),
                                 !.owns    = IsOwner(member[m])]
  <2>1. new.pc = pc BY DEF Idle
  <2>2. Goto(p, new) /\ UNCHANGED <<company, member, workers>> BY <1>1 DEF Ask
  <2> HIDE DEF new
  <2> QED BY <1>1, <2>1, <2>2, GotoPeople DEF Knows
<1>2. ASSUME NEW row, row = Gone \/ row.user = member[m].user, Answer(p, m, row)
      PROVE  PeopleStep
  <2> DEFINE new == [Idle EXCEPT !.pc = "plain", !.by = member[m].user,
                                 !.on = m, !.row = row]
  <2>1. new.pc = "plain" /\ new.on = m /\ new.row = row BY DEF Idle
  <2>2. Goto(p, new) /\ UNCHANGED <<company, member, workers>> BY <1>2 DEF Answer
  <2> HIDE DEF new
  <2> QED BY <1>2, <2>1, <2>2, GotoPeople DEF Knows
<1>3. CASE AcceptInvitation(p, m)
  <2>1. member[m] \in [user : People, role : Roles, status : Status]
    BY <1>3, PresentMade DEF AcceptInvitation, Answer
  <2>2. [member[m] EXCEPT !.status = "ACTIVE"].user = member[m].user
    BY <2>1
  <2> QED BY <1>2, <1>3, <2>2 DEF AcceptInvitation
<1>4. CASE DeclineInvitation(p, m) BY <1>2, <1>4 DEF DeclineInvitation
<1> QED BY <1>1, <1>3, <1>4
        DEF UpdateAsk, RemoveAsk, InviteAsk, WorkerAsk, DeleteAsk, Writing

LEMMA ReadPeople ==
    ASSUME TypeInv, PeopleInv, NEW p \in Procs,
           \/ \E m \in Members, role \in Roles, status \in Status :
                 UpdateRead(p, m, role, status)
           \/ \E m \in Members : RemoveRead(p, m)
    PROVE  PeopleStep
<1>1. ASSUME NEW m \in Members, NEW row, row = Gone \/ row.user = member[m].user,
             Write(p, m, row), UNCHANGED <<company, member, workers>>
      PROVE  PeopleStep
  <2> DEFINE new == [Idle EXCEPT !.owns = op[p].owns, !.on = m, !.row = row,
                        !.pc = IF ActiveOwner(member[m]) /\ ~ActiveOwner(row)
                               THEN "serial" ELSE "plain"]
  <2>1. new.pc \in {"serial", "plain"} /\ new.on = m /\ new.row = row BY DEF Idle
  <2>2. Goto(p, new) BY <1>1 DEF Write
  <2> HIDE DEF new
  <2> QED BY <1>1, <2>1, <2>2, GotoPeople DEF Knows
<1>2. ASSUME NEW m \in Members, NEW role \in Roles, NEW status \in Status,
             UpdateRead(p, m, role, status)
      PROVE  PeopleStep
  <2>1. member[m] \in [user : People, role : Roles, status : Status]
    BY <1>2, PresentMade DEF UpdateRead
  <2>2. [member[m] EXCEPT !.role = role, !.status = status].user = member[m].user
    BY <2>1
  <2> QED BY <1>1, <1>2, <2>2 DEF UpdateRead
<1>3. ASSUME NEW m \in Members, RemoveRead(p, m) PROVE PeopleStep
  BY <1>1, <1>3 DEF RemoveRead
<1> QED BY <1>2, <1>3

LEMMA WritePeople ==
    ASSUME TypeInv, SafeInv, PeopleInv, NEW p \in Procs,
           PlainWrite(p) \/ SerialWrite(p) \/ SerialEnd(p)
    PROVE  PeopleStep
<1> DEFINE o == op[p]
<1>1. /\ o.on \in Members /\ o.row \in Row
      /\ Knows(o, member, workers)
  BY DEF PlainWrite, SerialWrite, SerialEnd, TypeInv, TypeOK, Aims, Writing,
         Members, Op, PeopleInv
<1>2. ASSUME o.pc \in Writing, member[o.on] # Gone,
             member' = [member EXCEPT ![o.on] = o.row]
      PROVE  \A m \in Members : \/ member'[m] = Gone
                                \/ /\ member[m] # Gone
                                   /\ member'[m].user = member[m].user
  BY <1>1, <1>2 DEF Knows, TypeInv, TypeOK
<1>3. CASE PlainWrite(p)
  <2>1. \A q \in Procs : op'[q] = IF q = p THEN Idle ELSE op[q]
    BY <1>3 DEF PlainWrite, End, Goto, TypeInv, TypeOK
  <2>2. \A m \in Members : \/ member'[m] = Gone
                           \/ /\ member[m] # Gone
                              /\ member'[m].user = member[m].user
    BY <1>2, <1>3 DEF PlainWrite, Missing, Writing
  <2> QED BY <1>3, <2>1, <2>2, KeptPeople, IdleKnows DEF PlainWrite
<1>4. CASE SerialWrite(p)
  <2> DEFINE new == [o EXCEPT !.pc = "count", !.seen = ActiveOwners \ {o.on}]
  <2>1. new.pc = "count" /\ new.on = o.on /\ new.row = o.row
    BY DEF TypeInv, TypeOK, Op
  <2>2. End(p) \/ Goto(p, new) BY <1>4 DEF SerialWrite
  <2> HIDE DEF new
  <2>3. Knows(new, member, workers) BY <1>1, <1>4, <2>1 DEF Knows, SerialWrite, Writing
  <2> QED BY <1>4, <2>1, <2>2, <2>3, EndPeople, GotoPeople DEF SerialWrite
<1>5. CASE SerialEnd(p)
  <2>1. CASE End(p) /\ UNCHANGED member
    BY <1>5, <2>1, EndPeople DEF SerialEnd
  <2>2. CASE /\ member' = [member EXCEPT ![o.on] = o.row]
             /\ op' = [q \in Procs |->
                         IF q = p THEN Idle
                         ELSE IF op[q].pc = "count"
                         THEN [op[q] EXCEPT !.overtaken = TRUE] ELSE op[q]]
    <3>1. \A m \in Members : \/ member'[m] = Gone
                             \/ /\ member[m] # Gone
                                /\ member'[m].user = member[m].user
      BY <1>2, <1>5, <2>2 DEF SerialEnd, Writing, SafeInv, OpOk
    <3>2. ASSUME NEW q \in Procs, q # p
          PROVE  /\ op'[q].pc = op[q].pc /\ op'[q].by = op[q].by
                 /\ op'[q].on = op[q].on /\ op'[q].row = op[q].row
      <4>1. op[q] \in Op BY DEF TypeInv, TypeOK
      <4> QED BY <2>2, <3>2, <4>1 DEF Op
    <3>3. op'[p] = Idle BY <2>2
    <3> QED BY <1>5, <3>1, <3>2, <3>3, KeptPeople, IdleKnows DEF SerialEnd
  <2> QED BY <1>5, <2>1, <2>2 DEF SerialEnd
<1> QED BY <1>3, <1>4, <1>5

LEMMA OtherPeople ==
    ASSUME TypeInv, PeopleInv, NEW p \in Procs,
           \/ \E u \in Users, role \in Roles : InviteSave(p, u, role)
           \/ \E w \in Workers : Provision(p, w)
           \/ \E role \in Roles : WorkerSave(p, role)
           \/ DeleteCompany(p) \/ Fail(p)
    PROVE  PeopleStep
<1>0. op[p] \in Op /\ Aims(op[p], made) /\ Knows(op[p], member, workers)
  BY DEF TypeInv, TypeOK, PeopleInv
<1>1. ASSUME NEW u \in Users, NEW role \in Roles, InviteSave(p, u, role)
      PROVE  PeopleStep
  <2> DEFINE r == [user |-> u, role |-> role, status |-> "INVITED"]
  <2>1. r \in Row /\ r # Gone /\ r.user = u BY RowType DEF People, Status
  <2> HIDE DEF r
  <2>2. CASE HasRow(u) \/ company # "exists"
    BY <1>1, <2>2, EndPeople DEF InviteSave
  <2>3. CASE ~(HasRow(u) \/ company # "exists")
    <3>1. /\ Insert(r) /\ End(p) /\ company' = "exists" /\ workers' = workers
      BY <1>1, <2>3 DEF InviteSave, r
    <3>2. \A q \in Procs : op'[q] = op[q] \/ op'[q] = Idle
      BY <3>1 DEF End, Goto, TypeInv, TypeOK
    <3>3. \A q \in Procs : op'[q].pc = "place" => op'[q].by # u
      BY <3>2, IdleKnows DEF PeopleInv, Knows, TypeInv, TypeOK
    <3>4. \A m \in Present : member[m].user # u BY <2>3 DEF HasRow
    <3> QED BY <2>1, <3>1, <3>2, <3>3, <3>4, InsertPeople
  <2> QED BY <2>2, <2>3
<1>2. ASSUME NEW w \in Workers, Provision(p, w) PROVE PeopleStep
  <2> DEFINE new == [op[p] EXCEPT !.pc = "place", !.by = w]
  <2>1. new.pc = "place" /\ new.by = w BY <1>0 DEF Op
  <2> HIDE DEF new
  <2>2. op'[p] \in {Idle, new} /\ \A q \in Procs : q # p => op'[q] = op[q]
    BY <1>2 DEF Provision, End, Goto, TypeInv, TypeOK, new
  <2>3. \A m \in Members : member[m] # Gone => member[m].user # w
    BY <1>2 DEF Provision, PeopleInv, Present
  <2>4. Knows(op'[p], member', workers')
    BY <1>2, <2>1, <2>2, <2>3, IdleKnows DEF Knows, Provision, Writing
  <2>5. \A q \in Procs : op[q].pc = "place" => op[q].by # w
    BY <1>2 DEF Provision, PeopleInv, Knows
  <2> QED BY <1>2, <2>1, <2>2, <2>4, <2>5, IdleKnows, KeptPeople DEF Provision
<1>3. ASSUME NEW role \in Roles, WorkerSave(p, role) PROVE PeopleStep
  <2> DEFINE r == [user |-> op[p].by, role |-> role, status |-> "ACTIVE"]
  <2>1. r \in Row /\ r # Gone /\ r.user = op[p].by
    BY <1>0, <1>3, RowType DEF WorkerSave, Aims, Status
  <2> HIDE DEF r
  <2>2. CASE company # "exists"
    BY <1>3, <2>2, EndPeople DEF WorkerSave
  <2>3. CASE company = "exists"
    <3>1. /\ Insert(r) /\ End(p) /\ company' = "exists" /\ workers' = workers
          /\ op[p].pc = "place"
      BY <1>3, <2>3 DEF WorkerSave, r
    <3>2. \A q \in Procs : op'[q] = IF q = p THEN Idle ELSE op[q]
      BY <3>1 DEF End, Goto, TypeInv, TypeOK
    <3>3. \A q \in Procs : op'[q].pc = "place" => op'[q].by # op[p].by
      BY <3>1, <3>2, IdleKnows DEF PeopleInv, PlacedOnce
    <3>4. /\ \A m \in Present : member[m].user # op[p].by
          /\ op[p].by \in Users \cup workers
      BY <1>0, <3>1 DEF Knows, Present
    <3> QED BY <2>1, <3>1, <3>2, <3>3, <3>4, InsertPeople
  <2> QED BY <2>2, <2>3
<1>4. CASE DeleteCompany(p)
  <2>1. \A q \in Procs : op'[q] = IF q = p THEN Idle ELSE op[q]
    BY <1>4 DEF DeleteCompany, End, Goto, TypeInv, TypeOK
  <2>2. \A m \in Members : member'[m] = Gone BY <1>4 DEF DeleteCompany
  <2>3. Present' = {} BY <2>2 DEF Present
  <2> QED BY <1>4, <2>1, <2>2, <2>3, KeptPeople, IdleKnows DEF DeleteCompany
<1>5. CASE Fail(p)
  BY <1>5, EndPeople DEF Fail
<1> QED BY <1>1, <1>2, <1>3, <1>4, <1>5

LEMMA PeopleNext == TypeInv /\ SafeInv /\ PeopleInv /\ [Next]_vars => PeopleStep
<1> SUFFICES ASSUME TypeInv, SafeInv, PeopleInv, [Next]_vars PROVE PeopleStep
  OBVIOUS
<1>1. CASE UNCHANGED vars
  BY <1>1 DEF vars, PeopleStep, PeopleInv, UserKept, NoMemberLeft, OneRowEach,
              PlacedOnce, Present
<1>2. ASSUME NEW p \in Procs, Step(p) PROVE PeopleStep
  BY <1>2, ReadPeople, WritePeople, OtherPeople DEF Step
<1>3. ASSUME NEW u \in Users, CreateCompany(u) PROVE PeopleStep
  <2> DEFINE r == [user |-> u, role |-> "OWNER", status |-> "ACTIVE"]
  <2>1. r \in Row /\ r # Gone /\ r.user = u BY RowType DEF People, Roles, Status
  <2> HIDE DEF r
  <2>2. Insert(r) /\ company' = "exists" /\ workers' = workers /\ op' = op
    BY <1>3 DEF CreateCompany, r
  <2>3. Present = {} BY <1>3 DEF CreateCompany, PeopleInv, NoMemberLeft
  <2>4. \A q \in Procs : op[q].pc = "place" => op[q].by # u
    BY DEF PeopleInv, Knows, TypeInv, TypeOK
  <2> QED BY <2>1, <2>2, <2>3, <2>4, InsertPeople
<1> QED BY <1>1, <1>2, <1>3, BeginPeople, OtherPeople DEF Next

LEMMA PeopleInit == Init => PeopleInv
<1> SUFFICES ASSUME Init PROVE PeopleInv
  OBVIOUS
<1>1. Present = {} BY DEF Init, Present
<1>2. \A p \in Procs : op[p] = Idle BY DEF Init
<1> QED BY <1>1, <1>2, IdleKnows DEF PeopleInv, NoMemberLeft, OneRowEach, PlacedOnce

LEMMA PeopleAlways == Spec => []PeopleInv
BY PeopleInit, PeopleNext, Inductive, PTL DEF Spec, PeopleStep

(* A user has one membership in a company at most, though invitations and   *)
(* registrations overlap and the account of a worker may be made by a call  *)
(* whose answer was lost.                                                   *)
THEOREM OneMembershipEach == Spec => []OneRowEach
<1>1. PeopleInv => OneRowEach BY DEF PeopleInv
<1> QED BY <1>1, PeopleAlways, PTL

(* A company that was deleted has no members and gets none: no transaction, *)
(* late write, invitation or registration leaves a row behind.              *)
THEOREM NobodyIsLeftBehind == Spec => []NoMemberLeft
<1>1. PeopleInv => NoMemberLeft BY DEF PeopleInv
<1> QED BY <1>1, PeopleAlways, PTL

(* A row never passes to another user, though it is written from copies.    *)
THEOREM RowsKeepTheirUser == Spec => [][UserKept]_vars
<1>1. TypeInv /\ SafeInv /\ PeopleInv /\ [Next]_vars => [UserKept]_vars
  BY PeopleNext DEF PeopleStep
<1> QED BY <1>1, PeopleAlways, Inductive, PTL DEF Spec

=============================================================================

------------------------- MODULE NotificationProofs -------------------------
(***************************************************************************)
(* Notification implements MailDelivery, for any number of operations,     *)
(* attempts, crashes and rollbacks.                                        *)
(***************************************************************************)
EXTENDS Notification, FiniteSetTheorems, TLAPS

-----------------------------------------------------------------------------
(* The catalogue: every mail has a template, and brings along whatever the  *)
(* template needs.                                                          *)

LEMMA CatalogueSound == \A m \in Mails : Renders(m) /\ IsComplete(m)
<1> USE DEF TEMPLATES, Template, Mail, Account, Optional, IsComplete
<1>1. \A m \in AccountMails : IsComplete(m)
  <2>1. \A m \in AccountMails :
           \E t \in {WelcomeEmail, PasswordChangedEmail, AccountLockedEmail} :
               /\ t.name = m.template
               /\ t.prints \cup (t.links \ Optional) \subseteq m.supplies
    BY DEF AccountMails, WelcomeEmail, PasswordChangedEmail, AccountLockedEmail
  <2> QED
    BY <2>1
<1>2. \A m \in SecondFactorMails : IsComplete(m)
  <2>1. \A m \in SecondFactorMails :
           \E t \in {TwoFactorEnabledEmail, TwoFactorDisabledEmail,
                     RecoveryCodesRegeneratedEmail} :
               /\ t.name = m.template
               /\ t.prints \cup (t.links \ Optional) \subseteq m.supplies
    BY DEF SecondFactorMails, TwoFactorEnabledEmail, TwoFactorDisabledEmail,
           RecoveryCodesRegeneratedEmail
  <2> QED
    BY <2>1
<1>3. \A m \in LinkMails : IsComplete(m)
  <2>1. \A m \in LinkMails :
           \E t \in {WelcomeEmail, WorkerProvisionedEmail, PasswordResetEmail} :
               /\ t.name = m.template
               /\ t.prints \cup (t.links \ Optional) \subseteq m.supplies
    BY DEF LinkMails, WelcomeEmail, WorkerProvisionedEmail, PasswordResetEmail
  <2> QED
    BY <2>1
<1>4. IsComplete(InvitationMail)
  <2>1. /\ MembershipInvitedEmail.name = InvitationMail.template
        /\ MembershipInvitedEmail.prints
              \cup (MembershipInvitedEmail.links \ Optional)
             \subseteq InvitationMail.supplies
    BY DEF InvitationMail, MembershipInvitedEmail
  <2> QED
    BY <2>1
<1>5. \A m \in Mails : IsComplete(m)
  BY <1>1, <1>2, <1>3, <1>4 DEF Mails
<1>6. \A m : IsComplete(m) => Renders(m)
  BY DEF Renders
<1> QED
  BY <1>5, <1>6

-----------------------------------------------------------------------------
(* The invariant.  What holds of one operation o, which is m, when keys are *)
(* k and Redis went back r times.                                           *)

Alive == {"wait", "active", "orphan"}

\* Before there is a job there is nothing to send, and afterwards auth-service
\* has nothing to do with the mail any more.
Asked(o) ==
    /\ o.pc = "idle" => o = Idle
    /\ o.pc # "idle" => o.renders
    /\ o.complete \/ o.pc = "idle"
    /\ o.pc \in {"lookup", "posting"} => o.mail
    /\ o.dropped => o.pc = "ended"
    /\ o.job # "none" => o.pc = "ended" /\ o.mail /\ ~o.dropped
    /\ o.job # "none" <=> o.id # 0

\* Only the attempt under way has a request somebody waits for.
Attempted(o) ==
    /\ o.job # "active" => o.request = "none"
    /\ o.job = "none" => /\ o.made = 0 /\ o.stalled = 0 /\ o.stops = 0
                         /\ o.errors = 0 /\ ~o.late /\ o.received = 0
    /\ o.job \in Alive =>
           /\ o.made < MaxAttempts /\ o.stalled <= Max_Stalled
           /\ o.stops = o.stalled + IF o.job = "orphan" THEN 1 ELSE 0

\* Attempts fail for a reason outside, and jobs for more of them than the
\* retries are there for.
Reasons(o, r) ==
    /\ o.errors <= o.made
    /\ r = 0 => o.errors = o.made /\ o.request # "error"
    /\ o.job = "gone" => r > 0
    /\ o.job = "failed" =>
           r > 0 \/ o.errors >= MaxAttempts \/ o.stops > Max_Stalled

\* Resend knows the key of a mail that has arrived, once, and from that mail.
Sent(m, o, k) ==
    /\ o.received \in {0, 1}
    /\ o.id # 0 => (o.received = 1 <=> k[o.id] = m)
    /\ o.request = "ok" \/ o.job = "done" => o.received = 1

Ok(m, o, k, r) ==
    o \in Op /\ Asked(o) /\ Attempted(o) /\ Reasons(o, r) /\ Sent(m, o, k)

\* Ids are given once, as long as Redis never forgets one.
Numbered(ids, r) ==
    r = 0 => /\ \A m \in Ops : ids[m] < nextId
             /\ \A m, n \in Ops : ids[m] = ids[n] /\ ids[m] # 0 => m = n

WithJob(ids) == {m \in Ops : ids[m] # 0}

Ids == [m \in Ops |-> op[m].id]

MailInv ==
    /\ TypeOK
    /\ \A m \in Ops : Ok(m, op[m], keys, rollbacks)
    /\ Numbered(Ids, rollbacks)
    /\ nextId - 1 <= Cardinality(WithJob(Ids))
    /\ \A k \in 1..Cardinality(Ops) : keys[k] # "free" => Ids[keys[k]] = k

LEMMA MailInit == Init => MailInv
<1> SUFFICES ASSUME Init PROVE MailInv
  OBVIOUS
<1>1. Cardinality(Ops) \in Nat
  BY OpsAreFinite, FS_CardinalityType
<1>2. Idle \in Op
  BY <1>1, SomeAttempts DEF Idle, Op, Max_Stalled
<1>3. op = [m \in Ops |-> Idle] /\ nextId = 1 /\ rollbacks = 0
      /\ keys = [k \in 1..Cardinality(Ops) |-> "free"]
  BY DEF Init
<1>4. TypeOK
  BY <1>1, <1>2, <1>3, BoundsAreNat DEF Init, TypeOK
<1>5. \A m \in Ops : Ok(m, op[m], keys, rollbacks)
  <2>1. Asked(Idle) /\ Attempted(Idle) /\ Reasons(Idle, 0)
    BY DEF Idle, Asked, Attempted, Reasons, Alive
  <2>2. \A m : Sent(m, Idle, keys)
    BY DEF Idle, Sent
  <2> QED
    BY <1>2, <1>3, <2>1, <2>2 DEF Ok
<1>6. \A m \in Ops : Ids[m] = 0
  BY <1>3 DEF Ids, Idle
<1>7. nextId - 1 <= Cardinality(WithJob(Ids))
  <2>1. WithJob(Ids) = {}
    BY <1>6 DEF WithJob
  <2> QED
    BY <1>3, <2>1, FS_EmptySet
<1>8. Numbered(Ids, rollbacks)
  BY <1>3, <1>6 DEF Numbered
<1>9. \A k \in 1..Cardinality(Ops) : keys[k] = "free"
  BY <1>3
<1> QED
  BY <1>4, <1>5, <1>7, <1>8, <1>9 DEF MailInv

-----------------------------------------------------------------------------
(* Steps that neither give an id nor reach the mailbox.                     *)

\* What such a step may do to an operation.
Moves(o, n) ==
    /\ n.mail = o.mail /\ n.complete = o.complete
    /\ n.received = o.received
    /\ \/ n.job = o.job
       \/ o.job \in Alive /\ n.job \in Alive \cup {"failed", "gone"}
       \/ o.job = "none" /\ n.job = "wait" /\ ~n.dropped
    /\ o.dropped => n.dropped
    /\ o.errors <= n.errors /\ o.stops <= n.stops

PromiseStep ==
    Promise!AbsNext
      \/ UNCHANGED <<Owed, [m \in Ops |-> IF op[m].complete
                                          THEN op[m].received ELSE 0],
                     Excused, [m \in Ops |-> Settled(op[m])]>>

LEMMA IdsKept ==
    ASSUME MailInv, op' \in [Ops -> Op], keys' = keys,
           worker' \in {"up", "down"}, crashes' \in 0..MaxCrashes,
           rollbacks' \in 0..MaxRollbacks,
           \/ nextId' = nextId /\ rollbacks' = rollbacks
           \/ nextId' \in 1..nextId /\ rollbacks' > 0,
           \A m \in Ops : /\ op'[m].id = op[m].id
                          /\ Ok(m, op'[m], keys, rollbacks')
    PROVE  MailInv'
<1>1. Ids' = Ids
  BY DEF Ids
<1>2. Cardinality(Ops) \in Nat
  BY OpsAreFinite, FS_CardinalityType
<1>3. Cardinality(WithJob(Ids)) \in Nat
  <2>1. IsFiniteSet(WithJob(Ids))
    BY OpsAreFinite, FS_Subset DEF WithJob
  <2> QED
    BY <2>1, FS_CardinalityType
<1>4. nextId \in 1..(Cardinality(Ops) + 1)
  BY DEF MailInv, TypeOK
<1>5. nextId' \in 1..nextId
  BY <1>2, <1>4
<1>6. TypeOK'
  BY <1>2, <1>4, <1>5 DEF MailInv, TypeOK
<1>7. nextId' - 1 <= Cardinality(WithJob(Ids))
  BY <1>2, <1>3, <1>4, <1>5 DEF MailInv
<1>8. Numbered(Ids, rollbacks)'
  BY <1>1, BoundsAreNat DEF MailInv, Numbered
<1> QED
  BY <1>1, <1>6, <1>7, <1>8 DEF MailInv, WithJob

LEMMA MovesImplement ==
    ASSUME MailInv, op' \in [Ops -> Op], rollbacks' \in Nat, rollbacks <= rollbacks',
           \A m \in Ops : /\ Moves(op[m], op'[m])
                          /\ Ok(m, op'[m], keys', rollbacks')
    PROVE  PromiseStep
<1> DEFINE hit  == Excused'
           given == {m \in Ops : Settled(op'[m]) # Settled(op[m])}
<1>0. rollbacks \in Nat /\ \A m \in Ops : Ok(m, op[m], keys, rollbacks)
  BY BoundsAreNat DEF MailInv, TypeOK
<1>1. Owed' = Owed
  BY DEF Owed, Moves
<1>2. [m \in Ops |-> IF op[m].complete THEN op[m].received ELSE 0]'
        = [m \in Ops |-> IF op[m].complete THEN op[m].received ELSE 0]
  BY DEF Moves
<1>3. ASSUME NEW m \in Ops PROVE m \in Excused => m \in Excused'
  <2>1. op[m] \in Op /\ op'[m] \in Op /\ MaxAttempts \in Nat
    BY <1>0, SomeAttempts DEF Ok
  <2>2. /\ op[m].errors \in Nat /\ op'[m].errors \in Nat
        /\ op[m].stops \in Nat /\ op'[m].stops \in Nat
    BY <2>1 DEF Op, Max_Stalled
  <2>3. Moves(op[m], op'[m])
    OBVIOUS
  <2> QED
    BY <1>0, <2>1, <2>2, <2>3 DEF Excused, Moves, Max_Stalled
<1>4. ASSUME NEW m \in given
      PROVE  /\ m \in Owed /\ m \in Excused'
             /\ Settled(op[m]) = "open" /\ Settled(op'[m]) = "abandoned"
  <2>1. Moves(op[m], op'[m]) /\ Ok(m, op[m], keys, rollbacks)
        /\ Ok(m, op'[m], keys', rollbacks')
    BY <1>0
  <2>2. CASE op'[m].job = op[m].job
    <3>1. op[m].job = "none" /\ ~op[m].dropped /\ op'[m].dropped /\ op'[m].mail
      BY <2>1, <2>2 DEF Settled, Moves
    <3> QED
      BY <2>1, <2>2, <3>1 DEF Settled, Moves, Owed, Excused
  <2>3. CASE op[m].job \in Alive /\ op'[m].job \in {"failed", "gone"}
    <3>1. op[m].mail
      BY <2>1, <2>3 DEF Ok, Asked, Alive
    <3>2. m \in Excused'
      BY <2>1, <2>3 DEF Ok, Reasons, Excused
    <3> QED
      BY <2>3, <3>1, <3>2 DEF Settled, Owed, Alive
  <2>4. CASE op[m].job \in Alive /\ op'[m].job \in Alive
    BY <2>4 DEF Settled, Alive
  <2>5. CASE op[m].job = "none" /\ op'[m].job = "wait" /\ ~op'[m].dropped
    BY <2>1, <2>5 DEF Settled, Moves
  <2> QED
    BY <2>1, <2>2, <2>3, <2>4, <2>5 DEF Moves
<1>5. Excused' = Excused \cup hit
  <2>1. Excused \subseteq Ops /\ Excused' \subseteq Ops
    BY DEF Excused
  <2> QED
    BY <1>3, <2>1
<1>6. [m \in Ops |-> Settled(op[m])]'
        = [m \in Ops |-> IF m \in given THEN "abandoned"
                         ELSE [n \in Ops |-> Settled(op[n])][m]]
  BY <1>4
<1>7. \A m \in given : [n \in Ops |-> Settled(op[n])][m] = "open"
  BY <1>4
<1>8. given \subseteq Owed \cap (Excused \cup hit)
  BY <1>4, <1>5
<1>9. Promise!Hit(hit, given)
  <2> HIDE DEF given, hit
  <2> QED
    BY <1>1, <1>2, <1>5, <1>6, <1>7, <1>8 DEF Promise!Hit
<1>10. hit \in SUBSET Ops /\ given \in SUBSET Ops
  BY DEF Excused
<1> HIDE DEF hit, given
<1> QED
  BY <1>9, <1>10 DEF PromiseStep, Promise!AbsNext

-----------------------------------------------------------------------------
(* What the steps do to one operation.                                      *)

SameMail(o, n) == /\ n.mail = o.mail /\ n.renders = o.renders
                  /\ n.complete = o.complete

SameSender(o, n) == n.pc = o.pc /\ n.dropped = o.dropped

SameJob(o, n) == /\ n.job = o.job /\ n.id = o.id /\ n.made = o.made
                 /\ n.stalled = o.stalled /\ n.errors = o.errors
                 /\ n.stops = o.stops

SamePost(o, n) == /\ n.request = o.request /\ n.late = o.late
                  /\ n.received = o.received

\* auth-service goes on with an operation, or drops its mail.
Sends(o, n) ==
    /\ n \in Op /\ SameMail(o, n) /\ SameJob(o, n) /\ SamePost(o, n)
    /\ o.pc # "idle"
    /\ \/ SameSender(o, n)
       \/ /\ o.pc # "ended" /\ n.pc # "idle"
          /\ n.pc \in {"lookup", "posting"} => n.mail
          /\ n.dropped => n.pc = "ended"

LEMMA SendsOk ==
    ASSUME NEW m, NEW o, NEW n, NEW k, NEW r, Ok(m, o, k, r), Sends(o, n)
    PROVE  Moves(o, n) /\ n.id = o.id /\ Ok(m, n, k, r)
<1>1. Asked(n)
  BY DEF Sends, SameMail, SameJob, SameSender, Ok, Asked
<1>2. Attempted(n)
  BY DEF Sends, SameJob, SamePost, Ok, Attempted
<1>3. Reasons(n, r) /\ Sent(m, n, k)
  BY DEF Sends, SameJob, SamePost, Ok, Reasons, Sent
<1>4. n.errors \in Int /\ n.stops \in Int
  BY SomeAttempts DEF Sends, Op, Max_Stalled
<1>5. o.dropped => n.dropped
  BY DEF Sends, SameSender, Ok, Asked
<1>6. o.errors <= n.errors /\ o.stops <= n.stops
  BY <1>4 DEF Sends, SameJob
<1> QED
  BY <1>1, <1>2, <1>3, <1>5, <1>6
  DEF Ok, Moves, Sends, SameMail, SameJob, SamePost

\* notification-service goes on with a job.
Works(o, n) ==
    /\ n \in Op /\ SameMail(o, n) /\ SameSender(o, n)
    /\ n.id = o.id /\ n.received = o.received
    /\ o.job \in Alive

LEMMA WorksOk ==
    ASSUME NEW m, NEW o, NEW n, NEW k, NEW r, Ok(m, o, k, r), Works(o, n),
           n.job \in Alive \cup {"failed", "gone"},
           Attempted(n), Reasons(n, r), n.request # "ok" \/ o.request = "ok",
           o.errors <= n.errors, o.stops <= n.stops
    PROVE  Moves(o, n) /\ n.id = o.id /\ Ok(m, n, k, r)
<1>1. Asked(n)
  BY DEF Works, SameMail, SameSender, Ok, Asked, Alive
<1>2. Sent(m, n, k)
  BY DEF Works, Ok, Sent, Alive
<1> QED
  BY <1>1, <1>2 DEF Ok, Moves, Works, SameMail, SameSender

(* One operation moves on, and nothing else does.                           *)
LEMMA OneMoves ==
    ASSUME MailInv, NEW m \in Ops, NEW n, Become(m, n), UNCHANGED Rest,
           Moves(op[m], n), n.id = op[m].id, Ok(m, n, keys, rollbacks)
    PROVE  MailInv' /\ PromiseStep
<1>0. op \in [Ops -> Op] /\ rollbacks \in 0..MaxRollbacks
      /\ \A x \in Ops : Ok(x, op[x], keys, rollbacks)
      /\ worker \in {"up", "down"} /\ crashes \in 0..MaxCrashes
  BY DEF MailInv, TypeOK
<1>1. n \in Op
  BY DEF Ok
<1>2. op' \in [Ops -> Op] /\ op'[m] = n /\ \A x \in Ops \ {m} : op'[x] = op[x]
  BY <1>0, <1>1 DEF Become
<1>3. ASSUME NEW x \in Ops \ {m} PROVE Moves(op[x], op[x])
  <2>1. op[x].errors \in Int /\ op[x].stops \in Int
    BY <1>0, SomeAttempts DEF Op, Max_Stalled
  <2> QED
    BY <2>1 DEF Moves
<1>4. \A x \in Ops : /\ Moves(op[x], op'[x]) /\ op'[x].id = op[x].id
                     /\ Ok(x, op'[x], keys, rollbacks)
  BY <1>0, <1>2, <1>3
<1>5. UNCHANGED <<worker, nextId, keys, crashes, rollbacks>>
  BY DEF Rest
<1>6. rollbacks' \in Nat /\ rollbacks <= rollbacks' /\ rollbacks' = rollbacks
  BY <1>0, <1>5, BoundsAreNat
<1>7. MailInv'
  BY <1>0, <1>2, <1>4, <1>5, IdsKept
<1>8. PromiseStep
  BY <1>2, <1>4, <1>5, <1>6, MovesImplement
<1> QED
  BY <1>7, <1>8

-----------------------------------------------------------------------------
(* auth-service.                                                            *)

LEMMA OkNow ==
    ASSUME MailInv, NEW m \in Ops
    PROVE  Ok(m, op[m], keys, rollbacks) /\ op[m] \in Op
BY DEF MailInv, Ok

(* A mail is dropped before there is a job.                                 *)
LEMMA DropSends ==
    ASSUME NEW o \in Op, o.pc \notin {"idle", "ended"},
           NEW x \in {"none", "listed", "due"}
    PROVE  Sends(o, [Dropped(o) EXCEPT !.report = x]) /\ Sends(o, Dropped(o))
BY DEF Dropped, Sends, SameMail, SameJob, SamePost, Op

LEMMA AuthSends ==
    ASSUME MailInv, NEW m \in Ops,
           Publish(m) \/ StoreReport(m) \/ Lookup(m) \/ PostFails(m)
    PROVE  MailInv' /\ PromiseStep
<1> DEFINE o == op[m]
<1>0. o \in Op /\ Ok(m, o, keys, rollbacks)
  BY OkNow
<1>1. ASSUME NEW n, Become(m, n), UNCHANGED Rest, Sends(o, n)
      PROVE  MailInv' /\ PromiseStep
  BY <1>0, <1>1, SendsOk, OneMoves
<1>2. CASE Publish(m)
  <2> DEFINE pc == IF ~o.mail THEN "ended"
                   ELSE IF o.looks_up THEN "lookup" ELSE "posting"
             rep == IF o.report = "listed" THEN "due" ELSE o.report
             n == [o EXCEPT !.pc = pc, !.report = rep]
  <2>1. o.pc = "publishing" /\ ~o.dropped
    BY <1>0, <1>2 DEF Publish, Ok, Asked
  <2>2. pc \in {"ended", "lookup", "posting"} /\ rep \in {"none", "listed", "due"}
    BY <1>0 DEF Op
  <2>3. /\ ~o.mail => pc = "ended"
        /\ pc = "lookup" => o.looks_up
        /\ o.mail => pc \in {"lookup", "posting"}
    OBVIOUS
  <2>4. Become(m, n) /\ UNCHANGED Rest
    BY <1>2 DEF Publish
  <2> HIDE DEF pc, rep
  <2>5. n \in Op
    BY <1>0, <2>2 DEF Op
  <2>6. n.pc = pc /\ n.dropped = o.dropped
        /\ SameMail(o, n) /\ SameJob(o, n) /\ SamePost(o, n)
    BY <1>0 DEF Op, SameMail, SameJob, SamePost
  <2> HIDE DEF n
  <2>7. Sends(o, n)
    BY <2>1, <2>2, <2>3, <2>5, <2>6 DEF Sends, SameMail
  <2> QED
    BY <1>1, <2>4, <2>7
<1>3. CASE StoreReport(m)
  <2> DEFINE failed == [o EXCEPT !.report = "none"]
  <2>1. o.pc # "idle"
    BY <1>0, <1>3 DEF StoreReport, Ok, Asked, Idle
  <2>2. Sends(o, Counted(o))
    <3>1. o.pc = "auditing" => ~o.dropped
      BY <1>0 DEF Ok, Asked
    <3>2. Counted(o).pc = IF o.pc = "auditing" THEN "publishing" ELSE o.pc
      BY <1>0 DEF Counted, Op
    <3>3. /\ Counted(o) \in Op /\ Counted(o).dropped = o.dropped
          /\ SameMail(o, Counted(o)) /\ SameJob(o, Counted(o))
          /\ SamePost(o, Counted(o))
      BY <1>0 DEF Counted, Op, SameMail, SameJob, SamePost
    <3> QED
      BY <2>1, <3>1, <3>2, <3>3 DEF Sends, SameSender
  <2>3. Sends(o, failed)
    BY <1>0, <2>1 DEF Sends, SameMail, SameSender, SameJob, SamePost, Op
  <2>4. o.pc = "auditing" => Sends(o, Dropped(failed))
    BY <1>0 DEF Dropped, Sends, SameMail, SameJob, SamePost, Op
  <2>5. UNCHANGED Rest
    BY <1>3 DEF StoreReport
  <2>6. \/ Become(m, Counted(o))
        \/ Become(m, IF o.pc = "auditing" THEN Dropped(failed) ELSE failed)
    BY <1>3 DEF StoreReport
  <2> HIDE DEF failed, o
  <2> QED
    BY <1>1, <2>2, <2>3, <2>4, <2>5, <2>6
<1>4. CASE Lookup(m)
  <2> DEFINE n == [o EXCEPT !.pc = "posting", !.looks_up = FALSE]
  <2>1. o.pc = "lookup" /\ ~o.dropped /\ o.mail
    BY <1>0, <1>4 DEF Lookup, Ok, Asked
  <2>2. n \in Op /\ SameMail(o, n) /\ SameJob(o, n) /\ SamePost(o, n)
        /\ n.dropped = o.dropped /\ n.pc = "posting"
    BY <1>0 DEF Op, SameMail, SameJob, SamePost
  <2>3. UNCHANGED Rest /\ (Become(m, n) \/ Become(m, Dropped(o)))
    BY <1>4 DEF Lookup
  <2> HIDE DEF n
  <2>4. Sends(o, n)
    BY <2>1, <2>2 DEF Sends, SameMail
  <2>5. Sends(o, Dropped(o))
    BY <1>0, <2>1, DropSends
  <2> QED
    BY <1>1, <2>3, <2>4, <2>5
<1>5. CASE PostFails(m)
  BY <1>0, <1>1, <1>5, DropSends DEF PostFails
<1> QED
  BY <1>2, <1>3, <1>4, <1>5

LEMMA StaysOk ==
    ASSUME NEW m, NEW o \in Op, NEW k, NEW r, Ok(m, o, k, r)
    PROVE  Moves(o, o)
<1>1. o.errors \in Int /\ o.stops \in Int
  BY SomeAttempts DEF Op, Max_Stalled
<1> QED
  BY <1>1 DEF Moves

LEMMA AuthCrashes == MailInv /\ AuthCrash => MailInv' /\ PromiseStep
<1> SUFFICES ASSUME MailInv, AuthCrash PROVE MailInv' /\ PromiseStep
  OBVIOUS
<1>1. ASSUME NEW m \in Ops
      PROVE  /\ Moves(op[m], Interrupted(op[m]))
             /\ Interrupted(op[m]).id = op[m].id
             /\ Ok(m, Interrupted(op[m]), keys, rollbacks)
  <2> DEFINE o == op[m]
             n == [o EXCEPT !.report = "none"]
  <2>0. o \in Op /\ Ok(m, o, keys, rollbacks)
    BY OkNow
  <2>1. CASE o.pc = "idle"
    <3>1. o = Idle /\ Interrupted(Idle) = Idle
      BY <2>0, <2>1 DEF Ok, Asked, Interrupted, Idle
    <3> QED
      BY <2>0, <3>1, StaysOk
  <2>2. CASE o.pc = "ended"
    <3>1. Interrupted(o) = n
      BY <2>2 DEF Interrupted
    <3>2. Sends(o, n)
      BY <2>0, <2>2 DEF Sends, SameMail, SameSender, SameJob, SamePost, Op
    <3> HIDE DEF n
    <3> QED
      BY <2>0, <3>1, <3>2, SendsOk
  <2>3. CASE o.pc \notin {"idle", "ended"}
    <3>1. Sends(o, Interrupted(o))
      BY <2>0, <2>3, DropSends DEF Interrupted
    <3> QED
      BY <2>0, <3>1, SendsOk
  <2> QED
    BY <2>1, <2>2, <2>3
<1>2. /\ op' = [m \in Ops |-> Interrupted(op[m])]
      /\ UNCHANGED <<worker, nextId, keys, crashes, rollbacks>>
  BY DEF AuthCrash, Rest
<1>3. op' \in [Ops -> Op]
  BY <1>1, <1>2 DEF Ok
<1>4. rollbacks' \in Nat /\ rollbacks <= rollbacks' /\ TypeOK
  BY <1>2, BoundsAreNat DEF MailInv, TypeOK
<1>5. \A m \in Ops : /\ Moves(op[m], op'[m]) /\ op'[m].id = op[m].id
                     /\ Ok(m, op'[m], keys, rollbacks')
  BY <1>1, <1>2
<1>6. MailInv'
  BY <1>2, <1>3, <1>4, <1>5, IdsKept DEF TypeOK
<1> QED
  BY <1>2, <1>3, <1>4, <1>5, <1>6, MovesImplement

-----------------------------------------------------------------------------
(* notification-service: the queue.                                         *)

(* As long as Redis forgets nothing, Resend knows a job's key from no other. *)
LEMMA KeyFree ==
    ASSUME MailInv, NEW m \in Ops, op[m].id # 0, rollbacks = 0
    PROVE  Accepts(m)
<1> DEFINE k == op[m].id
<1>1. k \in 1..Cardinality(Ops) /\ keys[k] \in Ops \cup {"free"}
  <2>1. k \in 0..Cardinality(Ops) /\ Cardinality(Ops) \in Nat
    BY OkNow, OpsAreFinite, FS_CardinalityType DEF Op
  <2> QED
    BY <2>1 DEF MailInv, TypeOK
<1>2. CASE keys[k] # "free"
  <2>1. Ids[keys[k]] = k /\ Ids[m] = k /\ keys[k] \in Ops
    BY <1>1, <1>2 DEF MailInv, Ids
  <2>2. keys[k] = m
    BY <2>1 DEF MailInv, Numbered
  <2> QED
    BY <2>2 DEF Accepts, idempotencyKey
<1> QED
  BY <1>2 DEF Accepts, idempotencyKey

LEMMA JobMoves ==
    ASSUME MailInv, NEW m \in Ops, NEW n, Become(m, n), UNCHANGED Rest,
           Works(op[m], n), n.job \in Alive \cup {"failed", "gone"},
           Attempted(n), Reasons(n, rollbacks),
           n.request # "ok" \/ op[m].request = "ok",
           op[m].errors <= n.errors, op[m].stops <= n.stops
    PROVE  MailInv' /\ PromiseStep
BY OkNow, WorksOk, OneMoves

\* The counters of an operation, as numbers.
Numbers(o) ==
    /\ o.made \in Nat /\ o.errors \in Nat /\ o.stops \in Nat /\ o.stalled \in Nat
    /\ MaxAttempts \in Nat

LEMMA NumbersOk == ASSUME NEW o \in Op PROVE Numbers(o)
BY SomeAttempts DEF Op, Max_Stalled, Numbers

LEMMA RequestMoves ==
    ASSUME MailInv, NEW m \in Ops,
           \/ Take(m) \/ RequestFails(m) \/ RequestTimesOut(m)
           \/ /\ Working(m) /\ op[m].request = "sent" /\ ~Accepts(m)
              /\ Become(m, [op[m] EXCEPT !.request = "error"])
              /\ UNCHANGED Rest
    PROVE  MailInv' /\ PromiseStep
<1> DEFINE o == op[m]
<1>0. o \in Op /\ Ok(m, o, keys, rollbacks) /\ rollbacks \in Nat
  BY OkNow, BoundsAreNat DEF MailInv, TypeOK
<1>1. Numbers(o)
  BY <1>0, NumbersOk
<1>2. ASSUME NEW n, Become(m, n), UNCHANGED Rest, Works(o, n), n.job = "active",
             n.made = o.made, n.errors = o.errors,
             n.stops = o.stops, n.stalled = o.stalled, o.job \in {"wait", "active"},
             n.request # "ok",
             rollbacks = 0 => n.request # "error"
      PROVE  MailInv' /\ PromiseStep
  <2>1. Attempted(n)
    BY <1>0, <1>2 DEF Ok, Attempted, Alive
  <2>2. Reasons(n, rollbacks)
    BY <1>0, <1>2 DEF Ok, Reasons
  <2> QED
    BY <1>1, <1>2, <2>1, <2>2, JobMoves DEF Alive, Numbers
<1>3. CASE Take(m)
  <2> DEFINE n == [o EXCEPT !.job = "active",
                            !.request = IF o.renders THEN "sent" ELSE "error"]
  <2>1. o.job = "wait" /\ o.renders
    BY <1>0, <1>3 DEF Take, Ok, Asked
  <2>2. Works(o, n) /\ n.job = "active" /\ n.made = o.made /\ n.errors = o.errors
        /\ n.stops = o.stops /\ n.stalled = o.stalled /\ n.request = "sent"
    BY <1>0, <2>1 DEF Works, SameMail, SameSender, Op, Alive
  <2>3. Become(m, n) /\ UNCHANGED Rest
    BY <1>3 DEF Take
  <2> HIDE DEF n
  <2> QED
    BY <1>2, <2>1, <2>2, <2>3
<1>4. CASE RequestFails(m) \/ RequestTimesOut(m)
  <2> DEFINE n == [Spoilt(o) EXCEPT !.late = TRUE]
  <2>1. o.job = "active"
    BY <1>4 DEF RequestFails, RequestTimesOut, Working
  <2>2. /\ Works(o, Spoilt(o)) /\ Spoilt(o).job = "active"
        /\ Spoilt(o).made = o.made /\ Spoilt(o).errors = o.errors
        /\ Spoilt(o).stops = o.stops /\ Spoilt(o).stalled = o.stalled
        /\ Spoilt(o).request = "spoilt"
    BY <1>0, <2>1 DEF Spoilt, Works, SameMail, SameSender, Op, Alive
  <2>3. /\ Works(o, n) /\ n.job = "active"
        /\ n.made = o.made /\ n.errors = o.errors
        /\ n.stops = o.stops /\ n.stalled = o.stalled
        /\ n.request = "spoilt"
    BY <1>0, <2>1 DEF Spoilt, Works, SameMail, SameSender, Op, Alive
  <2>4. UNCHANGED Rest /\ (Become(m, Spoilt(o)) \/ Become(m, n))
    BY <1>4 DEF RequestFails, RequestTimesOut
  <2> HIDE DEF n
  <2> QED
    BY <1>2, <2>1, <2>2, <2>3, <2>4
<1>5. CASE /\ Working(m) /\ op[m].request = "sent" /\ ~Accepts(m)
           /\ Become(m, [op[m] EXCEPT !.request = "error"])
           /\ UNCHANGED Rest
  <2> DEFINE n == [o EXCEPT !.request = "error"]
  <2>1. o.job = "active" /\ rollbacks # 0
    BY <1>0, <1>5, KeyFree DEF Working, Ok, Asked
  <2>2. Works(o, n) /\ n.job = "active" /\ n.made = o.made /\ n.errors = o.errors
        /\ n.stops = o.stops /\ n.stalled = o.stalled /\ n.request = "error"
    BY <1>0, <2>1 DEF Works, SameMail, SameSender, Op, Alive
  <2>3. Become(m, n) /\ UNCHANGED Rest
    BY <1>5
  <2> HIDE DEF n
  <2> QED
    BY <1>2, <2>1, <2>2, <2>3
<1> QED
  BY <1>3, <1>4, <1>5

LEMMA AttemptMoves ==
    ASSUME MailInv, NEW m \in Ops, AttemptFails(m) \/ StalledCheck(m)
    PROVE  MailInv' /\ PromiseStep
<1> DEFINE o == op[m]
<1>0. o \in Op /\ Ok(m, o, keys, rollbacks) /\ rollbacks \in Nat
  BY OkNow, BoundsAreNat DEF MailInv, TypeOK
<1>1. Numbers(o)
  BY <1>0, NumbersOk
<1>2. CASE AttemptFails(m)
  <2> DEFINE e == IF o.request = "spoilt" THEN o.errors + 1 ELSE o.errors
             j == IF o.made + 1 < MaxAttempts THEN "wait" ELSE "failed"
             n == [o EXCEPT !.request = "none", !.made = o.made + 1,
                            !.errors = e, !.job = j]
  <2>1. /\ o.job = "active" /\ o.request \in {"error", "spoilt"}
        /\ o.made < MaxAttempts /\ o.stalled <= Max_Stalled
        /\ o.stops = o.stalled
    BY <1>0, <1>1, <1>2 DEF AttemptFails, Working, Ok, Attempted, Alive, Numbers
  <2>2. e \in 0..MaxAttempts /\ e <= o.made + 1 /\ o.errors <= e
        /\ (rollbacks = 0 => e = o.made + 1)
    BY <1>0, <1>1, <2>1 DEF Ok, Reasons, Numbers
  <2> HIDE DEF e
  <2>3. o.made + 1 \in 0..MaxAttempts /\ j \in {"wait", "failed"}
    BY <1>1, <2>1 DEF Numbers
  <2>4. /\ n \in Op /\ n.made = o.made + 1 /\ n.errors = e /\ n.job = j
        /\ n.request = "none" /\ n.stops = o.stops /\ n.stalled = o.stalled
        /\ SameMail(o, n) /\ SameSender(o, n)
        /\ n.id = o.id /\ n.received = o.received
    <3> HIDE DEF j
    <3> QED
      BY <1>0, <2>2, <2>3 DEF SameMail, SameSender, Op
  <2>5. Become(m, n) /\ UNCHANGED Rest
    BY <1>2 DEF AttemptFails, e
  <2> HIDE DEF n
  <2>6. Attempted(n)
    BY <1>1, <2>1, <2>3, <2>4 DEF Attempted, Alive, Numbers
  <2>7. Reasons(n, rollbacks)
    BY <1>0, <1>1, <2>1, <2>2, <2>4 DEF Reasons, Numbers
  <2>8. n.job \in Alive \cup {"failed", "gone"} /\ Works(o, n)
    BY <2>1, <2>3, <2>4 DEF Works, Alive
  <2>9. o.stops <= n.stops
    BY <1>1, <2>4 DEF Numbers
  <2> HIDE DEF j
  <2> QED
    BY <2>2, <2>4, <2>5, <2>6, <2>7, <2>8, <2>9, JobMoves
<1>3. CASE StalledCheck(m)
  <2> DEFINE j == IF o.stalled < Max_Stalled THEN "wait" ELSE "failed"
             n == [o EXCEPT !.stalled = o.stalled + 1, !.job = j]
  <2>1. /\ o.job = "orphan" /\ o.request = "none"
        /\ o.made < MaxAttempts /\ o.stalled <= Max_Stalled
        /\ o.stops = o.stalled + 1
    BY <1>0, <1>3 DEF StalledCheck, Ok, Attempted, Alive
  <2>2. o.stalled + 1 \in 0..(Max_Stalled + 1) /\ j \in {"wait", "failed"}
    BY <1>1, <2>1 DEF Numbers, Max_Stalled
  <2>3. /\ n \in Op /\ n.made = o.made /\ n.errors = o.errors /\ n.job = j
        /\ n.request = "none" /\ n.stops = o.stops
        /\ n.stalled = o.stalled + 1
        /\ SameMail(o, n) /\ SameSender(o, n)
        /\ n.id = o.id /\ n.received = o.received
    <3> HIDE DEF j
    <3> QED
      BY <1>0, <2>1, <2>2 DEF SameMail, SameSender, Op
  <2>4. Become(m, n) /\ UNCHANGED Rest
    BY <1>3 DEF StalledCheck
  <2> HIDE DEF n
  <2>5. Attempted(n)
    BY <1>1, <2>1, <2>2, <2>3 DEF Attempted, Alive, Numbers, Max_Stalled
  <2>6. Reasons(n, rollbacks)
    BY <1>0, <1>1, <2>1, <2>2, <2>3 DEF Ok, Reasons, Numbers, Max_Stalled
  <2>7. n.job \in Alive \cup {"failed", "gone"} /\ Works(o, n)
    BY <2>1, <2>2, <2>3 DEF Works, Alive
  <2>8. o.errors <= n.errors /\ o.stops <= n.stops
    BY <1>1, <2>3 DEF Numbers
  <2> HIDE DEF j
  <2> QED
    BY <2>3, <2>4, <2>5, <2>6, <2>7, <2>8, JobMoves
<1> QED
  BY <1>2, <1>3

-----------------------------------------------------------------------------
(* The process and its Redis.                                               *)

\* Every operation goes on or stays, and no id is given.
LEMMA AllMove ==
    ASSUME MailInv, op' \in [Ops -> Op], keys' = keys,
           worker' \in {"up", "down"}, crashes' \in 0..MaxCrashes,
           rollbacks' \in 0..MaxRollbacks,
           \/ nextId' = nextId /\ rollbacks' = rollbacks
           \/ nextId' \in 1..nextId /\ rollbacks' = rollbacks + 1,
           \A m \in Ops : /\ Moves(op[m], op'[m]) /\ op'[m].id = op[m].id
                          /\ Ok(m, op'[m], keys, rollbacks')
    PROVE  MailInv' /\ PromiseStep
<1>1. rollbacks \in Nat /\ rollbacks' \in Nat
  BY BoundsAreNat DEF MailInv, TypeOK
<1>2. rollbacks <= rollbacks'
  BY <1>1
<1>3. MailInv'
  BY <1>1, IdsKept
<1> QED
  BY <1>1, <1>2, <1>3, MovesImplement

LEMMA Crashes == MailInv /\ (WorkerCrash \/ WorkerStart) => MailInv' /\ PromiseStep
<1> SUFFICES ASSUME MailInv, WorkerCrash \/ WorkerStart
             PROVE  MailInv' /\ PromiseStep
  OBVIOUS
<1>0. TypeOK
  BY DEF MailInv
<1>1. ASSUME NEW m \in Ops
      PROVE  /\ Moves(op[m], Abandoned(op[m])) /\ Moves(op[m], op[m])
             /\ Abandoned(op[m]).id = op[m].id
             /\ Ok(m, Abandoned(op[m]), keys, rollbacks)
             /\ Ok(m, op[m], keys, rollbacks)
  <2> DEFINE o == op[m]
  <2>0. o \in Op /\ Ok(m, o, keys, rollbacks) /\ Numbers(o)
    BY OkNow, NumbersOk
  <2>1. Moves(o, o)
    BY <2>0, StaysOk
  <2>2. CASE o.job # "active"
    <3>1. Abandoned(o) = o
      BY <2>2 DEF Abandoned
    <3> QED
      BY <2>0, <2>1, <3>1
  <2>3. CASE o.job = "active"
    <3> DEFINE n == Abandoned(o)
    <3>1. o.made < MaxAttempts /\ o.stalled <= Max_Stalled /\ o.stops = o.stalled
      BY <2>0, <2>3 DEF Ok, Attempted, Alive, Numbers
    <3>2. o.stops + 1 \in 0..(Max_Stalled + 1)
      BY <2>0, <3>1 DEF Numbers, Max_Stalled
    <3>3. n = [o EXCEPT !.job = "orphan", !.request = "none",
                        !.stops = o.stops + 1,
                        !.late = o.late \/ o.request = "sent"]
      BY <2>3 DEF Abandoned
    <3>4. (o.late \/ o.request = "sent") \in BOOLEAN
      BY <2>0 DEF Op
    <3>5. /\ n \in Op /\ n.made = o.made /\ n.errors = o.errors
          /\ n.job = "orphan" /\ n.request = "none" /\ n.stops = o.stops + 1
          /\ n.stalled = o.stalled
          /\ SameMail(o, n) /\ SameSender(o, n)
          /\ n.id = o.id /\ n.received = o.received
      BY <2>0, <3>2, <3>3, <3>4 DEF SameMail, SameSender, Op
    <3> HIDE DEF n
    <3>6. Attempted(n)
      BY <2>0, <3>1, <3>5 DEF Attempted, Alive, Numbers
    <3>7. Reasons(n, rollbacks)
      BY <2>0, <3>5 DEF Ok, Reasons, Numbers
    <3>8. Works(o, n) /\ n.job \in Alive
      BY <2>3, <3>5 DEF Works, Alive
    <3>9. o.errors <= n.errors /\ o.stops <= n.stops
      BY <2>0, <3>5 DEF Numbers
    <3>10. Moves(o, n) /\ n.id = o.id /\ Ok(m, n, keys, rollbacks)
      BY <2>0, <3>5, <3>6, <3>7, <3>8, <3>9, WorksOk
    <3> QED
      BY <2>0, <2>1, <3>10 DEF n
  <2> QED
    BY <2>2, <2>3
<1>2. CASE WorkerCrash
  <2>1. /\ op' = [m \in Ops |-> Abandoned(op[m])]
        /\ worker' = "down" /\ crashes' \in 0..MaxCrashes
        /\ UNCHANGED <<nextId, keys, rollbacks>>
    BY <1>0, <1>2, BoundsAreNat DEF WorkerCrash, TypeOK
  <2>2. op' \in [Ops -> Op]
    BY <1>1, <2>1 DEF Ok
  <2>3. \A m \in Ops : /\ Moves(op[m], op'[m]) /\ op'[m].id = op[m].id
                       /\ Ok(m, op'[m], keys, rollbacks')
    BY <1>1, <2>1
  <2> QED
    BY <1>0, <2>1, <2>2, <2>3, AllMove DEF TypeOK
<1>3. CASE WorkerStart
  BY <1>0, <1>1, <1>3, AllMove DEF WorkerStart, TypeOK
<1> QED
  BY <1>2, <1>3

LEMMA Rolls == MailInv /\ RedisRollback => MailInv' /\ PromiseStep
<1> SUFFICES ASSUME MailInv, RedisRollback PROVE MailInv' /\ PromiseStep
  OBVIOUS
<1> DEFINE Gone(o) == [o EXCEPT !.job = "gone", !.request = "none",
                                !.late = @ \/ o.request = "sent"]
<1>0. TypeOK /\ rollbacks \in Nat /\ Cardinality(Ops) \in Nat
  BY BoundsAreNat, OpsAreFinite, FS_CardinalityType DEF MailInv, TypeOK
<1>1. ASSUME NEW m \in Ops
      PROVE  /\ Moves(op[m], op[m]) /\ Ok(m, op[m], keys, rollbacks + 1)
             /\ op[m].job \in Alive =>
                    /\ Moves(op[m], Gone(op[m])) /\ Gone(op[m]).id = op[m].id
                    /\ Ok(m, Gone(op[m]), keys, rollbacks + 1)
  <2> DEFINE o == op[m]
             n == Gone(o)
  <2>0. o \in Op /\ Ok(m, o, keys, rollbacks) /\ Numbers(o)
    BY OkNow, NumbersOk
  <2>1. Reasons(o, rollbacks + 1)
    BY <1>0, <2>0 DEF Ok, Reasons
  <2>2. Ok(m, o, keys, rollbacks + 1)
    BY <2>0, <2>1 DEF Ok
  <2>3. ASSUME o.job \in Alive
        PROVE  Moves(o, n) /\ n.id = o.id /\ Ok(m, n, keys, rollbacks + 1)
    <3>1. /\ n \in Op /\ n.made = o.made /\ n.errors = o.errors
          /\ n.job = "gone" /\ n.request = "none" /\ n.stops = o.stops
          /\ SameMail(o, n) /\ SameSender(o, n)
          /\ n.id = o.id /\ n.received = o.received
      BY <2>0 DEF SameMail, SameSender, Op
    <3> HIDE DEF n
    <3>2. Attempted(n) /\ Reasons(n, rollbacks + 1)
      BY <1>0, <2>1, <3>1 DEF Attempted, Reasons, Alive
    <3>3. Works(o, n)
      BY <2>3, <3>1 DEF Works
    <3>4. o.errors <= n.errors /\ o.stops <= n.stops
      BY <2>0, <3>1 DEF Numbers
    <3> QED
      BY <2>2, <3>1, <3>2, <3>3, <3>4, WorksOk
  <2> QED
    BY <2>0, <2>2, <2>3, StaysOk
<1>2. /\ rollbacks' = rollbacks + 1 /\ nextId' = nextId - 1 /\ nextId > 1
      /\ rollbacks' \in 0..MaxRollbacks
      /\ UNCHANGED <<worker, keys, crashes>>
  <2>1. /\ rollbacks < MaxRollbacks /\ rollbacks' = rollbacks + 1
        /\ nextId' = nextId - 1 /\ nextId > 1
        /\ UNCHANGED <<worker, keys, crashes>>
    BY DEF RedisRollback
  <2> QED
    BY <1>0, <2>1, BoundsAreNat
<1>3. /\ op' = [m \in Ops |-> op'[m]]
      /\ \A m \in Ops : op'[m] = op[m] \/ (op[m].job \in Alive /\ op'[m] = Gone(op[m]))
  BY DEF RedisRollback, Alive
<1> HIDE DEF Gone
<1>4. \A m \in Ops : /\ Moves(op[m], op'[m]) /\ op'[m].id = op[m].id
                     /\ Ok(m, op'[m], keys, rollbacks')
  BY <1>1, <1>2, <1>3
<1>5. op' \in [Ops -> Op]
  BY <1>3, <1>4 DEF Ok
<1>6. nextId' \in 1..nextId
  BY <1>0, <1>2 DEF TypeOK
<1> QED
  BY <1>0, <1>2, <1>4, <1>5, <1>6, AllMove DEF TypeOK

-----------------------------------------------------------------------------
(* A mail is owed, queued, delivered, confirmed.                            *)

LEMMA BeginsOk ==
    ASSUME NEW n \in Beginnings, NEW k, NEW r \in Nat
    PROVE  /\ n \in Op /\ n.complete /\ n.id = 0 /\ n.job = "none"
           /\ ~n.dropped /\ n.errors = 0 /\ n.stops = 0 /\ n.received = 0
           /\ \A m : Ok(m, n, k, r)
<1>1. PICK e \in Events : n = Committed(e)
  BY DEF Beginnings
<1> DEFINE mails    == {x \in Mails : x.event = e}
           mail     == mails # {}
           renders  == \A x \in mails : Renders(x)
           complete == \A x \in mails : IsComplete(x)
           looks_up == \E x \in mails : x.looks_up
           awaited  == e \in {x.event : x \in RegisterReports}
           filed    == e \in {x.event : x \in Reports}
           pc       == IF awaited THEN "auditing" ELSE "publishing"
           report   == CASE awaited -> "due"
                         [] filed /\ ~awaited -> "listed"
                         [] OTHER -> "none"
<1>2. n = [Idle EXCEPT !.mail = mail, !.renders = renders,
                       !.complete = complete, !.looks_up = looks_up,
                       !.pc = pc, !.report = report]
  BY <1>1 DEF Committed
<1>3. renders /\ complete /\ renders \in BOOLEAN /\ complete \in BOOLEAN
  BY CatalogueSound
<1>4. mail \in BOOLEAN /\ looks_up \in BOOLEAN
      /\ pc \in {"auditing", "publishing"} /\ report \in {"none", "listed", "due"}
  OBVIOUS
<1> HIDE DEF mails, awaited, filed, mail, renders, complete, looks_up, pc, report
<1>5. Cardinality(Ops) \in Nat
  BY OpsAreFinite, FS_CardinalityType
<1>6. /\ n.mail = mail /\ n.renders = renders /\ n.complete = complete
      /\ n.looks_up = looks_up /\ n.pc = pc /\ n.report = report
      /\ n.id = 0 /\ n.job = "none" /\ n.made = 0 /\ n.stalled = 0
      /\ n.request = "none" /\ n.late = FALSE
      /\ ~n.dropped /\ n.errors = 0 /\ n.stops = 0 /\ n.received = 0
  BY <1>2 DEF Idle
<1>7. n \in Op
  <2>1. Idle \in Op
    BY <1>5, SomeAttempts DEF Idle, Op, Max_Stalled
  <2>2. pc \in {"idle", "auditing", "publishing", "lookup", "posting", "ended"}
    BY <1>4
  <2> DEFINE i == [Idle EXCEPT !.mail = mail, !.renders = renders,
                               !.complete = complete]
  <2>3. i \in Op
    BY <1>3, <1>4, <2>1 DEF Op
  <2>4. n = [i EXCEPT !.looks_up = looks_up, !.pc = pc, !.report = report]
    BY <1>2 DEF Idle
  <2> HIDE DEF i
  <2> QED
    BY <1>4, <2>2, <2>3, <2>4 DEF Op
<1>8. Asked(n) /\ Attempted(n) /\ Reasons(n, r)
  BY <1>3, <1>4, <1>6 DEF Asked, Attempted, Reasons, Alive
<1>9. \A m : Sent(m, n, k)
  BY <1>6 DEF Sent
<1> QED
  BY <1>3, <1>6, <1>7, <1>8, <1>9 DEF Ok

LEMMA Commits ==
    ASSUME MailInv, NEW m \in Ops, Commit(m)
    PROVE  MailInv' /\ PromiseStep
<1>0. TypeOK /\ rollbacks \in Nat /\ UNCHANGED <<worker, nextId, keys, crashes, rollbacks>>
  BY BoundsAreNat DEF MailInv, TypeOK, Commit, Rest
<1>1. PICK n \in Beginnings : Become(m, n)
  BY DEF Commit
<1>2. /\ n \in Op /\ n.complete /\ n.id = 0 /\ n.job = "none"
      /\ ~n.dropped /\ n.errors = 0 /\ n.stops = 0 /\ n.received = 0
      /\ Ok(m, n, keys, rollbacks)
  BY <1>0, BeginsOk
<1>3. op[m] = Idle
  BY OkNow DEF Commit, Ok, Asked
<1>4. op' \in [Ops -> Op] /\ op'[m] = n /\ \A x \in Ops \ {m} : op'[x] = op[x]
  BY <1>0, <1>1, <1>2 DEF Become, TypeOK
<1>5. MailInv'
  <2>1. \A x \in Ops : /\ op'[x].id = op[x].id
                       /\ Ok(x, op'[x], keys, rollbacks')
    BY <1>0, <1>2, <1>3, <1>4, OkNow DEF Idle
  <2> QED
    BY <1>0, <1>4, <2>1, IdsKept DEF TypeOK
<1>6. \A x \in Ops : /\ Settled(op'[x]) = Settled(op[x])
                     /\ op'[x].dropped = op[x].dropped
                     /\ op'[x].errors = op[x].errors
                     /\ op'[x].stops = op[x].stops
                     /\ (IF op'[x].complete THEN op'[x].received ELSE 0)
                           = IF op[x].complete THEN op[x].received ELSE 0
  <2>1. Settled(n) = "open" /\ Settled(Idle) = "open"
    BY <1>2 DEF Settled, Idle
  <2>2. n.dropped = FALSE
    BY <1>2 DEF Op
  <2>3. /\ Idle.dropped = FALSE /\ Idle.errors = 0 /\ Idle.stops = 0
        /\ Idle.received = 0
    BY DEF Idle
  <2>4. ASSUME NEW x \in Ops, x # m PROVE op'[x] = op[x]
    BY <1>4, <2>4
  <2> QED
    BY <1>2, <1>3, <1>4, <2>1, <2>2, <2>3, <2>4
<1>7. UNCHANGED <<[x \in Ops |-> IF op[x].complete THEN op[x].received ELSE 0],
                  Excused, [x \in Ops |-> Settled(op[x])]>>
  BY <1>0, <1>6 DEF Excused
<1>8. Owed' = Owed \/ Owed' = Owed \cup {m}
  BY <1>3, <1>4 DEF Owed, Idle
<1>9. Promise!Owe(m) \/ Owed' = Owed
  BY <1>7, <1>8 DEF Promise!Owe
<1> QED
  BY <1>5, <1>7, <1>9 DEF PromiseStep, Promise!AbsNext

LEMMA Completes ==
    ASSUME MailInv, NEW m \in Ops, Complete(m)
    PROVE  MailInv' /\ PromiseStep
<1> DEFINE o == op[m]
           n == [o EXCEPT !.job = "done", !.request = "none"]
<1>0. o \in Op /\ Ok(m, o, keys, rollbacks) /\ TypeOK
      /\ UNCHANGED <<worker, nextId, keys, crashes, rollbacks>>
  BY OkNow DEF MailInv, Complete, Rest
<1>1. /\ o.job = "active" /\ o.request = "ok" /\ Become(m, n)
      /\ o.received = 1 /\ o.complete /\ ~o.dropped
  BY <1>0 DEF Complete, Working, Ok, Sent, Asked
<1>2. /\ n \in Op /\ SameMail(o, n) /\ SameSender(o, n)
      /\ n.id = o.id /\ n.received = o.received
      /\ n.made = o.made /\ n.errors = o.errors /\ n.stops = o.stops
      /\ n.late = o.late
      /\ n.job = "done" /\ n.request = "none"
  BY <1>0 DEF Op, SameMail, SameSender
<1> HIDE DEF n
<1>3. Ok(m, n, keys, rollbacks)
  BY <1>0, <1>1, <1>2
  DEF Ok, Asked, Attempted, Reasons, Sent, SameMail, SameSender, Alive
<1>4. op' \in [Ops -> Op] /\ op'[m] = n /\ \A x \in Ops \ {m} : op'[x] = op[x]
  BY <1>0, <1>1, <1>2 DEF Become, TypeOK
<1>5. MailInv'
  <2>1. \A x \in Ops : /\ op'[x].id = op[x].id
                       /\ Ok(x, op'[x], keys, rollbacks')
    BY <1>0, <1>2, <1>3, <1>4, OkNow
  <2> QED
    BY <1>0, <1>4, <2>1, IdsKept DEF TypeOK
<1>6. UNCHANGED <<Owed, [x \in Ops |-> IF op[x].complete THEN op[x].received ELSE 0],
                  Excused>>
  BY <1>0, <1>2, <1>4 DEF SameMail, SameSender, Owed, Excused
<1>7. Settled(o) = "open" /\ Settled(n) = "sent"
  BY <1>1, <1>2 DEF Settled
<1>8. [x \in Ops |-> Settled(op[x])]'
        = [[x \in Ops |-> Settled(op[x])] EXCEPT ![m] = "sent"]
  <2>1. Settled(op'[m]) = "sent" /\ \A x \in Ops \ {m} : op'[x] = op[x]
    BY <1>4, <1>7
  <2> QED
    BY <2>1
<1>9. Promise!Confirm(m)
  BY <1>1, <1>6, <1>7, <1>8 DEF Promise!Confirm
<1> QED
  BY <1>5, <1>9 DEF PromiseStep, Promise!AbsNext

(* Every job gets an id that no mail was sent under, unless Redis went back. *)
LEMMA Enqueues ==
    ASSUME MailInv, NEW m \in Ops, Enqueue(m)
    PROVE  MailInv' /\ PromiseStep
<1> DEFINE o == op[m]
           n == [o EXCEPT !.pc = "ended", !.job = "wait", !.id = nextId]
<1>0. /\ o \in Op /\ Ok(m, o, keys, rollbacks) /\ TypeOK /\ Numbers(o)
      /\ rollbacks \in Nat /\ Cardinality(Ops) \in Nat
  BY OkNow, NumbersOk, BoundsAreNat, OpsAreFinite, FS_CardinalityType
  DEF MailInv, TypeOK
<1>1. /\ o.pc = "posting" /\ o.job = "none" /\ o.id = 0 /\ o.mail /\ ~o.dropped
      /\ nextId' = nextId + 1 /\ Become(m, n)
      /\ UNCHANGED <<worker, keys, crashes, rollbacks>>
  BY <1>0 DEF Enqueue, Ok, Asked
<1>2. /\ IsFiniteSet(WithJob(Ids)) /\ m \notin WithJob(Ids)
      /\ Cardinality(WithJob(Ids)) \in Nat
      /\ Cardinality(WithJob(Ids) \cup {m}) = Cardinality(WithJob(Ids)) + 1
      /\ Cardinality(WithJob(Ids) \cup {m}) <= Cardinality(Ops)
  <2>1. m \notin WithJob(Ids) /\ WithJob(Ids) \subseteq Ops
    BY <1>1 DEF WithJob, Ids
  <2>2. IsFiniteSet(WithJob(Ids)) /\ WithJob(Ids) \cup {m} \subseteq Ops
    BY <2>1, OpsAreFinite, FS_Subset
  <2> QED
    BY <2>1, <2>2, OpsAreFinite, FS_Subset, FS_AddElement, FS_CardinalityType
<1>3. nextId \in 1..Cardinality(Ops)
  <2>1. nextId \in 1..(Cardinality(Ops) + 1)
        /\ nextId - 1 <= Cardinality(WithJob(Ids))
    BY <1>0 DEF MailInv, TypeOK
  <2> QED
    BY <1>0, <1>2, <2>1
<1>4. /\ n \in Op /\ SameMail(o, n) /\ n.pc = "ended" /\ n.dropped = o.dropped
      /\ n.job = "wait" /\ n.id = nextId /\ n.made = o.made
      /\ n.stalled = o.stalled /\ n.errors = o.errors /\ n.stops = o.stops
      /\ SamePost(o, n)
  <2>1. nextId \in 0..Cardinality(Ops)
    BY <1>0, <1>3
  <2> QED
    BY <1>0, <2>1 DEF Op, SameMail, SamePost
<1> HIDE DEF n
<1>5. op' \in [Ops -> Op] /\ op'[m] = n /\ \A x \in Ops \ {m} : op'[x] = op[x]
  BY <1>0, <1>1, <1>4 DEF Become, TypeOK
<1>6. Ok(m, n, keys, rollbacks)
  <2>1. Asked(n)
    BY <1>0, <1>1, <1>3, <1>4 DEF Ok, Asked, SameMail
  <2>2. Attempted(n)
    BY <1>0, <1>1, <1>4, SomeAttempts DEF Ok, Attempted, SamePost, Alive, Max_Stalled
  <2>3. Reasons(n, rollbacks)
    BY <1>0, <1>1, <1>4 DEF Ok, Reasons, SamePost
  <2>4. keys[nextId] # m
    <3>1. CASE keys[nextId] # "free"
      BY <1>1, <1>3, <3>1 DEF MailInv, Ids
    <3>2. CASE keys[nextId] = "free"
      BY <3>2, OpsAreFinite
    <3> QED
      BY <3>1, <3>2
  <2>5. Sent(m, n, keys)
    BY <1>0, <1>1, <1>4, <2>4 DEF Ok, Sent, Attempted, SamePost
  <2> QED
    BY <1>4, <2>1, <2>2, <2>3, <2>5 DEF Ok
<1>7. /\ Ids'[m] = nextId /\ \A x \in Ops \ {m} : Ids'[x] = Ids[x]
      /\ Ids[m] = 0
  BY <1>1, <1>4, <1>5 DEF Ids
<1>8. MailInv'
  <2>1. TypeOK'
    BY <1>0, <1>1, <1>3, <1>5 DEF TypeOK
  <2>2. \A x \in Ops : Ok(x, op'[x], keys', rollbacks')
    BY <1>1, <1>5, <1>6, OkNow
  <2>3. Numbered(Ids, rollbacks)'
    <3>1. \A x \in Ops : Ids[x] \in Nat
      BY <1>0, OkNow DEF Ids, Op
    <3>2. Ids'[m] < nextId' /\ nextId \in Nat
      BY <1>1, <1>3, <1>7
    <3>3. ASSUME rollbacks = 0, NEW x \in Ops, x # m
          PROVE  Ids'[x] < nextId /\ Ids'[x] < nextId'
      BY <1>1, <1>7, <3>1, <3>2, <3>3 DEF MailInv, Numbered
    <3> QED
      BY <1>1, <1>7, <3>1, <3>2, <3>3 DEF MailInv, Numbered
  <2>4. WithJob(Ids)' = WithJob(Ids) \cup {m}
    BY <1>3, <1>7 DEF WithJob
  <2>5. nextId' - 1 <= Cardinality(WithJob(Ids)')
    BY <1>0, <1>1, <1>2, <1>3, <2>4 DEF MailInv
  <2>6. \A k \in 1..Cardinality(Ops) : keys'[k] # "free" => Ids'[keys'[k]] = k
    <3> SUFFICES ASSUME NEW k \in 1..Cardinality(Ops), keys[k] # "free"
                 PROVE  Ids'[keys[k]] = k
      BY <1>1
    <3>1. keys[k] \in Ops /\ Ids[keys[k]] = k /\ k # 0
      BY <1>0 DEF MailInv, TypeOK
    <3> QED
      BY <1>7, <3>1
  <2> QED
    BY <2>1, <2>2, <2>3, <2>5, <2>6 DEF MailInv
<1>9. PromiseStep
  <2>1. Moves(o, n)
    BY <1>0, <1>1, <1>4 DEF Moves, SameMail, SamePost, Numbers
  <2>2. \A x \in Ops : Moves(op[x], op'[x]) /\ Ok(x, op'[x], keys', rollbacks')
    BY <1>1, <1>5, <1>6, <2>1, OkNow, StaysOk
  <2> QED
    BY <1>0, <1>1, <1>5, <2>2, MovesImplement
<1> QED
  BY <1>8, <1>9

(* Resend takes a request in: of an attempt, or one that came late.         *)
LEMMA Arrives ==
    ASSUME MailInv, NEW m \in Ops, Answered(m) \/ LateRequest(m),
           NEW n \in Op, Accept(m, n),
           SameMail(op[m], n), SameSender(op[m], n), SameJob(op[m], n),
           n.received = op[m].received,
           n.request = op[m].request \/ (n.request = "ok" /\ op[m].job = "active"),
           UNCHANGED <<worker, nextId, crashes, rollbacks>>
    PROVE  MailInv' /\ PromiseStep
<1> DEFINE o == op[m]
           k == o.id
           free == keys[k] = "free"
           u == [n EXCEPT !.received = IF free THEN @ + 1 ELSE @]
<1>0. /\ o \in Op /\ Ok(m, o, keys, rollbacks) /\ TypeOK /\ Numbers(o)
      /\ rollbacks \in Nat /\ Cardinality(Ops) \in Nat
  BY OkNow, NumbersOk, BoundsAreNat, OpsAreFinite, FS_CardinalityType
  DEF MailInv, TypeOK
<1>1. o.job # "none" /\ k # 0 /\ o.mail /\ o.complete /\ ~o.dropped
  BY <1>0 DEF Answered, LateRequest, Working, Ok, Asked, Attempted
<1>2. /\ k \in 1..Cardinality(Ops) /\ keys[k] \in {"free", m}
      /\ keys' = [keys EXCEPT ![k] = m] /\ Become(m, u)
  <2>1. k \in 1..Cardinality(Ops)
    BY <1>0, <1>1 DEF Op
  <2> QED
    BY <2>1 DEF Accept, Accepts, idempotencyKey
<1>3. keys'[k] = m /\ \A x \in 1..Cardinality(Ops) : x # k => keys'[x] = keys[x]
  BY <1>0, <1>2 DEF TypeOK
<1>4. /\ free <=> o.received = 0
      /\ ~free <=> o.received = 1
  BY <1>0, <1>1, <1>2, OpsAreFinite DEF Ok, Sent
<1>5. u \in Op /\ u.received = 1 /\ SameMail(o, u) /\ SameSender(o, u)
      /\ SameJob(o, u) /\ u.late = n.late /\ u.request = n.request
  <2>1. (IF free THEN n.received + 1 ELSE n.received) = 1
    BY <1>4
  <2>2. u = [n EXCEPT !.received = 1]
    BY <2>1
  <2> HIDE DEF u
  <2> QED
    BY <2>2 DEF Op, SameMail, SameSender, SameJob
<1> HIDE DEF u
<1>6. op' \in [Ops -> Op] /\ op'[m] = u /\ \A x \in Ops \ {m} : op'[x] = op[x]
  BY <1>0, <1>2, <1>5 DEF Become, TypeOK
<1>7. Ok(m, u, keys', rollbacks)
  <2>1. Asked(u)
    BY <1>0, <1>1, <1>5 DEF Ok, Asked, SameMail, SameSender, SameJob
  <2>2. Attempted(u)
    BY <1>0, <1>1, <1>5 DEF Ok, Attempted, SameJob
  <2>3. Reasons(u, rollbacks)
    BY <1>0, <1>5 DEF Ok, Reasons, SameJob
  <2>4. Sent(m, u, keys')
    BY <1>3, <1>5 DEF Sent, SameJob
  <2> QED
    BY <1>5, <2>1, <2>2, <2>3, <2>4 DEF Ok
<1>8. ASSUME NEW x \in Ops, x # m PROVE Ok(x, op[x], keys', rollbacks)
  <2>1. Ok(x, op[x], keys, rollbacks) /\ op[x] \in Op
    BY OkNow
  <2>2. op[x].id # 0 => (keys'[op[x].id] = x <=> keys[op[x].id] = x)
    <3>1. op[x].id # 0 => op[x].id \in 1..Cardinality(Ops)
      BY <1>0, <2>1 DEF Op
    <3>2. CASE op[x].id = k
      BY <1>2, <1>3, <1>8, <3>2, OpsAreFinite
    <3>3. CASE op[x].id # k
      BY <1>3, <3>1, <3>3
    <3> QED
      BY <3>2, <3>3
  <2> QED
    BY <2>1, <2>2 DEF Ok, Sent
<1>9. Ids' = Ids
  BY <1>5, <1>6 DEF Ids, SameJob
<1>10. MailInv'
  <2>1. TypeOK'
    BY <1>0, <1>2, <1>6 DEF TypeOK
  <2>2. \A x \in Ops : Ok(x, op'[x], keys', rollbacks')
    BY <1>6, <1>7, <1>8
  <2>3. \A x \in 1..Cardinality(Ops) : keys'[x] # "free" => Ids[keys'[x]] = x
    <3>1. Ids[m] = k
      BY DEF Ids
    <3> QED
      BY <1>3, <3>1 DEF MailInv
  <2> QED
    BY <1>9, <2>1, <2>2, <2>3 DEF MailInv, Numbered, WithJob
<1>11. Moves(o, u) \/ free
  BY <1>0, <1>4, <1>5 DEF Moves, SameMail, SameSender, SameJob, Numbers
<1>12. CASE ~free
  <2>1. \A x \in Ops : Moves(op[x], op'[x]) /\ Ok(x, op'[x], keys', rollbacks')
    BY <1>6, <1>7, <1>8, <1>11, <1>12, OkNow, StaysOk
  <2> QED
    BY <1>0, <1>6, <1>10, <2>1, MovesImplement
<1>13. CASE free
  <2>1. Settled(u) = Settled(o)
    BY <1>5 DEF Settled, SameMail, SameSender, SameJob
  <2>2. UNCHANGED <<Owed, Excused, [x \in Ops |-> Settled(op[x])]>>
    BY <1>5, <1>6, <2>1
    DEF Owed, Excused, SameMail, SameSender, SameJob
  <2>3. \A x \in Ops :
           (IF op'[x].complete THEN op'[x].received ELSE 0)
              = IF x = m THEN 1
                ELSE IF op[x].complete THEN op[x].received ELSE 0
    BY <1>1, <1>5, <1>6 DEF SameMail
  <2>4. (IF op[m].complete THEN op[m].received ELSE 0) = 0 /\ m \in Owed
    BY <1>1, <1>4, <1>13 DEF Owed
  <2>5. [x \in Ops |-> IF op[x].complete THEN op[x].received ELSE 0]'
          = [[x \in Ops |-> IF op[x].complete THEN op[x].received ELSE 0]
                EXCEPT ![m] = 1]
    BY <2>3
  <2>6. Promise!Deliver(m)
    BY <2>2, <2>4, <2>5 DEF Promise!Deliver
  <2> QED
    BY <1>10, <2>6 DEF PromiseStep, Promise!AbsNext
<1> QED
  BY <1>12, <1>13

LEMMA Deliveries ==
    ASSUME MailInv, NEW m \in Ops, Answered(m) \/ LateRequest(m)
    PROVE  MailInv' /\ PromiseStep
<1> DEFINE o == op[m]
           n == [o EXCEPT !.request = "ok"]
<1>0. o \in Op
  BY OkNow
<1>1. CASE Answered(m) /\ Accept(m, n)
  <2>1. /\ n \in Op /\ SameMail(o, n) /\ SameSender(o, n) /\ SameJob(o, n)
        /\ n.received = o.received /\ n.request = "ok"
    BY <1>0 DEF Op, SameMail, SameSender, SameJob
  <2>2. o.job = "active" /\ UNCHANGED <<worker, nextId, crashes, rollbacks>>
    BY <1>1 DEF Answered, Working
  <2> HIDE DEF n
  <2> QED
    BY <1>1, <2>1, <2>2, Arrives
<1>2. CASE Answered(m) /\ ~Accept(m, n)
  <2>1. /\ Working(m) /\ op[m].request = "sent" /\ ~Accepts(m)
        /\ Become(m, [op[m] EXCEPT !.request = "error"])
        /\ UNCHANGED Rest
    BY <1>2 DEF Answered, Rest
  <2> QED
    BY <2>1, RequestMoves
<1>3. CASE LateRequest(m)
  <2>1. /\ SameMail(o, o) /\ SameSender(o, o) /\ SameJob(o, o)
        /\ Accept(m, o) /\ UNCHANGED <<worker, nextId, crashes, rollbacks>>
    BY <1>3 DEF LateRequest, SameMail, SameSender, SameJob
  <2> QED
    BY <1>0, <1>3, <2>1, Arrives
<1> QED
  BY <1>1, <1>2, <1>3

-----------------------------------------------------------------------------
(* The theorems.                                                            *)

LEMMA MailStep == MailInv /\ Next => MailInv' /\ PromiseStep
BY Commits, AuthSends, Enqueues, AuthCrashes, RequestMoves, Deliveries,
   Completes, AttemptMoves, Crashes, Rolls
DEF Next, AuthStep, RequestStep, JobStep

LEMMA MailStutters == MailInv /\ UNCHANGED vars => MailInv' /\ PromiseStep
<1>1. UNCHANGED vars => UNCHANGED <<Ids, Owed, Excused>>
  BY DEF vars, Ids, Owed, Excused
<1> QED
  BY <1>1 DEF vars, MailInv, TypeOK, Numbered, WithJob, PromiseStep

LEMMA MailInvariant == Init /\ [][Next]_vars => []MailInv
BY MailInit, MailStep, MailStutters, PTL

(* The types of the state: no job is tried more often than configured, and  *)
(* no mail gets an id above the number of operations.                       *)
THEOREM TypeCorrect == Spec => []TypeOK
<1>1. MailInv => TypeOK
  BY DEF MailInv
<1> QED
  BY <1>1, MailInvariant, PTL DEF Spec

(* A mail is delivered at most once, confirmed only when it was delivered   *)
(* whole, and given up only after more failures than the retries are for,   *)
(* whatever crashes, times out, comes late or is forgotten by Redis.        *)
THEOREM Refinement == Spec => Delivery
<1>1. Init => Promise!AbsInit
  <2>1. Idle.mail = FALSE /\ Idle.complete = FALSE /\ Idle.dropped = FALSE
        /\ Idle.errors = 0 /\ Idle.stops = 0 /\ Settled(Idle) = "open"
    BY DEF Idle, Settled
  <2> QED
    BY <2>1, SomeAttempts DEF Init, Promise!AbsInit, Owed, Excused, Max_Stalled
<1>2. MailInv /\ [Next]_vars => [Promise!AbsNext]_(Promise!absVars)
  BY MailStep, MailStutters DEF PromiseStep, Promise!absVars
<1> QED
  BY <1>1, <1>2, MailInvariant, PTL DEF Spec, Delivery, Promise!AbsSpec

-----------------------------------------------------------------------------
(* Every mail is settled: what can be said of it without fairness.  Left is *)
(* what an operation has still to go through; it never grows, each step of  *)
(* its own uses some of it up, and as long as there is any of it left, such *)
(* a step can be taken or waits for one that can.                           *)

\* In units that the steps use up: an attempt, and a run after a crash, are
\* worth more than the steps that one consists of, and a mail that is not yet
\* asked for is worth more than all of them.
Unit  == 10
Fresh == Unit * MaxAttempts + Unit * (Max_Stalled + 1) + 5

RunLeft(o) == IF o.job = "wait" THEN 5
              ELSE IF o.job = "orphan" THEN 1
              ELSE CASE o.request = "sent" -> 4
                     [] o.request = "ok"   -> 3
                     [] OTHER              -> 2

JobLeft(o) == IF o.job \notin Alive THEN 0
              ELSE Unit * (MaxAttempts - o.made)
                     + Unit * (Max_Stalled + 1 - o.stalled) + RunLeft(o)

SenderLeft(o) == CASE o.pc = "idle"       -> Fresh + 7
                   [] o.pc = "auditing"   -> Fresh + 4
                   [] o.pc = "publishing" -> Fresh + 3
                   [] o.pc = "lookup"     -> Fresh + 2
                   [] o.pc = "posting"    -> Fresh + 1
                   [] OTHER               -> 0

ReportLeft(o) == CASE o.report = "listed" -> 2
                   [] o.report = "due"    -> 1
                   [] OTHER               -> 0

Left(o) == SenderLeft(o) + ReportLeft(o) + JobLeft(o)

\* The steps of an operation, as opposed to what happens to it.
Own(m) == Commit(m) \/ AuthStep(m) \/ Take(m) \/ RequestStep(m) \/ JobStep(m)

CountsDown ==
    \A m \in Ops : /\ Left(op[m]) \in Nat /\ Left(op'[m]) \in Nat
                   /\ Left(op'[m]) <= Left(op[m])
                   /\ Own(m) => Left(op'[m]) < Left(op[m])

\* What Settles asks for.
AtRest(o) == /\ o.mail => Settled(o) # "open"
             /\ o.pc = "ended" /\ o.report = "none"

\* A fair action of m has its guard true.
MayGoOn(m) ==
    \/ op[m].pc \in {"publishing", "lookup", "posting"}
    \/ op[m].report = "due"
    \/ worker = "up" /\ op[m].job = "orphan"
    \/ Working(m) /\ op[m].request \in {"sent", "ok", "error", "spoilt"}
    \/ /\ worker = "up" /\ op[m].job = "wait"
       /\ \A n \in Ops : op[n].job # "active"

\* It waits for the worker to start again, or for the one job under way.
Waits(m) ==
    /\ op[m].job \in {"wait", "orphan"}
    /\ worker = "down" \/ \E n \in Ops : op[n].job = "active" /\ MayGoOn(n)

NeverStuck ==
    \A m \in Ops :
        \/ op[m].pc = "idle" \/ MayGoOn(m) \/ Waits(m)
        \/ AtRest(op[m]) /\ Left(op[m]) = 0

\* A report is due where its request waits for it, only a running worker has
\* a job under way, and a mail that is not asked for any more is dropped.
Going(o, w) ==
    /\ o.pc = "auditing" => o.report = "due"
    /\ o.report = "listed" => o.pc = "publishing"
    /\ o.job = "active" => w = "up" /\ o.request # "none"
    /\ o.pc = "ended" /\ o.mail /\ o.job = "none" => o.dropped

GoingInv == \A m \in Ops : Going(op[m], worker)

LEMMA LeftIsNat ==
    ASSUME NEW o \in Op PROVE Left(o) \in Nat /\ JobLeft(o) \in Nat
<1>1. MaxAttempts \in Nat /\ Fresh \in Nat
  BY SomeAttempts DEF Fresh, Unit, Max_Stalled
<1>2. SenderLeft(o) \in Nat
  BY <1>1 DEF SenderLeft
<1>3. ReportLeft(o) \in Nat
  BY DEF ReportLeft
<1>4. RunLeft(o) \in Nat
  BY DEF RunLeft
<1>5. o.made \in 0..MaxAttempts /\ o.stalled \in 0..(Max_Stalled + 1)
  BY DEF Op
<1>6. JobLeft(o) \in Nat
  BY <1>1, <1>4, <1>5 DEF JobLeft, Unit, Max_Stalled
<1> QED
  BY <1>2, <1>3, <1>6 DEF Left

\* A job that has an attempt and a run left, whatever becomes of it.
LEMMA JobWithin ==
    ASSUME NEW o \in Op, o.job \in Alive,
           o.made < MaxAttempts, o.stalled <= Max_Stalled
    PROVE  /\ JobLeft(o) > 0
           /\ o.job = "wait" /\ o.made = 0 /\ o.stalled = 0 =>
                    JobLeft(o) = Fresh
<1>1. o.made \in Nat /\ o.stalled \in Nat /\ MaxAttempts \in Nat
  BY SomeAttempts DEF Op
<1>2. RunLeft(o) \in {1, 2, 3, 4, 5}
  BY DEF RunLeft
<1>3. o.job = "wait" => RunLeft(o) = 5
  BY DEF RunLeft
<1> QED
  BY <1>1, <1>2, <1>3 DEF JobLeft, Fresh, Unit, Max_Stalled

\* auth-service goes on, up to the request for the mail.
LEMMA SenderCounts ==
    ASSUME NEW o \in Op, NEW n \in Op, SameJob(o, n), SamePost(o, n),
           \/ n.pc = o.pc /\ ReportLeft(n) < ReportLeft(o)
           \/ SenderLeft(n) < SenderLeft(o) /\ ReportLeft(n) <= ReportLeft(o)
    PROVE  Left(n) < Left(o)
<1>1. JobLeft(n) = JobLeft(o) /\ JobLeft(o) \in Nat
  BY LeftIsNat DEF JobLeft, RunLeft, SameJob, SamePost
<1>2. n.pc = o.pc => SenderLeft(n) = SenderLeft(o)
  BY DEF SenderLeft
<1>3. Fresh \in Nat
  BY SomeAttempts DEF Fresh, Unit, Max_Stalled
<1>4. SenderLeft(n) \in Nat /\ SenderLeft(o) \in Nat
  BY <1>3 DEF SenderLeft
<1>5. ReportLeft(n) \in Nat /\ ReportLeft(o) \in Nat
  BY DEF ReportLeft
<1> QED
  BY <1>1, <1>2, <1>4, <1>5 DEF Left

\* notification-service goes on with a job.
LEMMA JobCounts ==
    ASSUME NEW o \in Op, NEW n \in Op,
           n.pc = o.pc, n.report = o.report, JobLeft(n) < JobLeft(o)
    PROVE  Left(n) < Left(o)
<1>1. SenderLeft(n) = SenderLeft(o) /\ ReportLeft(n) = ReportLeft(o)
  BY DEF SenderLeft, ReportLeft
<1>2. Fresh \in Nat
  BY SomeAttempts DEF Fresh, Unit, Max_Stalled
<1>3. SenderLeft(o) \in Nat
  BY <1>2 DEF SenderLeft
<1>4. ReportLeft(o) \in Nat
  BY DEF ReportLeft
<1> QED
  BY <1>1, <1>3, <1>4, LeftIsNat DEF Left

\* A step of m is a step of nothing else.
Only(m) == worker' = worker /\ \A x \in Ops \ {m} : op'[x] = op[x]

GoesOn(m) == Only(m) /\ Going(op'[m], worker') /\ Left(op'[m]) < Left(op[m])

LEMMA Becomes ==
    ASSUME MailInv, NEW m \in Ops, NEW n, Become(m, n), UNCHANGED worker
    PROVE  op'[m] = n /\ Only(m)
BY DEF MailInv, TypeOK, Become, Only

LEMMA AuthCounts ==
    ASSUME MailInv, MailInv', GoingInv, NEW m \in Ops,
           Publish(m) \/ StoreReport(m) \/ Lookup(m) \/ PostFails(m)
    PROVE  GoesOn(m)
<1> DEFINE o == op[m]
           n == op'[m]
<1>0. o \in Op /\ Ok(m, o, keys, rollbacks) /\ Going(o, worker)
  BY OkNow DEF GoingInv
<1>1. n \in Op
  BY DEF MailInv, TypeOK
<1>2. Fresh \in Nat
  BY SomeAttempts DEF Fresh, Unit, Max_Stalled
<1>3. UNCHANGED worker
  BY DEF Publish, StoreReport, Lookup, PostFails, Rest
<1>4. ASSUME NEW c \in Op, n = c, Only(m), SameJob(o, c), SamePost(o, c), Going(c, worker),
             \/ c.pc = o.pc /\ ReportLeft(c) < ReportLeft(o)
             \/ SenderLeft(c) < SenderLeft(o) /\ ReportLeft(c) <= ReportLeft(o)
      PROVE  GoesOn(m)
  BY <1>0, <1>3, <1>4, SenderCounts DEF GoesOn
<1>5. ASSUME o.pc \notin {"idle", "ended"}, o.report # "listed",
             NEW x \in {"none", o.report},
             NEW c, c = [Dropped(o) EXCEPT !.report = x], Become(m, c)
      PROVE  GoesOn(m)
  <2>1. n = c /\ Only(m)
    BY <1>3, <1>5, Becomes
  <2>2. /\ SameJob(o, c) /\ SamePost(o, c)
        /\ c.pc = "ended" /\ c.dropped /\ c.report = x /\ c.job = o.job
    BY <1>0, <1>5 DEF Dropped, SameJob, SamePost, Op
  <2>3. o.job # "active"
    BY <1>0, <1>5 DEF Ok, Asked
  <2>4. Going(c, worker)
    BY <1>5, <2>2, <2>3 DEF Going
  <2>5. SenderLeft(c) = 0 /\ SenderLeft(o) > 0
    BY <1>0, <1>2, <1>5, <2>2 DEF SenderLeft, Op
  <2>6. ReportLeft(c) <= ReportLeft(o)
    BY <1>0, <1>5, <2>2 DEF ReportLeft, Op
  <2> QED
    BY <1>1, <1>4, <2>1, <2>2, <2>4, <2>5, <2>6
<1>6. CASE Publish(m)
  <2> DEFINE pc == IF ~o.mail THEN "ended"
                   ELSE IF o.looks_up THEN "lookup" ELSE "posting"
             rep == IF o.report = "listed" THEN "due" ELSE o.report
             c == [o EXCEPT !.pc = pc, !.report = rep]
  <2>1. o.pc = "publishing" /\ o.job # "active"
    BY <1>0, <1>6 DEF Publish, Ok, Asked
  <2>2. /\ pc \in {"ended", "lookup", "posting"} /\ (o.mail => pc # "ended")
        /\ rep \in {"none", "due"} /\ (rep = "due" => o.report \in {"listed", "due"})
    BY <1>0 DEF Op
  <2>3. n = c /\ Only(m)
    BY <1>3, <1>6, Becomes DEF Publish
  <2> HIDE DEF pc, rep
  <2>4. /\ c.pc = pc /\ c.report = rep /\ c.mail = o.mail
        /\ SameJob(o, c) /\ SamePost(o, c) /\ c.job = o.job
    BY <1>0 DEF Op, SameJob, SamePost
  <2> HIDE DEF c
  <2>5. Going(c, worker)
    BY <2>1, <2>2, <2>4 DEF Going
  <2>6. SenderLeft(c) < SenderLeft(o)
    BY <1>2, <2>1, <2>2, <2>4 DEF SenderLeft
  <2>7. ReportLeft(c) <= ReportLeft(o)
    BY <2>2, <2>4 DEF ReportLeft
  <2> QED
    BY <1>1, <1>4, <2>3, <2>4, <2>5, <2>6, <2>7
<1>7. CASE StoreReport(m)
  <2>1. o.report = "due" /\ o.pc # "idle"
    BY <1>0, <1>7 DEF StoreReport, Ok, Asked, Idle
  <2>2. CASE o.pc = "auditing" /\ n # Counted(o)
    <3> DEFINE c == [Dropped(o) EXCEPT !.report = "none"]
    <3>1. c = Dropped([o EXCEPT !.report = "none"])
      BY <1>0 DEF Dropped, Op
    <3>2. Become(m, Counted(o)) \/ Become(m, c)
      BY <1>7, <2>2, <3>1 DEF StoreReport
    <3>3. Become(m, c)
      BY <1>3, <2>2, <3>2, Becomes
    <3> HIDE DEF c
    <3>4. c = [Dropped(o) EXCEPT !.report = "none"]
      BY DEF c
    <3> QED
      BY <1>5, <2>1, <2>2, <3>3, <3>4
  <2>3. CASE o.pc = "auditing" /\ n = Counted(o)
    <3> DEFINE c == Counted(o)
    <3>1. /\ c.pc = "publishing" /\ c.report = "none" /\ c.job = o.job
          /\ SameJob(o, c) /\ SamePost(o, c)
      BY <1>0, <2>3 DEF Counted, SameJob, SamePost, Op
    <3>2. o.job # "active"
      BY <1>0, <2>3 DEF Ok, Asked
    <3>3. Only(m)
      BY <1>3, <1>7, Becomes DEF StoreReport
    <3> HIDE DEF c
    <3>4. Going(c, worker)
      BY <3>1, <3>2 DEF Going
    <3>5. SenderLeft(c) < SenderLeft(o)
      BY <1>2, <2>3, <3>1 DEF SenderLeft
    <3>6. ReportLeft(c) <= ReportLeft(o)
      BY <2>1, <3>1 DEF ReportLeft
    <3>7. n = c
      BY <2>3 DEF c
    <3> QED
      BY <1>1, <1>4, <3>1, <3>3, <3>4, <3>5, <3>6, <3>7
  <2>4. CASE o.pc # "auditing"
    <3> DEFINE c == [o EXCEPT !.report = "none"]
    <3>1. Counted(o) = c
      BY <1>0, <2>4 DEF Counted, Op
    <3>2. Become(m, c)
      BY <1>7, <2>4, <3>1 DEF StoreReport
    <3>3. n = c /\ Only(m)
      BY <1>3, <3>2, Becomes
    <3>4. /\ c.pc = o.pc /\ c.report = "none" /\ c.mail = o.mail
          /\ c.request = o.request /\ c.dropped = o.dropped /\ c.job = o.job
          /\ SameJob(o, c) /\ SamePost(o, c)
      BY <1>0 DEF SameJob, SamePost, Op
    <3> HIDE DEF c
    <3>5. Going(c, worker)
      BY <1>0, <2>4, <3>4 DEF Going
    <3>6. ReportLeft(c) < ReportLeft(o)
      BY <2>1, <3>4 DEF ReportLeft
    <3> QED
      BY <1>1, <1>4, <3>3, <3>4, <3>5, <3>6
  <2> QED
    BY <2>2, <2>3, <2>4
<1>8. CASE Lookup(m)
  <2> DEFINE c == [o EXCEPT !.pc = "posting", !.looks_up = FALSE]
  <2>1. o.pc = "lookup" /\ o.job # "active" /\ o.report # "listed"
    BY <1>0, <1>8 DEF Lookup, Ok, Asked, Going
  <2>2. /\ c.pc = "posting" /\ c.report = o.report /\ c.job = o.job
        /\ SameJob(o, c) /\ SamePost(o, c)
    BY <1>0 DEF SameJob, SamePost, Op
  <2>3. Become(m, c) \/ Become(m, Dropped(o))
    BY <1>8 DEF Lookup
  <2> HIDE DEF c
  <2>4. CASE Become(m, c)
    <3>1. n = c /\ Only(m)
      BY <1>3, <2>4, Becomes
    <3>2. Going(c, worker)
      BY <2>1, <2>2 DEF Going
    <3>3. SenderLeft(c) < SenderLeft(o)
      BY <1>2, <2>1, <2>2 DEF SenderLeft
    <3>4. ReportLeft(c) <= ReportLeft(o)
      BY <2>2 DEF ReportLeft
    <3> QED
      BY <1>1, <1>4, <2>2, <3>1, <3>2, <3>3, <3>4
  <2>5. CASE Become(m, Dropped(o))
    <3>1. Dropped(o) = [Dropped(o) EXCEPT !.report = o.report]
      BY <1>0 DEF Dropped, Op
    <3> QED
      BY <1>5, <2>1, <2>5, <3>1
  <2> QED
    BY <2>3, <2>4, <2>5
<1>9. CASE PostFails(m)
  <2>1. o.pc = "posting" /\ o.report # "listed" /\ Become(m, Dropped(o))
    BY <1>0, <1>9 DEF PostFails, Going
  <2>2. Dropped(o) = [Dropped(o) EXCEPT !.report = o.report]
    BY <1>0 DEF Dropped, Op
  <2> QED
    BY <1>5, <2>1, <2>2
<1> QED
  BY <1>6, <1>7, <1>8, <1>9

(* A use case commits, which leaves less to do than before it began,         *)
LEMMA CommitCounts ==
    ASSUME MailInv, MailInv', GoingInv, NEW m \in Ops, Commit(m)
    PROVE  GoesOn(m)
<1>1. PICK c \in Beginnings : Become(m, c)
  BY DEF Commit
<1>2. UNCHANGED worker
  BY DEF Commit, Rest
<1>3. op'[m] = c /\ Only(m)
  BY <1>1, <1>2, Becomes
<1>4. PICK e \in Events : c = Committed(e)
  BY DEF Beginnings
<1>5. c \in Op /\ c.job = "none"
  BY BeginsOk
<1>6. \/ c.pc = "auditing" /\ c.report = "due"
      \/ c.pc = "publishing" /\ c.report \in {"none", "listed"}
  <2> DEFINE awaited == e \in {x.event : x \in RegisterReports}
             filed   == e \in {x.event : x \in Reports}
             report  == CASE awaited -> "due"
                          [] filed /\ ~awaited -> "listed"
                          [] OTHER -> "none"
  <2>1. c.pc = (IF awaited THEN "auditing" ELSE "publishing") /\ c.report = report
    <3> HIDE DEF awaited, filed
    <3> QED
      BY <1>4 DEF Committed, Idle, awaited, filed
  <2> HIDE DEF awaited, filed
  <2>2. awaited => report = "due"
    OBVIOUS
  <2>3. ~awaited => report \in {"none", "listed"}
    OBVIOUS
  <2> QED
    BY <2>1, <2>2, <2>3
<1>7. Going(c, worker)
  BY <1>5, <1>6 DEF Going
<1>8. op[m].pc = "idle" /\ op[m] \in Op
  BY OkNow DEF Commit
<1>9. Fresh \in Nat
  BY SomeAttempts DEF Fresh, Unit, Max_Stalled
<1>10. SenderLeft(op[m]) = Fresh + 7
  BY <1>8 DEF SenderLeft
<1>11. SenderLeft(c) + ReportLeft(c) <= Fresh + 5
  BY <1>6, <1>9 DEF SenderLeft, ReportLeft
<1>12. JobLeft(c) = 0
  BY <1>5 DEF JobLeft, Alive
<1>13. JobLeft(op[m]) \in Nat /\ ReportLeft(op[m]) \in Nat
  BY <1>8, LeftIsNat DEF ReportLeft
<1>14. SenderLeft(c) \in Nat /\ ReportLeft(c) \in Nat
  BY <1>6, <1>9 DEF SenderLeft, ReportLeft
<1>15. Left(c) < Left(op[m])
  BY <1>9, <1>10, <1>11, <1>12, <1>13, <1>14 DEF Left
<1> QED
  BY <1>2, <1>3, <1>7, <1>15 DEF GoesOn

(* the job it asks for is less than the asking,                              *)
LEMMA EnqueueCounts ==
    ASSUME MailInv, MailInv', GoingInv, NEW m \in Ops, Enqueue(m)
    PROVE  GoesOn(m)
<1> DEFINE o == op[m]
           c == [o EXCEPT !.pc = "ended", !.job = "wait", !.id = nextId]
<1>1. o \in Op /\ Ok(m, o, keys, rollbacks) /\ Going(o, worker)
  BY OkNow DEF GoingInv
<1>2. UNCHANGED worker /\ Become(m, c) /\ o.pc = "posting"
  BY DEF Enqueue
<1>3. op'[m] = c /\ Only(m)
  BY <1>2, Becomes
<1>4. c \in Op
  BY <1>3 DEF MailInv, TypeOK
<1>5. o.job = "none" /\ o.made = 0 /\ o.stalled = 0 /\ o.report # "listed"
  BY <1>1, <1>2 DEF Ok, Asked, Attempted, Going
<1>6. /\ c.pc = "ended" /\ c.job = "wait" /\ c.made = 0 /\ c.stalled = 0
      /\ c.report = o.report
  BY <1>1, <1>5 DEF Op
<1> HIDE DEF c
<1>7. Going(c, worker)
  BY <1>5, <1>6 DEF Going
<1>8. JobLeft(c) = Fresh
  BY <1>4, <1>6, JobWithin, SomeAttempts DEF Alive, Max_Stalled
<1>9. Fresh \in Nat
  BY SomeAttempts DEF Fresh, Unit, Max_Stalled
<1>10. JobLeft(o) = 0 /\ SenderLeft(o) = Fresh + 1 /\ SenderLeft(c) = 0
  BY <1>2, <1>5, <1>6 DEF JobLeft, SenderLeft, Alive
<1>11. ReportLeft(c) = ReportLeft(o) /\ ReportLeft(o) \in Nat
  BY <1>6 DEF ReportLeft
<1>12. Left(c) < Left(o)
  BY <1>8, <1>9, <1>10, <1>11 DEF Left
<1> QED
  BY <1>2, <1>3, <1>7, <1>12 DEF GoesOn

(* and the worker makes the job less, whatever the answer of Resend.         *)
LEMMA RunCounts ==
    ASSUME MailInv, MailInv', GoingInv, NEW m \in Ops, UNCHANGED worker,
           NEW c, Become(m, c), op[m].job \in Alive,
           c.pc = op[m].pc, c.report = op[m].report,
           c.job = "active" => worker = "up" /\ c.request # "none",
           c.job # "none",
           \/ /\ c.job \in Alive /\ RunLeft(c) < RunLeft(op[m])
              /\ c.made = op[m].made /\ c.stalled = op[m].stalled
           \/ c.made = op[m].made + 1 /\ c.stalled = op[m].stalled
           \/ c.made = op[m].made /\ c.stalled = op[m].stalled + 1
           \/ c.job \notin Alive
    PROVE  GoesOn(m)
<1> DEFINE o == op[m]
<1>1. o \in Op /\ Ok(m, o, keys, rollbacks) /\ Going(o, worker)
  BY OkNow DEF GoingInv
<1>2. op'[m] = c /\ Only(m)
  BY Becomes
<1>3. c \in Op
  BY <1>2 DEF MailInv, TypeOK
<1>4. Going(c, worker)
  BY <1>1 DEF Going, Ok, Asked, Alive
<1>5. RunLeft(o) \in {1, 2, 3, 4, 5} /\ RunLeft(c) \in {1, 2, 3, 4, 5}
  BY DEF RunLeft
<1>6. /\ o.made \in Nat /\ o.stalled \in Nat /\ MaxAttempts \in Nat
      /\ o.made < MaxAttempts /\ o.stalled <= Max_Stalled
  BY <1>1, NumbersOk DEF Numbers, Ok, Attempted
<1>7. JobLeft(o) = 10 * (MaxAttempts - o.made)
                     + 10 * (Max_Stalled + 1 - o.stalled) + RunLeft(o)
  BY DEF JobLeft, Unit
<1>8. JobLeft(c) < JobLeft(o)
  <2>1. CASE c.job \notin Alive
    BY <1>1, <1>6, <2>1, JobWithin DEF JobLeft
  <2>2. CASE c.job \in Alive
    <3>1. JobLeft(c) = 10 * (MaxAttempts - c.made)
                         + 10 * (Max_Stalled + 1 - c.stalled) + RunLeft(c)
      BY <2>2 DEF JobLeft, Unit
    <3>2. c.made \in Nat /\ c.stalled \in Nat
      BY <1>3, NumbersOk DEF Numbers
    <3>3. \/ RunLeft(c) < RunLeft(o) /\ c.made = o.made /\ c.stalled = o.stalled
          \/ c.made = o.made + 1 /\ c.stalled = o.stalled
          \/ c.made = o.made /\ c.stalled = o.stalled + 1
      BY <2>2
    <3> HIDE DEF o
    <3> QED
      BY <1>5, <1>6, <1>7, <3>1, <3>2, <3>3 DEF Max_Stalled
  <2> QED
    BY <2>1, <2>2
<1> QED
  BY <1>1, <1>2, <1>3, <1>4, <1>8, JobCounts DEF GoesOn

LEMMA WorkerCounts ==
    ASSUME MailInv, MailInv', GoingInv, NEW m \in Ops,
           Take(m) \/ RequestStep(m) \/ JobStep(m)
    PROVE  GoesOn(m)
<1> DEFINE o == op[m]
<1>1. o \in Op /\ Ok(m, o, keys, rollbacks)
  BY OkNow
<1>2. UNCHANGED worker /\ o.job \in Alive
  BY DEF Take, RequestStep, JobStep, Answered, RequestFails, RequestTimesOut,
         Complete, AttemptFails, StalledCheck, Working, Rest, Alive
<1>3. ASSUME NEW c, Become(m, c), worker = "up", c.job = "active", c.request # "none",
             c.pc = o.pc, c.report = o.report, RunLeft(c) < RunLeft(o),
             c.made = o.made, c.stalled = o.stalled
      PROVE  GoesOn(m)
  BY <1>2, <1>3, RunCounts DEF Alive
<1>4. CASE Take(m)
  <2> DEFINE x == IF o.renders THEN "sent" ELSE "error"
             c == [o EXCEPT !.job = "active", !.request = x]
  <2>1. Become(m, c) /\ worker = "up" /\ o.job = "wait"
    BY <1>4 DEF Take
  <2>2. x \in {"sent", "error"}
    OBVIOUS
  <2> HIDE DEF x
  <2>3. /\ c.job = "active" /\ c.request = x /\ c.pc = o.pc
        /\ c.report = o.report /\ c.made = o.made /\ c.stalled = o.stalled
    BY <1>1 DEF Op
  <2> HIDE DEF c
  <2>4. RunLeft(o) = 5 /\ RunLeft(c) \in {4, 2}
    BY <2>1, <2>2, <2>3 DEF RunLeft
  <2> QED
    BY <1>3, <2>1, <2>2, <2>3, <2>4
<1>5. CASE RequestStep(m)
  <2>1. worker = "up" /\ o.job = "active" /\ o.request \in {"sent", "ok"}
    BY <1>5 DEF RequestStep, Answered, RequestFails, RequestTimesOut, Working
  <2>2. PICK c : /\ Become(m, c) /\ c.job = "active"
                 /\ c.pc = o.pc /\ c.report = o.report
                 /\ c.made = o.made /\ c.stalled = o.stalled
                 /\ \/ c.request = "ok" /\ o.request = "sent"
                    \/ c.request \in {"error", "spoilt"}
    <3> DEFINE r == IF keys[idempotencyKey(m)] = "free" THEN o.received + 1
                    ELSE o.received
               c1 == [[o EXCEPT !.request = "ok"] EXCEPT !.received = r]
               c2 == [o EXCEPT !.request = "error"]
               c3 == Spoilt(o)
               c4 == [Spoilt(o) EXCEPT !.late = TRUE]
    <3>1. [[o EXCEPT !.request = "ok"] EXCEPT !.received =
              IF keys[idempotencyKey(m)] = "free" THEN @ + 1 ELSE @] = c1
      BY <1>1 DEF Op
    <3>2. \/ Become(m, c1) /\ o.request = "sent"
          \/ Become(m, c2) \/ Become(m, c3) \/ Become(m, c4)
      BY <1>5, <3>1 DEF RequestStep, Answered, Accept, RequestFails, RequestTimesOut
    <3> HIDE DEF r
    <3>3. /\ c1.job = "active" /\ c1.pc = o.pc /\ c1.report = o.report
          /\ c1.made = o.made /\ c1.stalled = o.stalled /\ c1.request = "ok"
      BY <1>1, <2>1 DEF Op
    <3>4. /\ c2.job = "active" /\ c2.pc = o.pc /\ c2.report = o.report
          /\ c2.made = o.made /\ c2.stalled = o.stalled /\ c2.request = "error"
      BY <1>1, <2>1 DEF Op
    <3>5. /\ c3.job = "active" /\ c3.pc = o.pc /\ c3.report = o.report
          /\ c3.made = o.made /\ c3.stalled = o.stalled /\ c3.request = "spoilt"
      BY <1>1, <2>1 DEF Op, Spoilt
    <3>6. /\ c4.job = "active" /\ c4.pc = o.pc /\ c4.report = o.report
          /\ c4.made = o.made /\ c4.stalled = o.stalled /\ c4.request = "spoilt"
      BY <1>1, <2>1 DEF Op, Spoilt
    <3> HIDE DEF c1, c2, c3, c4
    <3> QED
      BY <3>2, <3>3, <3>4, <3>5, <3>6
  <2>3. RunLeft(c) < RunLeft(o)
    BY <2>1, <2>2 DEF RunLeft
  <2> QED
    BY <1>3, <2>1, <2>2, <2>3
<1>6. CASE Complete(m)
  <2> DEFINE c == [o EXCEPT !.job = "done", !.request = "none"]
  <2>1. Become(m, c)
    BY <1>6 DEF Complete
  <2>2. c.job = "done" /\ c.pc = o.pc /\ c.report = o.report
    BY <1>1 DEF Op
  <2> HIDE DEF c
  <2> QED
    BY <1>2, <2>1, <2>2, RunCounts DEF Alive
<1>7. CASE AttemptFails(m)
  <2> DEFINE e == IF o.request = "spoilt" THEN o.errors + 1 ELSE o.errors
             j == IF o.made + 1 < MaxAttempts THEN "wait" ELSE "failed"
             c == [o EXCEPT !.request = "none", !.made = o.made + 1,
                            !.errors = e, !.job = j]
  <2>1. Become(m, c)
    BY <1>7 DEF AttemptFails
  <2>2. j \in {"wait", "failed"}
    OBVIOUS
  <2> HIDE DEF e, j
  <2>3. /\ c.job = j /\ c.pc = o.pc /\ c.report = o.report
        /\ c.made = o.made + 1 /\ c.stalled = o.stalled
    BY <1>1 DEF Op
  <2> HIDE DEF c
  <2> QED
    BY <1>2, <2>1, <2>2, <2>3, RunCounts
<1>8. CASE StalledCheck(m)
  <2> DEFINE j == IF o.stalled < Max_Stalled THEN "wait" ELSE "failed"
             c == [o EXCEPT !.stalled = o.stalled + 1, !.job = j]
  <2>1. Become(m, c)
    BY <1>8 DEF StalledCheck
  <2>2. j \in {"wait", "failed"}
    OBVIOUS
  <2> HIDE DEF j
  <2>3. /\ c.job = j /\ c.pc = o.pc /\ c.report = o.report
        /\ c.made = o.made /\ c.stalled = o.stalled + 1
    BY <1>1 DEF Op
  <2> HIDE DEF c
  <2> QED
    BY <1>2, <2>1, <2>2, <2>3, RunCounts
<1> QED
  BY <1>4, <1>5, <1>6, <1>7, <1>8 DEF JobStep

(* What happens to an operation from outside never gives it more to do.      *)
Shrinks == \A m \in Ops : Going(op'[m], worker') /\ Left(op'[m]) <= Left(op[m])

\* It does not come back to an earlier step, and its job does not come alive.
LEMMA Lesser ==
    ASSUME NEW o \in Op, NEW n \in Op,
           n.pc = o.pc \/ n.pc = "ended", n.report \in {"none", o.report},
           \/ n.job \notin Alive
           \/ /\ n.job = o.job /\ n.made = o.made /\ n.stalled = o.stalled
              /\ n.request = o.request
           \/ /\ n.job = "orphan" /\ o.job = "active"
              /\ n.made = o.made /\ n.stalled = o.stalled
    PROVE  Left(n) <= Left(o)
<1>1. Fresh \in Nat
  BY SomeAttempts DEF Fresh, Unit, Max_Stalled
<1>2. SenderLeft(n) <= SenderLeft(o) /\ SenderLeft(n) \in Nat /\ SenderLeft(o) \in Nat
  <2>1. SenderLeft(n) \in Nat /\ SenderLeft(o) \in Nat
    BY <1>1 DEF SenderLeft
  <2>2. n.pc = o.pc => SenderLeft(n) = SenderLeft(o)
    BY DEF SenderLeft
  <2>3. n.pc = "ended" => SenderLeft(n) = 0
    BY DEF SenderLeft
  <2> QED
    BY <2>1, <2>2, <2>3
<1>3. ReportLeft(n) <= ReportLeft(o) /\ ReportLeft(n) \in Nat /\ ReportLeft(o) \in Nat
  BY DEF ReportLeft
<1>4. JobLeft(n) \in Nat /\ JobLeft(o) \in Nat
  BY LeftIsNat
<1>5. JobLeft(n) <= JobLeft(o)
  <2>1. CASE n.job \notin Alive
    BY <1>4, <2>1 DEF JobLeft
  <2>2. CASE /\ n.job = o.job /\ n.made = o.made /\ n.stalled = o.stalled
             /\ n.request = o.request
    <3>1. JobLeft(n) = JobLeft(o)
      BY <2>2 DEF JobLeft, RunLeft
    <3> QED
      BY <1>4, <3>1
  <2>3. CASE /\ n.job = "orphan" /\ o.job = "active"
             /\ n.made = o.made /\ n.stalled = o.stalled
    <3>1. RunLeft(n) = 1
      BY <2>3 DEF RunLeft
    <3>2. RunLeft(o) \in {2, 3, 4}
      BY <2>3 DEF RunLeft
    <3>3. o.made \in Nat /\ o.stalled \in Nat /\ MaxAttempts \in Nat
      BY NumbersOk DEF Numbers
    <3> QED
      BY <2>3, <3>1, <3>2, <3>3 DEF JobLeft, Alive, Unit, Max_Stalled
  <2> QED
    BY <2>1, <2>2, <2>3
<1> QED
  BY <1>2, <1>3, <1>4, <1>5 DEF Left

LEMMA Unmoved ==
    ASSUME MailInv, GoingInv, NEW m \in Ops, op'[m] = op[m], UNCHANGED worker
    PROVE  Going(op'[m], worker') /\ Left(op'[m]) <= Left(op[m])
<1>1. Left(op[m]) \in Nat
  BY OkNow, LeftIsNat
<1> QED
  BY <1>1 DEF GoingInv

LEMMA LateShrinks ==
    ASSUME MailInv, MailInv', GoingInv, NEW m \in Ops, LateRequest(m) PROVE Shrinks
<1> DEFINE o == op[m]
           r == IF keys[idempotencyKey(m)] = "free" THEN o.received + 1
                ELSE o.received
           c == [o EXCEPT !.received = r]
<1>1. o \in Op /\ Going(o, worker)
  BY OkNow DEF GoingInv
<1>2. UNCHANGED worker
  BY DEF LateRequest
<1>3. [o EXCEPT !.received = IF keys[idempotencyKey(m)] = "free"
                             THEN @ + 1 ELSE @] = c
  BY <1>1 DEF Op
<1>4. Become(m, c)
  BY <1>3 DEF LateRequest, Accept
<1>5. op'[m] = c /\ Only(m)
  BY <1>2, <1>4, Becomes
<1>6. c \in Op
  BY <1>5 DEF MailInv, TypeOK
<1> HIDE DEF r
<1>7. /\ c.pc = o.pc /\ c.report = o.report /\ c.job = o.job /\ c.mail = o.mail
      /\ c.made = o.made /\ c.stalled = o.stalled /\ c.request = o.request
      /\ c.dropped = o.dropped
  BY <1>1 DEF Op
<1> HIDE DEF c
<1>8. Going(c, worker) /\ Left(c) <= Left(o)
  BY <1>1, <1>6, <1>7, Lesser DEF Going
<1> QED
  BY <1>2, <1>5, <1>8, Unmoved DEF Only, Shrinks

LEMMA AuthCrashShrinks ==
    ASSUME MailInv, MailInv', GoingInv, AuthCrash PROVE Shrinks
<1> SUFFICES ASSUME NEW m \in Ops
             PROVE  Going(op'[m], worker') /\ Left(op'[m]) <= Left(op[m])
  BY DEF Shrinks
<1> DEFINE o == op[m]
           c == op'[m]
<1>1. o \in Op /\ Ok(m, o, keys, rollbacks) /\ Going(o, worker)
  BY OkNow DEF GoingInv
<1>2. c = Interrupted(o) /\ UNCHANGED worker
  BY DEF AuthCrash, Rest
<1>3. c \in Op
  BY DEF MailInv, TypeOK
<1>4. /\ c.report = "none" /\ c.job = o.job /\ c.mail = o.mail
      /\ c.made = o.made /\ c.stalled = o.stalled /\ c.request = o.request
      /\ \/ c.pc = o.pc /\ c.dropped = o.dropped /\ o.pc \in {"idle", "ended"}
         \/ c.pc = "ended" /\ c.dropped
  BY <1>1, <1>2 DEF Interrupted, Dropped, Op
<1>5. Going(c, worker)
  BY <1>1, <1>4 DEF Going
<1>6. Left(c) <= Left(o)
  BY <1>1, <1>3, <1>4, Lesser
<1> QED
  BY <1>2, <1>5, <1>6

LEMMA WorkerShrinks ==
    ASSUME MailInv, MailInv', GoingInv, WorkerCrash \/ WorkerStart PROVE Shrinks
<1> SUFFICES ASSUME NEW m \in Ops
             PROVE  Going(op'[m], worker') /\ Left(op'[m]) <= Left(op[m])
  BY DEF Shrinks
<1> DEFINE o == op[m]
           c == op'[m]
<1>1. o \in Op /\ Ok(m, o, keys, rollbacks) /\ Going(o, worker)
  BY OkNow DEF GoingInv
<1>2. c \in Op
  BY DEF MailInv, TypeOK
<1>3. CASE WorkerStart
  <2>1. c = o /\ worker' = "up"
    BY <1>3 DEF WorkerStart
  <2>2. Left(o) \in Nat
    BY <1>1, LeftIsNat
  <2> QED
    BY <1>1, <2>1, <2>2 DEF Going
<1>4. CASE WorkerCrash
  <2>1. c = Abandoned(o)
    BY <1>4 DEF WorkerCrash
  <2>2. CASE o.job = "active"
    <3>1. /\ c.pc = o.pc /\ c.report = o.report /\ c.job = "orphan"
          /\ c.made = o.made /\ c.stalled = o.stalled
      BY <1>1, <2>1, <2>2 DEF Abandoned, Op
    <3> QED
      BY <1>1, <1>2, <2>2, <3>1, Lesser DEF Going
  <2>3. CASE o.job # "active"
    <3>1. c = o
      BY <2>1, <2>3 DEF Abandoned
    <3>2. Left(o) \in Nat
      BY <1>1, LeftIsNat
    <3> QED
      BY <1>1, <2>3, <3>1, <3>2 DEF Going
  <2> QED
    BY <2>2, <2>3
<1> QED
  BY <1>3, <1>4

LEMMA RollbackShrinks ==
    ASSUME MailInv, MailInv', GoingInv, RedisRollback PROVE Shrinks
<1> SUFFICES ASSUME NEW m \in Ops
             PROVE  Going(op'[m], worker') /\ Left(op'[m]) <= Left(op[m])
  BY DEF Shrinks
<1> DEFINE o == op[m]
           l == o.late \/ o.request = "sent"
           c == [o EXCEPT !.job = "gone", !.request = "none", !.late = l]
<1>1. o \in Op /\ Ok(m, o, keys, rollbacks) /\ Going(o, worker)
  BY OkNow DEF GoingInv
<1>2. op'[m] = o \/ op'[m] = c
  BY DEF RedisRollback
<1>3. UNCHANGED worker
  BY DEF RedisRollback
<1>4. op'[m] \in Op
  BY DEF MailInv, TypeOK
<1> HIDE DEF l
<1>5. c.pc = o.pc /\ c.report = o.report /\ c.job = "gone"
  BY <1>1 DEF Op
<1> HIDE DEF c
<1>6. CASE op'[m] = c
  <2>1. Going(c, worker)
    BY <1>1, <1>5 DEF Going
  <2>2. Left(c) <= Left(o)
    BY <1>1, <1>4, <1>5, <1>6, Lesser DEF Alive
  <2> QED
    BY <1>3, <1>6, <2>1, <2>2
<1> QED
  BY <1>2, <1>3, <1>6, Unmoved

LEMMA OwnCounts ==
    ASSUME MailInv, MailInv', GoingInv, NEW m \in Ops, Own(m) PROVE GoesOn(m)
BY CommitCounts, AuthCounts, EnqueueCounts, WorkerCounts DEF Own, AuthStep

LEMMA OwnShrinks ==
    ASSUME MailInv, MailInv', GoingInv, NEW m \in Ops, Own(m)
    PROVE  Shrinks
<1>1. GoesOn(m)
  BY OwnCounts
<1>2. Left(op'[m]) \in Nat /\ Left(op[m]) \in Nat
  BY LeftIsNat DEF MailInv, TypeOK
<1> QED
  BY <1>1, <1>2, Unmoved DEF GoesOn, Only, Shrinks

LEMMA AllCount ==
    MailInv /\ MailInv' /\ GoingInv /\ [Next]_vars => GoingInv' /\ CountsDown
<1> SUFFICES ASSUME MailInv, MailInv', GoingInv, [Next]_vars
             PROVE  GoingInv' /\ CountsDown
  OBVIOUS
<1>1. Shrinks
  <2>1. CASE UNCHANGED vars
    BY <2>1, Unmoved DEF vars, Shrinks
  <2>2. CASE \E m \in Ops : Own(m)
    BY <2>2, OwnShrinks
  <2>3. CASE \E m \in Ops : LateRequest(m)
    BY <2>3, LateShrinks
  <2>4. CASE AuthCrash \/ WorkerCrash \/ WorkerStart \/ RedisRollback
    BY <2>4, AuthCrashShrinks, WorkerShrinks, RollbackShrinks
  <2> QED
    BY <2>1, <2>2, <2>3, <2>4 DEF Next, Own
<1>2. \A m \in Ops : Left(op'[m]) \in Nat /\ Left(op[m]) \in Nat
  BY LeftIsNat DEF MailInv, TypeOK
<1>3. \A m \in Ops : Own(m) => Left(op'[m]) < Left(op[m])
  BY OwnCounts DEF GoesOn
<1> QED
  BY <1>1, <1>2, <1>3 DEF Shrinks, GoingInv, CountsDown

LEMMA GoingInit == Init => GoingInv
BY DEF Init, Idle, GoingInv, Going

LEMMA GoingAlways == Init /\ [][Next]_vars => [](MailInv /\ GoingInv)
<1>1. MailInv /\ GoingInv /\ [Next]_vars => (MailInv /\ GoingInv)'
  BY MailStep, MailStutters, AllCount
<1> QED
  BY <1>1, MailInit, GoingInit, PTL

(* Every step of an operation of its own - of its request in auth-service,   *)
(* of the attempts, the retries and the second run after a crash in          *)
(* notification-service - uses up some of what it has still to go through,   *)
(* and nothing that happens to it, no crash, late request or rollback, gives *)
(* it more: there is no way to be tried for ever.                            *)
THEOREM MailsCountDown == Spec => [][CountsDown]_vars
<1>1. MailInv /\ GoingInv /\ [Next]_vars /\ (MailInv /\ GoingInv)' => [CountsDown]_vars
  BY AllCount
<1> QED
  BY <1>1, GoingAlways, PTL DEF Spec

(* An operation that has begun either is where Settles wants it, with nothing *)
(* left to go through, or one of its fair steps can be taken, or its job waits *)
(* for the worker to start or for the one job under way, which can go on: no  *)
(* report, no request and no job is ever stuck.                              *)
THEOREM MailsGoOn == Spec => []NeverStuck
<1>1. ASSUME MailInv, GoingInv, NEW m \in Ops, op[m].pc # "idle",
             ~MayGoOn(m), ~Waits(m)
      PROVE  AtRest(op[m]) /\ Left(op[m]) = 0
  <2> DEFINE o == op[m]
  <2>1. o \in Op /\ Ok(m, o, keys, rollbacks) /\ Going(o, worker)
        /\ worker \in {"up", "down"}
    BY <1>1, OkNow DEF GoingInv, MailInv, TypeOK
  <2>2. o.pc = "ended" /\ o.report = "none"
    <3>1. o.pc \notin {"publishing", "lookup", "posting"} /\ o.report # "due"
      BY <1>1 DEF MayGoOn
    <3> QED
      BY <1>1, <2>1, <3>1 DEF Going, Op
  <2>3. ASSUME NEW n \in Ops, op[n].job = "active" PROVE MayGoOn(n)
    <3>1. worker = "up" /\ op[n].request # "none" /\ op[n] \in Op
      BY <1>1, <2>3, OkNow DEF GoingInv, Going
    <3> QED
      BY <2>3, <3>1 DEF MayGoOn, Working, Op
  <2>4. o.job \notin Alive
    <3>1. o.job # "active"
      BY <1>1, <2>3
    <3>2. o.job # "orphan"
      BY <1>1, <2>1 DEF MayGoOn, Waits
    <3>3. o.job # "wait"
      BY <1>1, <2>1, <2>3 DEF MayGoOn, Waits
    <3> QED
      BY <3>1, <3>2, <3>3 DEF Alive
  <2>5. AtRest(o)
    BY <2>1, <2>2, <2>4 DEF AtRest, Settled, Going, Op, Alive
  <2>6. SenderLeft(o) = 0 /\ ReportLeft(o) = 0 /\ JobLeft(o) = 0
    BY <2>2, <2>4 DEF SenderLeft, ReportLeft, JobLeft
  <2> QED
    BY <2>5, <2>6 DEF Left
<1>2. MailInv /\ GoingInv => NeverStuck
  BY <1>1 DEF NeverStuck
<1> QED
  BY <1>2, GoingAlways, PTL DEF Spec

=============================================================================

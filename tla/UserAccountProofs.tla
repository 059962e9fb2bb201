-------------------------- MODULE UserAccountProofs --------------------------
(***************************************************************************)
(* Theorems about UserAccount, for any number of requests, passwords,      *)
(* attempts, blocks and tokens, and for behaviours with any number of lost *)
(* updates.                                                                *)
(***************************************************************************)
EXTENDS UserAccount, TLAPS

USE PasswordsDiffer, BoundsAreNat

-----------------------------------------------------------------------------
(* Type correctness.  What TypeOK lacks is that a token that is presented   *)
(* was issued.                                                              *)

TypeInv ==
    /\ TypeOK
    /\ \A p \in Procs : op[p].token \in 0..issued

LEMMA IdleType == NoRow \in Row /\ Idle \in Op /\ Idle.token = 0
BY DEF NoRow, Row, Status, Idle, Op, PC, NoBlock, NoToken

(* Assigning to one column keeps the row well typed.                        *)
LEMMA SetColumn ==
    ASSUME NEW u \in Row
    PROVE  /\ \A x \in Status : [u EXCEPT !.status = x] \in Row
           /\ \A x \in Words \cup {NoPassword} : [u EXCEPT !.hash = x] \in Row
           /\ \A x \in BOOLEAN : [u EXCEPT !.verified = x] \in Row
           /\ \A x \in 0..MaxAttempts : [u EXCEPT !.failed = x] \in Row
           /\ \A x \in 0..MaxBlocks : [u EXCEPT !.blocked = x] \in Row
           /\ \A x \in BOOLEAN : [u EXCEPT !.must = x] \in Row
           /\ \A x \in 0..MaxTokens : [u EXCEPT !.vtoken = x] \in Row
           /\ \A x \in 0..MaxTokens : [u EXCEPT !.rtoken = x] \in Row
BY DEF Row

(* So does what a use case does to an entity.                               *)
LEMMA EntityType ==
    ASSUME NEW u \in Row
    PROVE  /\ EmailVerified(u) \in Row
           /\ Released(u) \in Row
           /\ [u EXCEPT !.failed = 0, !.blocked = NoBlock] \in Row
           /\ \A n \in Words : [u EXCEPT !.hash = n, !.must = FALSE] \in Row
<1>0. /\ "ACTIVE" \in Status /\ 0 \in 0..MaxTokens
      /\ 0 \in 0..MaxAttempts /\ 0 \in 0..MaxBlocks
  BY DEF Status
<1>1. EmailVerified(u) \in Row
  <2> DEFINE a == [u EXCEPT !.verified = TRUE]
             b == [a EXCEPT !.status = "ACTIVE"]
             c == [b EXCEPT !.vtoken = 0]
  <2>1. a \in Row BY SetColumn
  <2>2. b \in Row BY <1>0, <2>1, SetColumn
  <2>3. EmailVerified(u) = c BY DEF EmailVerified, NoToken, Row
  <2> HIDE DEF b
  <2>4. c \in Row BY <1>0, <2>2, SetColumn
  <2> QED BY <2>3, <2>4
<1>2. [u EXCEPT !.failed = 0, !.blocked = NoBlock] \in Row
  BY <1>0 DEF Row, NoBlock
<1>3. Released(u) \in Row
  BY <1>0 DEF Released, Row, NoBlock
<1>4. ASSUME NEW n \in Words PROVE [u EXCEPT !.hash = n, !.must = FALSE] \in Row
  <2> DEFINE a == [u EXCEPT !.hash = n]
             b == [a EXCEPT !.must = FALSE]
  <2>1. a \in Row BY SetColumn
  <2>2. [u EXCEPT !.hash = n, !.must = FALSE] = b BY DEF Row
  <2> HIDE DEF a
  <2>3. b \in Row BY <2>1, SetColumn
  <2> QED BY <2>2, <2>3
<1> QED BY <1>1, <1>2, <1>3, <1>4

(* The rows that Register and Provision insert.                             *)
LEMMA NewRowType ==
    /\ \A w \in Words, t \in 0..MaxTokens :
          [NoRow EXCEPT !.status = "PENDING", !.hash = w, !.vtoken = t] \in Row
    /\ [NoRow EXCEPT !.status = "ACTIVE", !.hash = TempPassword,
                     !.verified = TRUE, !.must = TRUE] \in Row
<1>0. TempPassword \in Words \cup {NoPassword} /\ TRUE \in BOOLEAN
      /\ "ACTIVE" \in Status /\ "PENDING" \in Status
  BY DEF Words, Status
<1>1. ASSUME NEW w \in Words, NEW t \in 0..MaxTokens
      PROVE  [NoRow EXCEPT !.status = "PENDING", !.hash = w, !.vtoken = t] \in Row
  <2> DEFINE a == [NoRow EXCEPT !.status = "PENDING"]
             b == [a EXCEPT !.hash = w]
             c == [b EXCEPT !.vtoken = t]
  <2>1. a \in Row BY <1>0, IdleType, SetColumn
  <2>2. [NoRow EXCEPT !.status = "PENDING", !.hash = w, !.vtoken = t] = c
    BY IdleType DEF Row
  <2> HIDE DEF a
  <2>3. b \in Row BY <2>1, SetColumn
  <2> HIDE DEF b
  <2>4. c \in Row BY <2>3, SetColumn
  <2> QED BY <2>2, <2>4
<1>2. [NoRow EXCEPT !.status = "ACTIVE", !.hash = TempPassword,
                    !.verified = TRUE, !.must = TRUE] \in Row
  <2> DEFINE a == [NoRow EXCEPT !.status = "ACTIVE"]
             b == [a EXCEPT !.hash = TempPassword]
             c == [b EXCEPT !.verified = TRUE]
             d == [c EXCEPT !.must = TRUE]
  <2>1. a \in Row BY <1>0, IdleType, SetColumn
  <2>2. [NoRow EXCEPT !.status = "ACTIVE", !.hash = TempPassword,
                      !.verified = TRUE, !.must = TRUE] = d
    BY IdleType DEF Row
  <2> HIDE DEF a
  <2>3. b \in Row BY <1>0, <2>1, SetColumn
  <2> HIDE DEF b
  <2>4. c \in Row BY <1>0, <2>3, SetColumn
  <2> HIDE DEF c
  <2>5. d \in Row BY <1>0, <2>4, SetColumn
  <2> QED BY <2>2, <2>5
<1> QED BY <1>1, <1>2

(* Where a login goes after the password has been compared.                 *)
LEMMA VerifiedType ==
    ASSUME NEW u \in Row, NEW w
    PROVE  /\ Verified(u, w) \in Op /\ Verified(u, w).token = 0
           /\ Verified(u, w).pc \in {"clear", "count"}
<1>1. [NoRow EXCEPT !.must = u.must] \in Row BY IdleType DEF Row
<1> QED BY <1>1, IdleType DEF Verified, Op, Idle, PC, LoginPC

LEMMA GotoType ==
    ASSUME TypeInv, NEW p \in Procs, NEW new \in Op, NEW n \in Nat,
           n >= issued, new.token \in 0..n, Goto(p, new)
    PROVE  op' \in [Procs -> Op] /\ \A q \in Procs : op'[q].token \in 0..n
BY DEF TypeInv, TypeOK, Goto

LEMMA EndType ==
    ASSUME TypeInv, NEW p \in Procs, End(p)
    PROVE  op' \in [Procs -> Op] /\ \A q \in Procs : op'[q].token \in 0..issued
<1>1. issued \in Nat BY DEF TypeInv, TypeOK
<1> QED BY <1>1, IdleType, GotoType DEF End

(* Writing an entity back keeps the row well typed.                         *)
LEMMA UpdateRowType ==
    ASSUME TypeInv, NEW o \in Op, UpdateRow(o)
    PROVE  user' \in Row /\ lost' \subseteq Watched
<1>1. Written(o) \in Row BY DEF Written, TypeInv, TypeOK, Op, Row
<1> QED BY <1>1 DEF UpdateRow, Restored, TypeInv, TypeOK

LEMMA CreateType ==
    ASSUME TypeInv, NEW p \in Procs,
           (\E w \in Passwords : Register(p, w)) \/ Provision(p) \/ ProvisionProfile(p)
    PROVE  TypeInv'
<1>0. issued \in Nat /\ issued + 1 \in Nat BY DEF TypeInv, TypeOK
<1>1. ASSUME NEW w \in Passwords, Register(p, w) PROVE TypeInv'
  <2>0. TokenToSpare /\ issued' = Fresh /\ w \in Words
    BY <1>1 DEF Register, Words
  <2>3. issued' \in 0..MaxTokens /\ issued' \in Nat /\ issued' >= issued
    BY <1>0, <2>0 DEF Fresh, TokenToSpare
  <2>1. user' \in Row
    BY <1>1, <2>0, <2>3, NewRowType DEF Register
  <2>2. 1..issued \subseteq 1..issued' /\ 0..issued \subseteq 0..issued'
    BY <1>0, <2>3
  <2> QED BY <1>1, <2>1, <2>2, <2>3 DEF Register, TypeInv, TypeOK
<1>2. CASE Provision(p)
  <2>1. user' \in Row
    BY <1>2, NewRowType DEF Provision
  <2> DEFINE new == [Idle EXCEPT !.pc = "profile"]
  <2>2. new \in Op BY IdleType DEF Op, PC
  <2>3. new.token = 0 BY IdleType DEF Op
  <2>5. Goto(p, new) BY <1>2 DEF Provision
  <2> HIDE DEF new
  <2>4. op' \in [Procs -> Op] /\ \A q \in Procs : op'[q].token \in 0..issued
    BY <1>0, <2>2, <2>3, <2>5, GotoType
  <2> QED BY <1>2, <2>1, <2>4 DEF Provision, TypeInv, TypeOK
<1>3. CASE ProvisionProfile(p)
  BY <1>3, EndType DEF ProvisionProfile, TypeInv, TypeOK, history
<1> QED BY <1>1, <1>2, <1>3

LEMMA LoadType ==
    ASSUME TypeInv, NEW p \in Procs,
           ForgotPassword(p) \/ ResendVerification(p)
           \/ \E t \in 1..issued : VerifyEmail(p, t)
    PROVE  TypeInv'
<1>0. issued \in Nat /\ issued + 1 \in Nat /\ user \in Row BY DEF TypeInv, TypeOK
<1>1. ASSUME NEW t, NEW entity \in Row, Load(p, t, entity),
             issued' \in 0..MaxTokens, issued' >= issued, t \in 0..issued, t \in 0..MaxTokens
      PROVE  TypeInv'
  <2> DEFINE new == [Idle EXCEPT !.pc = "update", !.token = t, !.found = user,
                                 !.entity = entity]
  <2>1. new \in Op /\ new.token = t
    BY <1>0, <1>1, IdleType DEF Op, PC, Idle
  <2>2. issued' \in Nat /\ t \in 0..issued' BY <1>0, <1>1
  <2> HIDE DEF new
  <2>3. op' \in [Procs -> Op] /\ \A q \in Procs : op'[q].token \in 0..issued'
    BY <1>1, <2>1, <2>2, GotoType DEF Load, new
  <2>4. 1..issued \subseteq 1..issued' BY <1>0, <1>1, <2>2
  <2> QED BY <1>1, <2>3, <2>4 DEF Load, TypeInv, TypeOK, history
<1>2. TokenToSpare => Fresh \in 0..MaxTokens /\ Fresh >= issued /\ Fresh > 0
  BY <1>0 DEF TokenToSpare, Fresh
<1>3. 0 \in 0..issued /\ 0 \in 0..MaxTokens BY <1>0
<1>4. CASE ForgotPassword(p)
  <2>1. TokenToSpare /\ issued' = Fresh /\ Load(p, 0, [user EXCEPT !.rtoken = Fresh])
    BY <1>4 DEF ForgotPassword, NoToken
  <2>2. [user EXCEPT !.rtoken = Fresh] \in Row BY <1>0, <1>2, <2>1 DEF Row
  <2> QED BY <1>1, <1>2, <1>3, <2>1, <2>2
<1>5. CASE ResendVerification(p)
  <2>1. TokenToSpare /\ issued' = Fresh /\ Load(p, 0, [user EXCEPT !.vtoken = Fresh])
    BY <1>5 DEF ResendVerification, NoToken
  <2>2. [user EXCEPT !.vtoken = Fresh] \in Row BY <1>0, <1>2, <2>1 DEF Row
  <2> QED BY <1>1, <1>2, <1>3, <2>1, <2>2
<1>6. ASSUME NEW t \in 1..issued, VerifyEmail(p, t) PROVE TypeInv'
  <2>1. EmailVerified(user) \in Row
    BY <1>0, EntityType
  <2>2. t \in 0..issued /\ t \in 0..MaxTokens BY <1>0 DEF TypeInv, TypeOK
  <2>3. issued' = issued /\ issued \in 0..MaxTokens
    BY <1>6 DEF VerifyEmail, TypeInv, TypeOK
  <2> QED BY <1>0, <1>1, <1>6, <2>1, <2>2, <2>3 DEF VerifyEmail
<1> QED BY <1>4, <1>5, <1>6

LEMMA LoginType ==
    ASSUME TypeInv, NEW p \in Procs,
           (\E w \in Words : LoginFind(p, w)) \/ Login(p)
    PROVE  TypeInv'
<1>0. user \in Row /\ op[p] \in Op /\ issued \in Nat BY DEF TypeInv, TypeOK
<1>1. ASSUME NEW new \in Op, new.token = 0, Goto(p, new)
      PROVE  op' \in [Procs -> Op] /\ \A q \in Procs : op'[q].token \in 0..issued
  BY <1>0, <1>1, GotoType
<1>2. ASSUME NEW w \in Words, LoginFind(p, w) PROVE TypeInv'
  <2> DEFINE kept == [NoRow EXCEPT !.must = user.must, !.hash = user.hash]
             new == [Verified(user, w) EXCEPT !.pc = "release",
                        !.found = kept, !.word = w]
  <2>1. kept \in Row
    <3> DEFINE a == [NoRow EXCEPT !.must = user.must]
    <3>1. user.must \in BOOLEAN /\ user.hash \in Words \cup {NoPassword}
      BY <1>0 DEF Row
    <3>2. a \in Row BY <3>1, IdleType, SetColumn
    <3>3. kept = [a EXCEPT !.hash = user.hash] BY IdleType DEF Row
    <3> HIDE DEF a
    <3>4. [a EXCEPT !.hash = user.hash] \in Row BY <3>1, <3>2, SetColumn
    <3> QED BY <3>3, <3>4
  <2>2. Verified(user, w) \in Op /\ Verified(user, w).token = 0
    BY <1>0, VerifiedType
  <2>3. Goto(p, Verified(user, w)) \/ Goto(p, new)
    BY <1>2 DEF LoginFind
  <2> HIDE DEF kept
  <2>4. new \in Op /\ new.token = 0
    BY <2>1, <2>2 DEF Op, PC, LoginPC
  <2> HIDE DEF new
  <2>5. op' \in [Procs -> Op] /\ \A q \in Procs : op'[q].token \in 0..issued
    BY <1>1, <2>2, <2>3, <2>4
  <2>6. UNCHANGED <<user, profile, issued, blocks, over, mustToken, history>>
    BY <1>2 DEF LoginFind
  <2> QED BY <2>5, <2>6 DEF TypeInv, TypeOK, history
<1>3. CASE LoginRelease(p)
  <2>1. user' \in Row BY <1>0, <1>3, EntityType DEF LoginRelease
  <2>2. op[p].found \in Row BY <1>0 DEF Op
  <2>3. op' \in [Procs -> Op] /\ \A q \in Procs : op'[q].token \in 0..issued
    BY <1>1, <1>3, <2>2, VerifiedType DEF LoginRelease
  <2> QED BY <1>3, <2>1, <2>3 DEF LoginRelease, TypeInv, TypeOK, history
<1>4. CASE LoginClear(p)
  <2>1. user' \in Row BY <1>0, <1>4, EntityType DEF LoginClear
  <2>2. op[p].found \in Row BY <1>0 DEF Op
  <2>3. mustToken' \in BOOLEAN BY <1>4, <2>2 DEF LoginClear, Row, TypeInv, TypeOK
  <2> QED BY <1>4, <2>1, <2>3, EndType DEF LoginClear, TypeInv, TypeOK, history
<1>5. CASE LoginCount(p)
  <2> DEFINE new == [Idle EXCEPT !.pc = "read"]
  <2>1. new \in Op /\ new.token = 0
    BY IdleType DEF Op, PC, LoginPC
  <2>2. CASE Countable
    <3>1. user' = [user EXCEPT !.failed = @ + 1] /\ Goto(p, new)
      BY <1>5, <2>2 DEF LoginCount
    <3> HIDE DEF new
    <3>2. user.failed + 1 \in 0..MaxAttempts
      BY <1>0, <2>2 DEF Countable, Row
    <3>3. user' \in Row BY <1>0, <3>1, <3>2, SetColumn
    <3> QED BY <1>1, <1>5, <2>1, <3>1, <3>3 DEF LoginCount, TypeInv, TypeOK, history
  <2>3. CASE ~Countable
    BY <1>5, <2>3, EndType DEF LoginCount, TypeInv, TypeOK, history
  <2> QED BY <2>2, <2>3
<1>6. CASE LoginRead(p)
  <2> DEFINE new == [Idle EXCEPT !.pc = "lock"]
  <2>1. new \in Op /\ new.token = 0
    BY IdleType DEF Op, PC, LoginPC
  <2>2. Goto(p, new) \/ End(p) BY <1>6 DEF LoginRead
  <2> HIDE DEF new
  <2>3. op' \in [Procs -> Op] /\ \A q \in Procs : op'[q].token \in 0..issued
    BY <1>1, <2>1, <2>2, EndType
  <2> QED BY <1>6, <2>3 DEF LoginRead, TypeInv, TypeOK, history
<1>7. CASE LoginLock(p)
  <2>1. blocks \in Nat /\ blocks + 1 \in 0..MaxBlocks /\ blocks' = blocks + 1
    BY <1>7 DEF LoginLock, BlockToSpare, TypeInv, TypeOK
  <2>2. user' \in Row BY <1>0, <1>7, <2>1, SetColumn DEF LoginLock
  <2>3. over \subseteq 1..blocks'
    BY <2>1 DEF TypeInv, TypeOK
  <2> QED BY <1>7, <2>1, <2>2, <2>3, EndType DEF LoginLock, TypeInv, TypeOK, history
<1> QED BY <1>2, <1>3, <1>4, <1>5, <1>6, <1>7 DEF Login

(* A token that is used up was issued.                                      *)
LEMMA SpentType ==
    ASSUME TypeInv, NEW p \in Procs,
           spent' = spent \cup ({op[p].token} \ {NoToken})
    PROVE  spent' \subseteq 1..issued
<1>1. op[p].token \in 0..issued /\ issued \in Nat BY DEF TypeInv, TypeOK
<1>2. ({op[p].token} \ {NoToken}) \subseteq 1..issued BY <1>1 DEF NoToken
<1> QED BY <1>2 DEF TypeInv, TypeOK

LEMMA UpdateType ==
    ASSUME TypeInv, NEW p \in Procs, Update(p)
    PROVE  TypeInv'
<1>1. op[p] \in Op BY DEF TypeInv, TypeOK
<1>2. user' \in Row /\ lost' \subseteq Watched BY <1>1, UpdateRowType DEF Update
<1>3. spent' \subseteq 1..issued BY SpentType DEF Update
<1> QED BY <1>2, <1>3, EndType DEF Update, TypeInv, TypeOK

LEMMA PasswordType ==
    ASSUME TypeInv, NEW p \in Procs,
           \/ \E w \in Words, n \in Passwords : ChangeFind(p, w, n)
           \/ \E t \in 1..issued, n \in Passwords : ResetFind(p, t, n)
           \/ \E n \in Passwords : FirstFind(p, n)
           \/ ChangeWrite(p) \/ ResetWrite(p) \/ ResetConsume(p) \/ Sweep(p)
           \/ FirstWrite(p) \/ FirstConsent(p)
    PROVE  TypeInv'
<1>0. user \in Row /\ op[p] \in Op /\ issued \in Nat /\ op[p].token \in 0..issued
  BY DEF TypeInv, TypeOK
<1>1. ASSUME NEW new \in Op, new.token \in 0..issued, Goto(p, new)
      PROVE  op' \in [Procs -> Op] /\ \A q \in Procs : op'[q].token \in 0..issued
  BY <1>0, <1>1, GotoType
<1>w. op[p].word \in Words \cup {NoPassword} BY <1>0 DEF Op
<1>i. ASSUME NEW c \in PC, NEW w \in Words \cup {NoPassword}
      PROVE  /\ [Idle EXCEPT !.pc = c, !.word = w] \in Op
             /\ [Idle EXCEPT !.pc = c, !.word = w].token = 0
  BY IdleType DEF Op
<1>2. ASSUME NEW w \in Words, NEW n \in Passwords, ChangeFind(p, w, n)
      PROVE  TypeInv'
  <2> DEFINE new == [Idle EXCEPT !.pc = "change", !.word = n]
  <2>1. new \in Op /\ new.token = 0 BY <1>i DEF PC, Words
  <2>2. Goto(p, new) BY <1>2 DEF ChangeFind
  <2> HIDE DEF new
  <2>3. op' \in [Procs -> Op] /\ \A q \in Procs : op'[q].token \in 0..issued
    BY <1>0, <1>1, <2>1, <2>2
  <2>4. UNCHANGED <<user, profile, issued, blocks, over, mustToken, history>>
    BY <1>2 DEF ChangeFind
  <2> QED BY <2>3, <2>4 DEF TypeInv, TypeOK, history
<1>3. ASSUME NEW t \in 1..issued, NEW n \in Passwords, ResetFind(p, t, n)
      PROVE  TypeInv'
  <2> DEFINE e == [user EXCEPT !.rtoken = NoToken]
             new == [pc |-> "hash", token |-> t, found |-> user, word |-> n,
                     entity |-> e]
  <2>1. e \in Row BY <1>0, SetColumn DEF NoToken
  <2>2. Goto(p, new) BY <1>3 DEF ResetFind
  <2> HIDE DEF e
  <2>3. t \in 0..MaxTokens /\ t \in 0..issued BY <1>0 DEF TypeInv, TypeOK
  <2>4. new \in Op /\ new.token = t BY <1>0, <2>1, <2>3 DEF Op, PC, ResetPC, Words
  <2> HIDE DEF new
  <2> QED BY <1>1, <1>3, <2>2, <2>3, <2>4 DEF ResetFind, TypeInv, TypeOK, history
<1>4. ASSUME NEW n \in Passwords, FirstFind(p, n) PROVE TypeInv'
  <2> DEFINE e == [user EXCEPT !.hash = n, !.must = FALSE]
             new == [pc |-> "first", token |-> NoToken, found |-> user, word |-> n,
                     entity |-> e]
  <2>1. e \in Row BY <1>0, EntityType DEF Words
  <2>2. Goto(p, new) BY <1>4 DEF FirstFind
  <2> HIDE DEF e
  <2>3. new \in Op /\ new.token = 0 BY <1>0, <2>1 DEF Op, PC, Words, NoToken
  <2> HIDE DEF new
  <2>4. op' \in [Procs -> Op] /\ \A q \in Procs : op'[q].token \in 0..issued
    BY <1>0, <1>1, <2>2, <2>3
  <2>5. UNCHANGED <<user, profile, issued, blocks, over, mustToken, history>>
    BY <1>4 DEF FirstFind
  <2> QED BY <2>4, <2>5 DEF TypeInv, TypeOK, history
<1>s. ASSUME Goto(p, [Idle EXCEPT !.pc = "sweep", !.word = op[p].word])
      PROVE  op' \in [Procs -> Op] /\ \A q \in Procs : op'[q].token \in 0..issued
  <2> DEFINE new == [Idle EXCEPT !.pc = "sweep", !.word = op[p].word]
  <2>1. new \in Op /\ new.token = 0 BY <1>w, <1>i DEF PC
  <2>2. Goto(p, new) BY <1>s
  <2> HIDE DEF new
  <2> QED BY <1>0, <1>1, <2>1, <2>2
<1>5. CASE ChangeWrite(p)
  <2>1. user' \in Row BY <1>0, <1>w, <1>5, SetColumn DEF ChangeWrite
  <2>2. op' \in [Procs -> Op] /\ \A q \in Procs : op'[q].token \in 0..issued
    BY <1>5, <1>s DEF ChangeWrite
  <2> QED BY <1>5, <2>1, <2>2 DEF ChangeWrite, TypeInv, TypeOK
<1>6. CASE ResetWrite(p)
  <2> DEFINE new == [op[p] EXCEPT !.pc = "consume"]
  <2>1. user' \in Row BY <1>0, <1>w, <1>6, SetColumn DEF ResetWrite
  <2>2. new \in Op /\ new.token = op[p].token BY <1>0 DEF Op, PC, ResetPC
  <2>3. Goto(p, new) BY <1>6 DEF ResetWrite
  <2> HIDE DEF new
  <2>4. op' \in [Procs -> Op] /\ \A q \in Procs : op'[q].token \in 0..issued
    BY <1>0, <1>1, <2>2, <2>3
  <2> QED BY <1>6, <2>1, <2>4 DEF ResetWrite, TypeInv, TypeOK
<1>7. CASE ResetConsume(p)
  <2>1. user' \in Row /\ lost' \subseteq Watched
    BY <1>0, <1>7, UpdateRowType DEF ResetConsume
  <2>2. spent' \subseteq 1..issued BY <1>7, SpentType DEF ResetConsume
  <2>3. op' \in [Procs -> Op] /\ \A q \in Procs : op'[q].token \in 0..issued
    BY <1>7, <1>s DEF ResetConsume
  <2> QED BY <1>7, <2>1, <2>2, <2>3 DEF ResetConsume, TypeInv, TypeOK
<1>8. CASE Sweep(p)
  BY <1>8, EndType DEF Sweep, TypeInv, TypeOK, history
<1>9. CASE FirstWrite(p)
  <2> DEFINE new == [Idle EXCEPT !.pc = "consent"]
  <2>1. user' \in Row /\ lost' \subseteq Watched
    BY <1>0, <1>9, UpdateRowType DEF FirstWrite
  <2>2. new \in Op /\ new.token = 0 BY IdleType DEF Op, PC
  <2>3. Goto(p, new) BY <1>9 DEF FirstWrite
  <2> HIDE DEF new
  <2>4. op' \in [Procs -> Op] /\ \A q \in Procs : op'[q].token \in 0..issued
    BY <1>0, <1>1, <2>2, <2>3
  <2> QED BY <1>9, <2>1, <2>4 DEF FirstWrite, TypeInv, TypeOK
<1>10. CASE FirstConsent(p)
  BY <1>10, EndType DEF FirstConsent, Consented, TypeInv, TypeOK, history
<1> QED BY <1>2, <1>3, <1>4, <1>5, <1>6, <1>7, <1>8, <1>9, <1>10

LEMMA InitType == Init => TypeInv
<1>1. 0 \in Nat /\ 0 \in 0..MaxTokens /\ 0 \in 0..MaxBlocks /\ 0 \in 0..0
  OBVIOUS
<1> QED BY <1>1, IdleType DEF Init, TypeInv, TypeOK

LEMMA NextType == TypeInv /\ [Next]_vars => TypeInv'
<1> SUFFICES ASSUME TypeInv, [Next]_vars PROVE TypeInv'
  OBVIOUS
<1>1. ASSUME NEW p \in Procs, Begin(p) PROVE TypeInv'
  BY <1>1, CreateType, LoadType, LoginType, PasswordType DEF Begin
<1>2. ASSUME NEW p \in Procs, Step(p) PROVE TypeInv'
  BY <1>2, CreateType, UpdateType, LoginType, PasswordType DEF Step
<1>3. ASSUME NEW p \in Procs, Fail(p) PROVE TypeInv'
  BY <1>3, EndType DEF Fail, HalfDone, TypeInv, TypeOK
<1>4. ASSUME NEW b \in 1..MaxBlocks, BlockEnds(b) PROVE TypeInv'
  BY <1>4 DEF BlockEnds, TypeInv, TypeOK, history
<1>5. CASE UNCHANGED vars
  BY <1>5 DEF vars, TypeInv, TypeOK
<1> QED BY <1>1, <1>2, <1>3, <1>4, <1>5 DEF Next

(* In every reachable state each variable has its type; in particular no    *)
(* counter passes its limit, although every request reads the counter it    *)
(* increments or compares some awaits earlier.                              *)
THEOREM TypeCorrect == Spec => []TypeOK
<1>1. TypeInv => TypeOK BY DEF TypeInv
<1> QED BY InitType, NextType, <1>1, PTL DEF Spec

-----------------------------------------------------------------------------
(* What a request that will write the whole row has made of the entity it  *)
(* read.  This is where an invariant about the row needs the memory of the *)
(* requests: without it a late write could put anything into the row.      *)

Copying == {"update", "hash", "consume", "first"}

Faithful(o) ==
    /\ o.entity.failed = o.found.failed
    /\ o.entity.blocked = o.found.blocked
    /\ \/ /\ o.entity.verified = o.found.verified
          /\ o.entity.status = o.found.status
       \/ o.entity.verified /\ o.entity.status = "ACTIVE"

CopyInv == \A p \in Procs : op[p].pc \in Copying => Faithful(op[p])

LEMMA GotoOp ==
    ASSUME TypeInv, NEW p \in Procs, NEW new, Goto(p, new)
    PROVE  op'[p] = new /\ \A q \in Procs \ {p} : op'[q] = op[q]
BY DEF TypeInv, TypeOK, Goto

LEMMA EndOp ==
    ASSUME TypeInv, NEW p \in Procs, End(p)
    PROVE  op'[p].pc = "idle" /\ \A q \in Procs \ {p} : op'[q] = op[q]
BY GotoOp DEF End, Idle

(* The step of a request leaves the others where they are.                  *)
LEMMA Others ==
    ASSUME TypeInv, NEW p \in Procs, Begin(p) \/ Step(p) \/ Fail(p)
    PROVE  \A q \in Procs \ {p} : op'[q] = op[q]
<1>1. ASSUME NEW new, Goto(p, new) PROVE \A q \in Procs \ {p} : op'[q] = op[q]
  BY <1>1, GotoOp
<1>2. ASSUME End(p) PROVE \A q \in Procs \ {p} : op'[q] = op[q]
  BY <1>2, EndOp
<1>3. CASE Begin(p)
  BY <1>1, <1>3 DEF Begin, Register, FirstFind, Provision, LoginFind, ChangeFind,
     ResetFind, VerifyEmail, ForgotPassword, ResendVerification, Load
<1>4. CASE Login(p)
  BY <1>1, <1>2, <1>4 DEF Login, LoginRelease, LoginClear, LoginCount, LoginRead,
     LoginLock
<1>5. CASE Step(p)
  BY <1>1, <1>2, <1>4, <1>5 DEF Step, ProvisionProfile, Update, ChangeWrite,
     ResetWrite, ResetConsume, Sweep, FirstWrite, FirstConsent
<1>6. CASE Fail(p)
  BY <1>2, <1>6 DEF Fail
<1> QED BY <1>3, <1>5, <1>6

(* What the requests that will write the whole row do to the entity.        *)
LEMMA LoadFaithful ==
    ASSUME TypeInv, NEW p \in Procs,
           \/ ForgotPassword(p) \/ ResendVerification(p)
           \/ \E t \in 1..issued : VerifyEmail(p, t)
    PROVE  Faithful(op'[p])
<1>0. user \in Row BY DEF TypeInv, TypeOK
<1>1. ASSUME NEW t, NEW e, Load(p, t, e)
      PROVE  op'[p].found = user /\ op'[p].entity = e
  <2>1. op'[p] = [Idle EXCEPT !.pc = "update", !.token = t, !.found = user,
                              !.entity = e]
    BY <1>1, GotoOp DEF Load
  <2> QED BY <2>1 DEF Idle
<1>2. CASE ForgotPassword(p)
  <2> DEFINE e == [user EXCEPT !.rtoken = Fresh]
  <2>1. op'[p].found = user /\ op'[p].entity = e
    BY <1>1, <1>2 DEF ForgotPassword
  <2>2. /\ e.failed = user.failed /\ e.blocked = user.blocked
        /\ e.verified = user.verified /\ e.status = user.status
    BY <1>0 DEF Row
  <2> HIDE DEF e
  <2> QED BY <2>1, <2>2 DEF Faithful
<1>3. CASE ResendVerification(p)
  <2> DEFINE e == [user EXCEPT !.vtoken = Fresh]
  <2>1. op'[p].found = user /\ op'[p].entity = e
    BY <1>1, <1>3 DEF ResendVerification
  <2>2. /\ e.failed = user.failed /\ e.blocked = user.blocked
        /\ e.verified = user.verified /\ e.status = user.status
    BY <1>0 DEF Row
  <2> HIDE DEF e
  <2> QED BY <2>1, <2>2 DEF Faithful
<1>4. ASSUME NEW t \in 1..issued, VerifyEmail(p, t) PROVE Faithful(op'[p])
  <2>1. op'[p].found = user /\ op'[p].entity = EmailVerified(user)
    BY <1>1, <1>4 DEF VerifyEmail
  <2>2. /\ EmailVerified(user).failed = user.failed
        /\ EmailVerified(user).blocked = user.blocked
        /\ EmailVerified(user).verified
        /\ EmailVerified(user).status = "ACTIVE"
    BY <1>0 DEF Row, EmailVerified
  <2> QED BY <2>1, <2>2 DEF Faithful
<1> QED BY <1>2, <1>3, <1>4

LEMMA FindFaithful ==
    ASSUME TypeInv, NEW p \in Procs,
           \/ \E t \in 1..issued, n \in Passwords : ResetFind(p, t, n)
           \/ \E n \in Passwords : FirstFind(p, n)
    PROVE  Faithful(op'[p])
<1>0. user \in Row BY DEF TypeInv, TypeOK
<1>1. ASSUME NEW t \in 1..issued, NEW n \in Passwords, ResetFind(p, t, n)
      PROVE  Faithful(op'[p])
  <2> DEFINE e == [user EXCEPT !.rtoken = NoToken]
  <2>1. e.failed = user.failed /\ e.blocked = user.blocked
        /\ e.verified = user.verified /\ e.status = user.status
    BY <1>0 DEF Row
  <2>2. Goto(p, [pc |-> "hash", token |-> t, found |-> user, word |-> n, entity |-> e])
    BY <1>1 DEF ResetFind
  <2> HIDE DEF e
  <2>3. op'[p].found = user /\ op'[p].entity = e BY <2>2, GotoOp
  <2> QED BY <2>1, <2>3 DEF Faithful
<1>2. ASSUME NEW n \in Passwords, FirstFind(p, n)
      PROVE  Faithful(op'[p])
  <2> DEFINE e == [user EXCEPT !.hash = n, !.must = FALSE]
  <2>1. e.failed = user.failed /\ e.blocked = user.blocked
        /\ e.verified = user.verified /\ e.status = user.status
    BY <1>0 DEF Row
  <2>2. Goto(p, [pc |-> "first", token |-> NoToken, found |-> user, word |-> n,
                 entity |-> e])
    BY <1>2 DEF FirstFind
  <2> HIDE DEF e
  <2>3. op'[p].found = user /\ op'[p].entity = e BY <2>2, GotoOp
  <2> QED BY <2>1, <2>3 DEF Faithful
<1> QED BY <1>1, <1>2

(* updatePasswordHash in a reset leaves the entity in memory alone.         *)
LEMMA ResetWriteKeeps ==
    ASSUME TypeInv, NEW p \in Procs, ResetWrite(p)
    PROVE  /\ op'[p].pc = "consume" /\ op'[p].token = op[p].token
           /\ op'[p].entity = op[p].entity /\ op'[p].found = op[p].found
           /\ op'[p].word = op[p].word
<1>1. op[p] \in Op BY DEF TypeInv, TypeOK
<1>2. op'[p] = [op[p] EXCEPT !.pc = "consume"] BY GotoOp DEF ResetWrite
<1> QED BY <1>1, <1>2 DEF Op

(* All other steps end without an entity to be written.                     *)
LEMMA NothingCopied ==
    ASSUME TypeInv, NEW p \in Procs,
           \/ \E w \in Words : LoginFind(p, w)
           \/ \E w \in Words, n \in Passwords : ChangeFind(p, w, n)
           \/ Provision(p) \/ ProvisionProfile(p) \/ Update(p) \/ Login(p)
           \/ ChangeWrite(p) \/ ResetConsume(p) \/ Sweep(p) \/ FirstWrite(p)
           \/ FirstConsent(p) \/ Fail(p)
    PROVE  op'[p].pc \notin Copying /\ (op'[p].pc = "profile" => Provision(p))
<1> USE DEF Copying
<1>0. op[p] \in Op /\ user \in Row BY DEF TypeInv, TypeOK
<1>1. ASSUME NEW c, NEW w, Goto(p, [Idle EXCEPT !.pc = c, !.word = w])
      PROVE  op'[p].pc = c
  <2>1. [Idle EXCEPT !.pc = c, !.word = w].pc = c BY DEF Idle
  <2>2. op'[p] = [Idle EXCEPT !.pc = c, !.word = w] BY <1>1, GotoOp
  <2> QED BY <2>1, <2>2
<1>2. ASSUME NEW c, Goto(p, [Idle EXCEPT !.pc = c]) PROVE op'[p].pc = c
  BY <1>2, GotoOp DEF Idle
<1>3. ASSUME NEW u \in Row, NEW w, Goto(p, Verified(u, w))
      PROVE  op'[p].pc \in {"clear", "count"}
  BY <1>3, VerifiedType, GotoOp
<1>4. ASSUME NEW w \in Words, LoginFind(p, w)
      PROVE  op'[p].pc \notin Copying \cup {"profile"}
  <2>1. CASE user.blocked \in over
    <3> DEFINE kept == [NoRow EXCEPT !.must = user.must, !.hash = user.hash]
               new == [Verified(user, w) EXCEPT !.pc = "release",
                          !.found = kept, !.word = w]
    <3>1. Goto(p, new) BY <1>4, <2>1 DEF LoginFind
    <3>2. new.pc = "release"
      <4> HIDE DEF kept
      <4> QED BY <1>0, VerifiedType DEF Op
    <3> HIDE DEF new
    <3> QED BY <3>1, <3>2, GotoOp
  <2>2. CASE user.blocked \notin over
    BY <1>0, <1>3, <1>4, <2>2 DEF LoginFind
  <2> QED BY <2>1, <2>2
<1>5. CASE Login(p)
  <2>1. op[p].found \in Row BY <1>0 DEF Op
  <2>2. CASE LoginRelease(p) BY <1>3, <2>1, <2>2 DEF LoginRelease
  <2>3. CASE LoginClear(p) BY <2>3, EndOp DEF LoginClear
  <2>4. CASE LoginCount(p) BY <1>2, <2>4, EndOp DEF LoginCount
  <2>5. CASE LoginRead(p) BY <1>2, <2>5, EndOp DEF LoginRead
  <2>6. CASE LoginLock(p) BY <2>6, EndOp DEF LoginLock
  <2> QED BY <1>5, <2>2, <2>3, <2>4, <2>5, <2>6 DEF Login
<1>6. CASE \E w \in Words, n \in Passwords : ChangeFind(p, w, n)
  BY <1>1, <1>6 DEF ChangeFind
<1>7. CASE Provision(p) BY <1>2, <1>7 DEF Provision
<1>8. CASE FirstWrite(p) BY <1>2, <1>8 DEF FirstWrite
<1>9. CASE ChangeWrite(p) BY <1>1, <1>9 DEF ChangeWrite
<1>10. CASE ResetConsume(p) BY <1>1, <1>10 DEF ResetConsume
<1>11. CASE ProvisionProfile(p) \/ Update(p) \/ Sweep(p) \/ FirstConsent(p) \/ Fail(p)
  BY <1>11, EndOp DEF ProvisionProfile, Update, Sweep, FirstConsent, Fail
<1> QED BY <1>4, <1>5, <1>6, <1>7, <1>8, <1>9, <1>10, <1>11

LEMMA CopyStep == TypeInv /\ CopyInv /\ [Next]_vars => CopyInv'
<1> SUFFICES ASSUME TypeInv, CopyInv, [Next]_vars PROVE CopyInv'
  OBVIOUS
<1>1. ASSUME NEW p \in Procs, \A q \in Procs \ {p} : op'[q] = op[q],
             op'[p].pc \in Copying => Faithful(op'[p])
      PROVE  CopyInv'
  BY <1>1 DEF CopyInv, Faithful
<1>2. ASSUME NEW p \in Procs, Begin(p) PROVE CopyInv'
  <2>1. CASE \E w \in Passwords : Register(p, w)
    BY <2>1 DEF Register, CopyInv, Faithful
  <2>2. CASE ~ \E w \in Passwords : Register(p, w)
    <3>1. op'[p].pc \in Copying => Faithful(op'[p])
      BY <1>2, <2>2, LoadFaithful, FindFaithful, NothingCopied DEF Begin
    <3> QED BY <1>1, <1>2, <3>1, Others
  <2> QED BY <2>1, <2>2
<1>3. ASSUME NEW p \in Procs, Step(p) PROVE CopyInv'
  <2>1. CASE ResetWrite(p)
    <3>1. Faithful(op[p]) BY <2>1 DEF CopyInv, ResetWrite, Copying
    <3>2. Faithful(op'[p]) BY <2>1, <3>1, ResetWriteKeeps DEF Faithful
    <3> QED BY <1>1, <1>3, <3>2, Others
  <2>2. CASE ~ResetWrite(p)
    <3>1. op'[p].pc \notin Copying BY <1>3, <2>2, NothingCopied DEF Step
    <3> QED BY <1>1, <1>3, <3>1, Others
  <2> QED BY <2>1, <2>2
<1>4. ASSUME NEW p \in Procs, Fail(p) PROVE CopyInv'
  BY <1>1, <1>4, NothingCopied, Others
<1>5. CASE UNCHANGED op
  BY <1>5 DEF CopyInv, Faithful
<1> QED BY <1>2, <1>3, <1>4, <1>5 DEF Next, BlockEnds, vars

-----------------------------------------------------------------------------
(* The lockout and the verified address.                                    *)

(* A verified account is active, unless a late write took one column back.  *)
VerifiedInv ==
    user.verified => \/ user.status = "ACTIVE"
                     \/ lost \cap {"verified", "status"} # {}

SafeInv == TypeInv /\ CopyInv /\ VerifiedInv /\ NotTrapped

(* What a write of the whole row does, given that the entity is faithful.   *)
LEMMA WriteEffect ==
    ASSUME TypeInv, NEW p \in Procs, Faithful(op[p]), UpdateRow(op[p])
    PROVE  /\ user'.verified = op[p].entity.verified
           /\ user'.status = op[p].entity.status
           /\ user'.failed = op[p].entity.failed
           /\ user'.blocked = IF op[p].entity.blocked = NoBlock
                              THEN user.blocked ELSE op[p].entity.blocked
           /\ lost \subseteq lost'
           /\ \A c \in Watched : (user'[c] # user[c] /\ op[p].entity[c] = op[p].found[c])
                                    => c \in lost'
<1>0. op[p].entity \in Row BY DEF TypeInv, TypeOK, Op
<1>1. /\ Written(op[p]).verified = op[p].entity.verified
      /\ Written(op[p]).status = op[p].entity.status
      /\ Written(op[p]).failed = op[p].entity.failed
      /\ Written(op[p]).blocked = IF op[p].entity.blocked = NoBlock
                                  THEN user.blocked ELSE op[p].entity.blocked
  BY <1>0 DEF Written, Row
<1> HIDE DEF Written
<1> QED BY <1>1 DEF UpdateRow, Restored

LEMMA WriteVerified ==
    ASSUME TypeInv, VerifiedInv, NEW p \in Procs, Faithful(op[p]), UpdateRow(op[p])
    PROVE  /\ VerifiedInv'
           /\ user.verified => \/ user'.verified /\ user'.status = "ACTIVE"
                               \/ lost' \cap {"verified", "status"} # {}
<1> DEFINE Excused == lost' \cap {"verified", "status"} # {}
<1>0. user \in Row /\ op[p].entity \in Row /\ op[p].found \in Row
  BY DEF TypeInv, TypeOK, Op
<1>1. {"verified", "status"} \subseteq Watched BY DEF Watched, Columns
<1>2. lost \cap {"verified", "status"} # {} => Excused BY WriteEffect
<1>3. CASE op[p].entity.verified /\ op[p].entity.status = "ACTIVE"
  BY <1>3, WriteEffect DEF VerifiedInv
<1>4. CASE op[p].entity.verified = op[p].found.verified
           /\ op[p].entity.status = op[p].found.status
  <2>1. user'.verified # user.verified => Excused
    BY <1>1, <1>4, WriteEffect
  <2>2. user'.status # user.status => Excused
    BY <1>1, <1>4, WriteEffect
  <2> QED BY <1>2, <2>1, <2>2 DEF VerifiedInv
<1> QED BY <1>3, <1>4 DEF Faithful

(* The columns verified and status change only in an insert, when a block   *)
(* is released, and in a write of the whole row.                            *)
LEMMA VerifiedStep ==
    ASSUME TypeInv, CopyInv, VerifiedInv, [Next]_vars
    PROVE  /\ VerifiedInv'
           /\ user.verified => \/ user'.verified /\ user'.status = "ACTIVE"
                               \/ lost' \cap {"verified", "status"} # {}
<1> DEFINE Stays == user.verified => \/ user'.verified /\ user'.status = "ACTIVE"
                                     \/ lost' \cap {"verified", "status"} # {}
<1>0. user \in Row BY DEF TypeInv, TypeOK
<1>1. ASSUME user'.verified = user.verified, user'.status = user.status, lost' = lost
      PROVE  VerifiedInv' /\ Stays
  BY <1>1 DEF VerifiedInv
<1>2. ASSUME user'.verified = user.verified, user'.status = "ACTIVE", lost' = lost
      PROVE  VerifiedInv' /\ Stays
  BY <1>2 DEF VerifiedInv
<1>3. ASSUME user.status = "ABSENT", user'.verified => user'.status = "ACTIVE", lost' = lost
      PROVE  VerifiedInv' /\ Stays
  BY <1>3 DEF VerifiedInv
<1>4. ASSUME NEW p \in Procs, Begin(p) PROVE VerifiedInv' /\ Stays
  <2>1. ASSUME NEW w \in Passwords, Register(p, w) PROVE VerifiedInv' /\ Stays
    <3>1. user'.verified = FALSE
      <4>1. user' = [NoRow EXCEPT !.status = "PENDING", !.hash = w, !.vtoken = Fresh]
        BY <2>1 DEF Register
      <4>2. [NoRow EXCEPT !.status = "PENDING", !.hash = w, !.vtoken = Fresh].verified
               = NoRow.verified
        BY DEF NoRow
      <4> QED BY <4>1, <4>2 DEF NoRow
    <3>2. user.status = "ABSENT" /\ lost' = lost BY <2>1 DEF Register, Exists
    <3> QED BY <1>3, <3>1, <3>2
  <2>2. CASE Provision(p)
    <3>1. user'.status = "ACTIVE"
      <4>1. user' = [NoRow EXCEPT !.status = "ACTIVE", !.hash = TempPassword,
                                  !.verified = TRUE, !.must = TRUE]
        BY <2>2 DEF Provision
      <4>2. [NoRow EXCEPT !.status = "ACTIVE", !.hash = TempPassword,
                          !.verified = TRUE, !.must = TRUE].status = "ACTIVE"
        BY DEF NoRow
      <4> QED BY <4>1, <4>2
    <3>2. user.status = "ABSENT" /\ lost' = lost BY <2>2 DEF Provision, Exists
    <3> QED BY <1>3, <3>1, <3>2
  <2>3. CASE ~Provision(p) /\ ~ \E w \in Passwords : Register(p, w)
    <3>1. user' = user /\ lost' = lost
      BY <1>4, <2>3 DEF Begin, FirstFind, LoginFind, ChangeFind, ResetFind,
         VerifyEmail, ForgotPassword, ResendVerification, Load, history
    <3> QED BY <1>1, <3>1
  <2> QED BY <2>1, <2>2, <2>3
<1>5. ASSUME NEW p \in Procs, Step(p) PROVE VerifiedInv' /\ Stays
  <2>0. op[p] \in Op /\ op[p].word \in Words \cup {NoPassword} BY DEF TypeInv, TypeOK, Op
  <2>1. CASE Update(p) \/ ResetConsume(p) \/ FirstWrite(p)
    <3>1. Faithful(op[p])
      BY <2>1 DEF Update, ResetConsume, FirstWrite, CopyInv, Copying
    <3>2. UpdateRow(op[p]) BY <2>1 DEF Update, ResetConsume, FirstWrite
    <3> QED BY <3>1, <3>2, WriteVerified
  <2>2. CASE ChangeWrite(p) \/ ResetWrite(p)
    <3>1. user' = [user EXCEPT !.hash = op[p].word] /\ lost' = lost
      BY <2>2 DEF ChangeWrite, ResetWrite
    <3>2. user'.verified = user.verified /\ user'.status = user.status
      BY <1>0, <2>0, <3>1 DEF Row
    <3> QED BY <1>1, <3>1, <3>2
  <2>3. CASE LoginRelease(p)
    <3>1. user' = Released(user) /\ lost' = lost BY <2>3 DEF LoginRelease, history
    <3>2. user'.verified = user.verified /\ user'.status = "ACTIVE"
      BY <1>0, <3>1 DEF Row, Released
    <3> QED BY <1>2, <3>1, <3>2
  <2>4. CASE LoginClear(p)
    <3>1. user' = [user EXCEPT !.failed = 0, !.blocked = NoBlock] /\ lost' = lost
      BY <2>4 DEF LoginClear, history
    <3>2. user'.verified = user.verified /\ user'.status = user.status
      BY <1>0, <3>1 DEF Row
    <3> QED BY <1>1, <3>1, <3>2
  <2>5. CASE LoginCount(p)
    <3>1. (user' = user \/ user' = [user EXCEPT !.failed = @ + 1]) /\ lost' = lost
      BY <2>5 DEF LoginCount, history
    <3>2. user'.verified = user.verified /\ user'.status = user.status
      BY <1>0, <3>1 DEF Row
    <3> QED BY <1>1, <3>1, <3>2
  <2>6. CASE LoginLock(p)
    <3>1. user' = [user EXCEPT !.blocked = blocks + 1] /\ lost' = lost
      BY <2>6 DEF LoginLock, history
    <3>2. user'.verified = user.verified /\ user'.status = user.status
      BY <1>0, <3>1 DEF Row
    <3> QED BY <1>1, <3>1, <3>2
  <2>7. CASE LoginRead(p) \/ Sweep(p) \/ FirstConsent(p) \/ ProvisionProfile(p)
    <3>1. user' = user /\ lost' = lost
      BY <2>7 DEF LoginRead, Sweep, FirstConsent, ProvisionProfile, history
    <3> QED BY <1>1, <3>1
  <2> QED BY <1>5, <2>1, <2>2, <2>3, <2>4, <2>5, <2>6, <2>7 DEF Step, Login
<1>6. CASE UNCHANGED <<user, lost>>
  BY <1>1, <1>6
<1> QED BY <1>4, <1>5, <1>6 DEF Next, Fail, BlockEnds, vars, history

(* Requests between the first and the last statement of the lockout.        *)
Locking(p) == op[p].pc \in {"read", "lock"}

(* Whatever leaves the counter, the block and the requests in the middle of *)
(* a lockout alone traps nobody.                                            *)
LEMMA TrapKept ==
    ASSUME NotTrapped, user'.failed = user.failed, user'.blocked = user.blocked,
           \A q \in Procs : Locking(q) => Locking(q)',
           died \subseteq died', lost \subseteq lost'
    PROVE  NotTrapped'
<1>1. SUFFICES ASSUME user.failed = MaxAttempts, user.blocked = NoBlock,
                      ~ ("lockout" \in died'), lost' \cap {"failed", "blocked"} = {}
               PROVE  \E p \in Procs : op'[p].pc \in {"read", "lock"}
  BY DEF NotTrapped
<1>2. "lockout" \notin died /\ lost \cap {"failed", "blocked"} = {} BY <1>1
<1>3. PICK q \in Procs : op[q].pc \in {"read", "lock"} BY <1>1, <1>2 DEF NotTrapped
<1>4. op'[q].pc \in {"read", "lock"} BY <1>3 DEF Locking
<1> QED BY <1>4

LEMMA TrapWrite ==
    ASSUME TypeInv, NotTrapped, NEW p \in Procs, Faithful(op[p]), UpdateRow(op[p]),
           ~Locking(p), \A q \in Procs \ {p} : op'[q] = op[q], died' = died
    PROVE  NotTrapped'
<1>0. {"failed", "blocked"} \subseteq Watched BY DEF Watched, Columns
<1>1. SUFFICES ASSUME user'.failed = MaxAttempts, user'.blocked = NoBlock,
                      lost' \cap {"failed", "blocked"} = {}
               PROVE  (\E q \in Procs : op'[q].pc \in {"read", "lock"})
                      \/ "lockout" \in died'
  BY DEF NotTrapped
<1>2. user'.failed = user.failed
  BY <1>0, <1>1, WriteEffect DEF Faithful
<1>3. user.blocked = NoBlock BY <1>1, WriteEffect
<1>4. lost \cap {"failed", "blocked"} = {} BY <1>1, WriteEffect
<1>5. CASE "lockout" \in died BY <1>5
<1>6. CASE "lockout" \notin died
  <2>1. PICK q \in Procs : op[q].pc \in {"read", "lock"}
    BY <1>1, <1>2, <1>3, <1>4, <1>6 DEF NotTrapped
  <2>2. q # p BY <2>1 DEF Locking
  <2> QED BY <2>1, <2>2
<1> QED BY <1>5, <1>6

LEMMA TrapStep ==
    ASSUME TypeInv, CopyInv, NotTrapped, [Next]_vars
    PROVE  NotTrapped'
<1>0. user \in Row /\ MaxAttempts # 0 BY DEF TypeInv, TypeOK
<1>1. ASSUME user'.failed # MaxAttempts \/ user'.blocked # NoBlock
      PROVE  NotTrapped'
  BY <1>1 DEF NotTrapped
<1>2. ASSUME NEW p \in Procs, ~Locking(p), \A q \in Procs \ {p} : op'[q] = op[q],
             user'.failed = user.failed, user'.blocked = user.blocked,
             died \subseteq died', lost' = lost
      PROVE  NotTrapped'
  <2>1. \A q \in Procs : Locking(q) => Locking(q)' BY <1>2 DEF Locking
  <2> QED BY <1>2, <2>1, TrapKept
<1>3. ASSUME NEW p \in Procs, Begin(p) PROVE NotTrapped'
  <2>1. ASSUME NEW w \in Passwords, Register(p, w) PROVE NotTrapped'
    <3>1. user' = [NoRow EXCEPT !.status = "PENDING", !.hash = w, !.vtoken = Fresh]
      BY <2>1 DEF Register
    <3>2. [NoRow EXCEPT !.status = "PENDING", !.hash = w, !.vtoken = Fresh].failed
             = NoRow.failed
      BY DEF NoRow
    <3> QED BY <1>0, <1>1, <3>1, <3>2 DEF NoRow
  <2>2. CASE Provision(p)
    <3>1. user' = [NoRow EXCEPT !.status = "ACTIVE", !.hash = TempPassword,
                                !.verified = TRUE, !.must = TRUE]
      BY <2>2 DEF Provision
    <3>2. [NoRow EXCEPT !.status = "ACTIVE", !.hash = TempPassword,
                        !.verified = TRUE, !.must = TRUE].failed = NoRow.failed
      BY DEF NoRow
    <3> QED BY <1>0, <1>1, <3>1, <3>2 DEF NoRow
  <2>3. CASE ~Provision(p) /\ ~ \E w \in Passwords : Register(p, w)
    <3>1. user' = user /\ lost' = lost /\ died' = died /\ op[p].pc = "idle"
      BY <1>3, <2>3 DEF Begin, FirstFind, LoginFind, ChangeFind, ResetFind,
         VerifyEmail, ForgotPassword, ResendVerification, Load, history
    <3> QED BY <1>2, <1>3, <3>1, Others DEF Locking
  <2> QED BY <2>1, <2>2, <2>3
<1>4. ASSUME NEW p \in Procs, Step(p) PROVE NotTrapped'
  <2>0. op[p] \in Op /\ op[p].word \in Words \cup {NoPassword} BY DEF TypeInv, TypeOK, Op
  <2>o. \A q \in Procs \ {p} : op'[q] = op[q] BY <1>4, Others
  <2>1. CASE Update(p) \/ ResetConsume(p) \/ FirstWrite(p)
    <3>1. Faithful(op[p]) /\ ~Locking(p)
      BY <2>1 DEF Update, ResetConsume, FirstWrite, CopyInv, Copying, Locking
    <3>2. UpdateRow(op[p]) /\ died' = died BY <2>1 DEF Update, ResetConsume, FirstWrite
    <3> QED BY <2>o, <3>1, <3>2, TrapWrite
  <2>2. CASE ChangeWrite(p) \/ ResetWrite(p)
    <3>1. /\ user' = [user EXCEPT !.hash = op[p].word]
          /\ lost' = lost /\ died' = died /\ ~Locking(p)
      BY <2>2 DEF ChangeWrite, ResetWrite, Locking
    <3>2. user'.failed = user.failed /\ user'.blocked = user.blocked
      BY <1>0, <2>0, <3>1 DEF Row
    <3> QED BY <1>2, <2>o, <3>1, <3>2
  <2>3. CASE LoginRelease(p)
    <3>1. user'.failed = 0 BY <1>0, <2>3 DEF LoginRelease, Released, Row
    <3> QED BY <1>0, <1>1, <3>1
  <2>4. CASE LoginClear(p)
    <3>1. user'.failed = 0 BY <1>0, <2>4 DEF LoginClear, Row
    <3> QED BY <1>0, <1>1, <3>1
  <2>5. CASE LoginCount(p) /\ Countable
    <3> DEFINE new == [Idle EXCEPT !.pc = "read"]
    <3>1. Goto(p, new) BY <2>5 DEF LoginCount
    <3>2. new.pc = "read" BY DEF Idle
    <3> HIDE DEF new
    <3>3. op'[p].pc = "read" BY <3>1, <3>2, GotoOp
    <3> QED BY <3>3 DEF NotTrapped
  <2>6. CASE LoginCount(p) /\ ~Countable
    <3>1. user' = user /\ lost' = lost /\ died' = died /\ ~Locking(p)
      BY <2>6 DEF LoginCount, history, Locking
    <3> QED BY <1>2, <2>o, <3>1
  <2>7. CASE LoginRead(p) /\ LimitReached
    <3> DEFINE new == [Idle EXCEPT !.pc = "lock"]
    <3>1. Goto(p, new) BY <2>7 DEF LoginRead
    <3>2. new.pc = "lock" BY DEF Idle
    <3> HIDE DEF new
    <3>3. op'[p].pc = "lock" BY <3>1, <3>2, GotoOp
    <3> QED BY <3>3 DEF NotTrapped
  <2>8. CASE LoginRead(p) /\ ~LimitReached
    <3>1. user' = user /\ user.failed # MaxAttempts
      BY <1>0, <2>8 DEF LoginRead, LimitReached, Row
    <3> QED BY <1>1, <3>1
  <2>9. CASE LoginLock(p)
    <3>1. user' = [user EXCEPT !.blocked = blocks + 1] /\ blocks \in Nat
      BY <2>9 DEF LoginLock, TypeInv, TypeOK
    <3>2. user'.blocked # NoBlock BY <1>0, <3>1 DEF Row, NoBlock
    <3> QED BY <1>1, <3>2
  <2>10. CASE Sweep(p) \/ FirstConsent(p) \/ ProvisionProfile(p)
    <3>1. user' = user /\ lost' = lost /\ died' = died /\ ~Locking(p)
      BY <2>10 DEF Sweep, FirstConsent, ProvisionProfile, history, Locking
    <3> QED BY <1>2, <2>o, <3>1
  <2> QED BY <1>4, <2>1, <2>2, <2>3, <2>4, <2>5, <2>6, <2>7, <2>8, <2>9, <2>10
          DEF Step, Login
<1>5. ASSUME NEW p \in Procs, Fail(p) PROVE NotTrapped'
  <2>1. user' = user /\ lost' = lost /\ died \subseteq died' BY <1>5 DEF Fail
  <2>2. CASE Locking(p)
    <3>1. "lockout" \in died' BY <1>5, <2>2 DEF Fail, HalfDone, Locking
    <3> QED BY <3>1 DEF NotTrapped
  <2>3. CASE ~Locking(p)
    BY <1>2, <1>5, <2>1, <2>3, Others
  <2> QED BY <2>2, <2>3
<1>6. CASE UNCHANGED <<user, op, lost, died>>
  BY <1>6, TrapKept DEF Locking
<1> QED BY <1>3, <1>4, <1>5, <1>6 DEF Next, BlockEnds, vars, history

LEMMA InitSafe == Init => SafeInv
<1> SUFFICES ASSUME Init PROVE CopyInv /\ VerifiedInv /\ NotTrapped
  BY InitType DEF SafeInv
<1>1. user.verified = FALSE /\ user.failed = 0 BY DEF Init, NoRow
<1>2. \A p \in Procs : op[p].pc = "idle" BY DEF Init, Idle
<1> QED BY <1>1, <1>2 DEF CopyInv, VerifiedInv, NotTrapped, Copying

LEMMA NextSafe == SafeInv /\ [Next]_vars => SafeInv'
BY NextType, CopyStep, VerifiedStep, TrapStep DEF SafeInv

(* An account without attempts left and without a block is about to be      *)
(* blocked, unless a request died in the middle of registerFailedAttempt or *)
(* a late write restored an old counter or block: whatever the number of    *)
(* requests that fail, succeed, release and reset at the same time.         *)
THEOREM NobodyTrapped == Spec => []NotTrapped
<1>1. SafeInv => NotTrapped BY DEF SafeInv
<1> QED BY InitSafe, NextSafe, <1>1, PTL DEF Spec

(* A verified address and the status that goes with it survive every step   *)
(* except a late write that restores the columns.                           *)
THEOREM AddressStaysVerified == Spec => VerifiedForGood
<1>1. SafeInv /\ [Next]_vars =>
        [user.verified => \/ user'.verified /\ user'.status = "ACTIVE"
                          \/ lost' \cap {"verified", "status"} # {}]_vars
  BY VerifiedStep DEF SafeInv
<1> QED BY InitSafe, NextSafe, <1>1, PTL DEF Spec, VerifiedForGood

-----------------------------------------------------------------------------
(* Tokens.  A used token is not in the row; but requests hold copies of the *)
(* row, and a write of one may bring a token back.  It does so without the  *)
(* excuse only if the token is new, and a new token is nowhere else.        *)

TokensOf(o) == {o.token, o.found.vtoken, o.found.rtoken,
                o.entity.vtoken, o.entity.rtoken}

\* Nobody but p has seen token x, and p only in the entity it will write.
Unseen(x, p) ==
    /\ x \notin spent /\ x # user.vtoken /\ x # user.rtoken
    /\ x \notin {op[p].token, op[p].found.vtoken, op[p].found.rtoken}
    /\ \A q \in Procs \ {p} : op[q].pc \in Copying => x \notin TokensOf(op[q])

\* The token p uses up is the one that it takes out of the entity.
TakesOut(o) == \/ o.token = NoToken
               \/ o.token = o.found.vtoken /\ o.entity.vtoken = NoToken
               \/ o.token = o.found.rtoken /\ o.entity.rtoken = NoToken

Carries(p) ==
    /\ TokensOf(op[p]) \subseteq 0..issued
    /\ TakesOut(op[p])
    /\ op[p].pc = "first" => op[p].token = NoToken
    /\ op[p].entity.vtoken \in {NoToken, op[p].found.vtoken}
       \/ Unseen(op[p].entity.vtoken, p)
    /\ op[p].entity.rtoken \in {NoToken, op[p].found.rtoken}
       \/ Unseen(op[p].entity.rtoken, p)

\* Verification and reset tokens are different tokens.
IsVToken(x) == \/ x = user.vtoken
               \/ \E q \in Procs : /\ op[q].pc \in Copying
                                   /\ x \in {op[q].found.vtoken, op[q].entity.vtoken}
IsRToken(x) == \/ x = user.rtoken
               \/ \E q \in Procs : /\ op[q].pc \in Copying
                                   /\ x \in {op[q].found.rtoken, op[q].entity.rtoken}

TokenInv ==
    /\ SingleUse
    /\ user.vtoken \in 0..issued /\ user.rtoken \in 0..issued
    /\ \A x : IsVToken(x) /\ IsRToken(x) => x = NoToken
    /\ \A p \in Procs : op[p].pc \in Copying => Carries(p)

\* p does not touch the tokens of the row, and goes on without an entity.
Quiet(p) == /\ user'.vtoken = user.vtoken /\ user'.rtoken = user.rtoken
            /\ UNCHANGED <<issued, spent, lost>>
            /\ op'[p].pc \notin Copying
            /\ \A q \in Procs \ {p} : op'[q] = op[q]

(* A step without tokens. *)
LEMMA TokensQuiet ==
    ASSUME TokenInv, NEW p \in Procs, Quiet(p)
    PROVE  TokenInv'
<1>1. SingleUse'
  BY DEF TokenInv, SingleUse, Quiet
<1>2. \A x : (IsVToken(x)' => IsVToken(x)) /\ (IsRToken(x)' => IsRToken(x))
  BY DEF Quiet, IsVToken, IsRToken
<1>3. ASSUME NEW q \in Procs, op'[q].pc \in Copying PROVE Carries(q)'
  <2>1. q # p /\ op'[q] = op[q] /\ Carries(q)
    BY <1>3 DEF Quiet, TokenInv
  <2>2. \A x : Unseen(x, q) => Unseen(x, q)'
    BY <2>1 DEF Unseen, Quiet
  <2> QED
    BY <2>1, <2>2 DEF Carries, Quiet
<1> QED
  BY <1>1, <1>2, <1>3 DEF TokenInv, Quiet

(* A new account. *)
LEMMA TokensCreated ==
    ASSUME TypeInv, TokenInv, NEW p \in Procs,
           \/ user'.vtoken = NoToken /\ issued' = issued
           \/ user'.vtoken = Fresh /\ issued' = Fresh,
           user'.rtoken = NoToken, UNCHANGED <<spent, lost>>,
           op'[p] = op[p] \/ op'[p].pc \notin Copying,
           \A q \in Procs \ {p} : op'[q] = op[q]
    PROVE  TokenInv'
<1>1. issued \in Nat /\ spent \subseteq 1..issued
  BY DEF TypeInv, TypeOK
<1>2. SingleUse'
  BY <1>1 DEF SingleUse, Fresh, NoToken
<1>3. ASSUME NEW q \in Procs, op'[q].pc \in Copying
      PROVE  op'[q] = op[q] /\ Carries(q) /\ Carries(q)'
  <2>1. op'[q] = op[q] /\ Carries(q)
    BY <1>3 DEF TokenInv
  <2>2. op[q].entity.vtoken \in 0..issued /\ op[q].entity.rtoken \in 0..issued
    BY <2>1 DEF Carries, TokensOf
  <2>3. \A x \in 0..issued : x # NoToken /\ Unseen(x, q) => Unseen(x, q)'
    BY <1>1, <2>1 DEF Unseen, Fresh, NoToken
  <2>4. TokensOf(op[q]) \subseteq 0..issued'
    BY <1>1, <2>1 DEF Carries, Fresh
  <2> QED
    BY <2>1, <2>2, <2>3, <2>4 DEF Carries
<1>4. \A x : IsVToken(x)' => IsVToken(x) \/ x = NoToken \/ x = issued + 1
  BY <1>3 DEF IsVToken, Fresh
<1>5. \A x : IsRToken(x)' => x = NoToken \/ (IsRToken(x) /\ x \in 0..issued)
  <2>1. \A q \in Procs : op'[q].pc \in Copying =>
          {op[q].found.rtoken, op[q].entity.rtoken} \subseteq 0..issued
    BY <1>3 DEF Carries, TokensOf
  <2> QED
    BY <1>3, <2>1 DEF IsRToken
<1>6. \A x : IsVToken(x)' /\ IsRToken(x)' => x = NoToken
  BY <1>1, <1>4, <1>5 DEF TokenInv
<1>7. user'.vtoken \in 0..issued' /\ user'.rtoken \in 0..issued'
  BY <1>1 DEF Fresh, NoToken
<1> QED
  BY <1>2, <1>3, <1>6, <1>7 DEF TokenInv

(* A request reads the row and makes an entity of it: it takes out the token *)
(* it was given, or puts in a new one.                                       *)
LEMMA TokensRead ==
    ASSUME TypeInv, TokenInv, NEW p \in Procs,
           UNCHANGED <<user, spent, lost>>,
           \A q \in Procs \ {p} : op'[q] = op[q],
           op'[p].found = user,
           op'[p].pc = "first" => op'[p].token = NoToken,
           LET v == op'[p].entity.vtoken
               r == op'[p].entity.rtoken
               t == op'[p].token
           IN  \/ /\ t = NoToken /\ v = user.vtoken /\ r = user.rtoken
                  /\ issued' = issued
               \/ /\ t = NoToken /\ v = Fresh /\ r = user.rtoken
                  /\ issued' = Fresh
               \/ /\ t = NoToken /\ v = user.vtoken /\ r = Fresh
                  /\ issued' = Fresh
               \/ /\ t = user.vtoken /\ v = NoToken /\ r = user.rtoken
                  /\ issued' = issued
               \/ /\ t = user.rtoken /\ v = user.vtoken /\ r = NoToken
                  /\ issued' = issued
    PROVE  TokenInv'
<1> DEFINE v == op'[p].entity.vtoken
           r == op'[p].entity.rtoken
           t == op'[p].token
<1>1. /\ issued \in Nat /\ spent \subseteq 1..issued
      /\ user.vtoken \in 0..issued /\ user.rtoken \in 0..issued
      /\ issued' \in Nat /\ issued <= issued'
  BY DEF TypeInv, TypeOK, TokenInv, Fresh
<1>2. SingleUse'
  BY DEF TokenInv, SingleUse
<1>3. /\ v \in {NoToken, user.vtoken} \/ (v = issued + 1 /\ issued' = issued + 1)
      /\ r \in {NoToken, user.rtoken} \/ (r = issued + 1 /\ issued' = issued + 1)
      /\ ~(v = issued + 1 /\ r = issued + 1)
      /\ t \in {NoToken, user.vtoken, user.rtoken}
  BY <1>1 DEF Fresh, NoToken
<1>4. \A q \in Procs : op[q].pc \in Copying => TokensOf(op[q]) \subseteq 0..issued
  BY DEF TokenInv, Carries
<1>5. ASSUME NEW q \in Procs, q # p, op'[q].pc \in Copying PROVE Carries(q)'
  <2>1. op'[q] = op[q] /\ Carries(q)
    BY <1>5 DEF TokenInv
  <2>2. ASSUME NEW x \in 0..issued, x # NoToken, Unseen(x, q) PROVE Unseen(x, q)'
    <3>1. x \notin TokensOf(op'[p])
      BY <1>1, <1>3, <2>2 DEF TokensOf, Unseen
    <3> QED
      BY <1>5, <2>1, <2>2, <3>1 DEF Unseen
  <2>3. op[q].entity.vtoken \in 0..issued /\ op[q].entity.rtoken \in 0..issued
    BY <2>1 DEF Carries, TokensOf
  <2>4. TokensOf(op[q]) \subseteq 0..issued'
    BY <1>1, <2>1 DEF Carries
  <2> QED
    BY <2>1, <2>2, <2>3, <2>4 DEF Carries
<1>6. Carries(p)'
  <2>1. ASSUME NEW x, x = issued + 1 PROVE Unseen(x, p)'
    <3>1. \A q \in Procs \ {p} : op'[q].pc \in Copying => x \notin TokensOf(op'[q])
      BY <1>1, <1>4, <2>1
    <3>2. x \notin spent' /\ x # user'.vtoken /\ x # user'.rtoken
      BY <1>1, <2>1
    <3>3. x \notin {t, op'[p].found.vtoken, op'[p].found.rtoken}
      BY <1>1, <1>3, <2>1 DEF NoToken
    <3> QED
      BY <3>1, <3>2, <3>3 DEF Unseen
  <2>2. TokensOf(op'[p]) \subseteq 0..issued'
    BY <1>1, <1>3 DEF TokensOf, NoToken
  <2>3. TakesOut(op'[p])
    BY DEF TakesOut
  <2> QED
    BY <1>3, <2>1, <2>2, <2>3 DEF Carries
<1>7. ASSUME NEW x PROVE (IsVToken(x)' => IsVToken(x) \/ x \in {NoToken, v})
                         /\ (IsRToken(x)' => IsRToken(x) \/ x \in {NoToken, r})
  BY DEF IsVToken, IsRToken
<1>8. ASSUME NEW x, IsVToken(x) \/ IsRToken(x) PROVE x \in 0..issued
  BY <1>1, <1>4, <1>8 DEF IsVToken, IsRToken, TokensOf
<1>9. ASSUME NEW x, IsVToken(x)', IsRToken(x)' PROVE x = NoToken
  <2>1. IsVToken(user.vtoken) /\ IsRToken(user.rtoken)
    BY DEF IsVToken, IsRToken
  <2>2. \/ x = NoToken
        \/ IsVToken(x) /\ x \in 0..issued
        \/ x = v /\ x = issued + 1
    BY <1>3, <1>7, <1>8, <1>9, <2>1
  <2>3. \/ x = NoToken
        \/ IsRToken(x) /\ x \in 0..issued
        \/ x = r /\ x = issued + 1
    BY <1>3, <1>7, <1>8, <1>9, <2>1
  <2>4. IsVToken(x) /\ IsRToken(x) => x = NoToken
    BY DEF TokenInv
  <2> QED
    BY <1>1, <1>3, <2>2, <2>3, <2>4
<1>10. user'.vtoken \in 0..issued' /\ user'.rtoken \in 0..issued'
  BY <1>1
<1> QED
  BY <1>2, <1>5, <1>6, <1>9, <1>10 DEF TokenInv

(* A request writes its entity and uses up its token. *)
LEMMA TokensWritten ==
    ASSUME TypeInv, TokenInv, NEW p \in Procs, Carries(p), op[p].pc \in Copying,
           user'.vtoken = op[p].entity.vtoken, user'.rtoken = op[p].entity.rtoken,
           spent' = spent \cup ({op[p].token} \ {NoToken}),
           lost \subseteq lost', issued' = issued,
           \A c \in {"vtoken", "rtoken"} :
              (user'[c] # user[c] /\ op[p].entity[c] = op[p].found[c]) => c \in lost',
           op'[p].pc \notin Copying, \A q \in Procs \ {p} : op'[q] = op[q]
    PROVE  TokenInv'
<1> DEFINE o == op[p]
<1>0. issued \in Nat /\ spent \subseteq 1..issued
  BY DEF TypeInv, TypeOK
<1>1. /\ IsVToken(user.vtoken) /\ IsVToken(o.found.vtoken) /\ IsVToken(o.entity.vtoken)
      /\ IsRToken(user.rtoken) /\ IsRToken(o.found.rtoken) /\ IsRToken(o.entity.rtoken)
  BY DEF IsVToken, IsRToken
<1>2. \A x : IsVToken(x) /\ IsRToken(x) => x = NoToken
  BY DEF TokenInv
<1>3. user'.vtoken \in spent' => "vtoken" \in lost'
  <2>1. CASE o.entity.vtoken = NoToken
    BY <1>0, <2>1 DEF NoToken
  <2>2. CASE o.entity.vtoken # NoToken /\ o.entity.vtoken = o.found.vtoken
    <3>1. CASE user.vtoken # o.entity.vtoken
      BY <2>2, <3>1
    <3>2. CASE user.vtoken = o.entity.vtoken
      <4>1. user.vtoken # o.token
        BY <1>1, <1>2, <2>2, <3>2 DEF Carries, TakesOut
      <4> QED
        BY <3>2, <4>1 DEF TokenInv, SingleUse
    <3> QED
      BY <3>1, <3>2
  <2>3. CASE Unseen(o.entity.vtoken, p)
    BY <2>3 DEF Unseen
  <2> QED
    BY <2>1, <2>2, <2>3 DEF Carries
<1>4. user'.rtoken \in spent' => "rtoken" \in lost'
  <2>1. CASE o.entity.rtoken = NoToken
    BY <1>0, <2>1 DEF NoToken
  <2>2. CASE o.entity.rtoken # NoToken /\ o.entity.rtoken = o.found.rtoken
    <3>1. CASE user.rtoken # o.entity.rtoken
      BY <2>2, <3>1
    <3>2. CASE user.rtoken = o.entity.rtoken
      <4>1. user.rtoken # o.token
        BY <1>1, <1>2, <2>2, <3>2 DEF Carries, TakesOut
      <4> QED
        BY <3>2, <4>1 DEF TokenInv, SingleUse
    <3> QED
      BY <3>1, <3>2
  <2>3. CASE Unseen(o.entity.rtoken, p)
    BY <2>3 DEF Unseen
  <2> QED
    BY <2>1, <2>2, <2>3 DEF Carries
<1>5. \A x : (IsVToken(x)' => IsVToken(x)) /\ (IsRToken(x)' => IsRToken(x))
  BY DEF IsVToken, IsRToken
<1>6. ASSUME NEW q \in Procs, op'[q].pc \in Copying PROVE Carries(q)'
  <2>1. q # p /\ op'[q] = op[q] /\ Carries(q)
    BY <1>6 DEF TokenInv
  <2>2. \A x : Unseen(x, q) => x \notin TokensOf(o)
    BY <2>1 DEF Unseen
  <2>3. \A x : Unseen(x, q) => Unseen(x, q)'
    BY <2>1, <2>2 DEF Unseen, TokensOf
  <2> QED
    BY <2>1, <2>3 DEF Carries
<1>7. user'.vtoken \in 0..issued' /\ user'.rtoken \in 0..issued'
  BY DEF Carries, TokensOf
<1> QED
  BY <1>2, <1>3, <1>4, <1>5, <1>6, <1>7 DEF TokenInv, SingleUse

(* updatePasswordHash in a reset moves no token. *)
LEMMA TokensPass ==
    ASSUME TypeInv, TokenInv, NEW p \in Procs, ResetWrite(p)
    PROVE  TokenInv'
<1>0. user \in Row /\ op[p] \in Op /\ op[p].word \in Words \cup {NoPassword}
  BY DEF TypeInv, TypeOK, Op
<1>1. user'.vtoken = user.vtoken /\ user'.rtoken = user.rtoken
  BY <1>0 DEF ResetWrite, Row
<1>2. /\ op'[p].token = op[p].token /\ op'[p].found = op[p].found
      /\ op'[p].entity = op[p].entity
      /\ op'[p].pc = "consume" /\ op[p].pc = "hash"
  BY ResetWriteKeeps DEF ResetWrite
<1>3. UNCHANGED <<issued, spent, lost>> /\ \A q \in Procs \ {p} : op'[q] = op[q]
  BY Others DEF ResetWrite, Step
<1>4. \A q \in Procs : /\ op'[q].pc \in Copying <=> op[q].pc \in Copying
                       /\ op'[q].token = op[q].token
                       /\ op'[q].found = op[q].found
                       /\ op'[q].entity = op[q].entity
                       /\ TokensOf(op'[q]) = TokensOf(op[q])
  BY <1>2, <1>3 DEF Copying, TokensOf
<1>5. \A x : (IsVToken(x)' <=> IsVToken(x)) /\ (IsRToken(x)' <=> IsRToken(x))
  BY <1>1, <1>4 DEF IsVToken, IsRToken
<1>6. ASSUME NEW q \in Procs, op'[q].pc \in Copying PROVE Carries(q)'
  <2>1. \A x : Unseen(x, q) => Unseen(x, q)'
    BY <1>1, <1>3, <1>4 DEF Unseen
  <2>2. Carries(q) /\ (op'[q].pc = "first" => op[q].pc = "first")
    BY <1>2, <1>3, <1>4, <1>6 DEF TokenInv
  <2> QED
    BY <1>3, <1>4, <2>1, <2>2 DEF Carries, TakesOut
<1> QED
  BY <1>1, <1>3, <1>5, <1>6 DEF TokenInv, SingleUse

LEMMA TokensLoaded ==
    ASSUME TypeInv, TokenInv, NEW p \in Procs,
           \/ ForgotPassword(p) \/ ResendVerification(p)
           \/ \E t \in 1..issued : VerifyEmail(p, t)
    PROVE  TokenInv'
<1>0. user \in Row
  BY DEF TypeInv, TypeOK
<1>1. ASSUME NEW t, NEW e, Load(p, t, e)
      PROVE  /\ op'[p].found = user /\ op'[p].entity = e
             /\ op'[p].token = t /\ op'[p].pc = "update"
             /\ \A q \in Procs \ {p} : op'[q] = op[q]
             /\ UNCHANGED <<user, spent, lost>>
  <2>1. op'[p] = [Idle EXCEPT !.pc = "update", !.token = t, !.found = user,
                              !.entity = e]
    BY <1>1, GotoOp DEF Load
  <2>2. \A q \in Procs \ {p} : op'[q] = op[q]
    BY <1>1, GotoOp DEF Load
  <2> QED
    BY <1>1, <2>1, <2>2 DEF Idle, Load, history
<1>2. CASE ForgotPassword(p)
  <2> DEFINE e == [user EXCEPT !.rtoken = Fresh]
  <2>1. e.vtoken = user.vtoken /\ e.rtoken = Fresh
    BY <1>0 DEF Row
  <2>2. Load(p, NoToken, e) /\ issued' = Fresh
    BY <1>2 DEF ForgotPassword
  <2> HIDE DEF e
  <2> QED
    BY <1>1, <2>1, <2>2, TokensRead
<1>3. CASE ResendVerification(p)
  <2> DEFINE e == [user EXCEPT !.vtoken = Fresh]
  <2>1. e.vtoken = Fresh /\ e.rtoken = user.rtoken
    BY <1>0 DEF Row
  <2>2. Load(p, NoToken, e) /\ issued' = Fresh
    BY <1>3 DEF ResendVerification
  <2> HIDE DEF e
  <2> QED
    BY <1>1, <2>1, <2>2, TokensRead
<1>4. ASSUME NEW t \in 1..issued, VerifyEmail(p, t) PROVE TokenInv'
  <2>1. EmailVerified(user).vtoken = NoToken
        /\ EmailVerified(user).rtoken = user.rtoken
    BY <1>0 DEF Row, EmailVerified
  <2>2. Load(p, t, EmailVerified(user)) /\ issued' = issued /\ t = user.vtoken
    BY <1>4 DEF VerifyEmail
  <2> QED
    BY <1>1, <2>1, <2>2, TokensRead
<1> QED
  BY <1>2, <1>3, <1>4

LEMMA TokensFound ==
    ASSUME TypeInv, TokenInv, NEW p \in Procs,
           \/ \E t \in 1..issued, n \in Passwords : ResetFind(p, t, n)
           \/ \E n \in Passwords : FirstFind(p, n)
    PROVE  TokenInv'
<1>0. user \in Row
  BY DEF TypeInv, TypeOK
<1>1. ASSUME NEW t \in 1..issued, NEW n \in Passwords, ResetFind(p, t, n)
      PROVE  TokenInv'
  <2> DEFINE e == [user EXCEPT !.rtoken = NoToken]
  <2>1. e.vtoken = user.vtoken /\ e.rtoken = NoToken
    BY <1>0 DEF Row
  <2>2. /\ Goto(p, [pc |-> "hash", token |-> t, found |-> user, word |-> n,
                    entity |-> e])
        /\ t = user.rtoken /\ UNCHANGED <<user, issued, spent, lost>>
    BY <1>1 DEF ResetFind, history
  <2> HIDE DEF e
  <2>3. /\ op'[p].found = user /\ op'[p].entity = e /\ op'[p].token = t
        /\ op'[p].pc = "hash" /\ \A q \in Procs \ {p} : op'[q] = op[q]
    BY <2>2, GotoOp
  <2> QED
    BY <2>1, <2>2, <2>3, TokensRead
<1>2. ASSUME NEW n \in Passwords, FirstFind(p, n) PROVE TokenInv'
  <2> DEFINE e == [user EXCEPT !.hash = n, !.must = FALSE]
  <2>1. e.vtoken = user.vtoken /\ e.rtoken = user.rtoken
    BY <1>0 DEF Row
  <2>2. /\ Goto(p, [pc |-> "first", token |-> NoToken, found |-> user,
                    word |-> n, entity |-> e])
        /\ UNCHANGED <<user, issued, spent, lost>>
    BY <1>2 DEF FirstFind, history
  <2> HIDE DEF e
  <2>3. /\ op'[p].found = user /\ op'[p].entity = e /\ op'[p].token = NoToken
        /\ op'[p].pc = "first" /\ \A q \in Procs \ {p} : op'[q] = op[q]
    BY <2>2, GotoOp
  <2> QED
    BY <2>1, <2>2, <2>3, TokensRead
<1> QED
  BY <1>1, <1>2

LEMMA TokensInserted ==
    ASSUME TypeInv, TokenInv, NEW p \in Procs,
           (\E w \in Passwords : Register(p, w)) \/ Provision(p)
    PROVE  TokenInv'
<1>1. ASSUME NEW w \in Passwords, Register(p, w) PROVE TokenInv'
  <2> DEFINE u == [NoRow EXCEPT !.status = "PENDING", !.hash = w, !.vtoken = Fresh]
  <2>1. u.vtoken = Fresh /\ u.rtoken = NoToken
    BY DEF NoRow
  <2>2. user' = u /\ issued' = Fresh /\ UNCHANGED <<op, spent, lost>>
    BY <1>1 DEF Register
  <2> HIDE DEF u
  <2> QED
    BY <2>1, <2>2, TokensCreated
<1>2. CASE Provision(p)
  <2> DEFINE u == [NoRow EXCEPT !.status = "ACTIVE", !.hash = TempPassword,
                                !.verified = TRUE, !.must = TRUE]
  <2>1. u.vtoken = NoToken /\ u.rtoken = NoToken
    BY DEF NoRow
  <2>2. user' = u /\ UNCHANGED <<issued, spent, lost>>
    BY <1>2 DEF Provision
  <2>3. op'[p].pc \notin Copying /\ \A q \in Procs \ {p} : op'[q] = op[q]
    BY <1>2, NothingCopied, Others DEF Begin
  <2> HIDE DEF u
  <2>4. /\ user'.vtoken = NoToken /\ user'.rtoken = NoToken
        /\ issued' = issued /\ UNCHANGED <<spent, lost>>
    BY <2>1, <2>2
  <2> QED
    BY <2>3, <2>4, TokensCreated
<1> QED
  BY <1>1, <1>2

LEMMA TokensUsed ==
    ASSUME TypeInv, TokenInv, NEW p \in Procs,
           Update(p) \/ ResetConsume(p) \/ FirstWrite(p)
    PROVE  TokenInv'
<1>0. op[p] \in Op /\ op[p].entity \in Row /\ user \in Row
  BY DEF TypeInv, TypeOK, Op
<1>1. op[p].pc \in Copying /\ Carries(p)
  BY DEF Update, ResetConsume, FirstWrite, Copying, TokenInv
<1>2. /\ user' = Written(op[p]) /\ lost' = lost \cup Restored(op[p])
      /\ issued' = issued
  BY DEF Update, ResetConsume, FirstWrite, UpdateRow
<1>3. /\ Written(op[p]).vtoken = op[p].entity.vtoken
      /\ Written(op[p]).rtoken = op[p].entity.rtoken
  BY <1>0 DEF Written, Row
<1>4. \A c \in {"vtoken", "rtoken"} :
         (user'[c] # user[c] /\ op[p].entity[c] = op[p].found[c]) => c \in lost'
  BY <1>2 DEF Restored, Watched, Columns
<1>5. spent' = spent \cup ({op[p].token} \ {NoToken})
  BY <1>1 DEF Update, ResetConsume, FirstWrite, Carries
<1>6. op'[p].pc \notin Copying /\ \A q \in Procs \ {p} : op'[q] = op[q]
  BY NothingCopied, Others DEF Step
<1> QED
  BY <1>1, <1>2, <1>3, <1>4, <1>5, <1>6, TokensWritten

(* The other steps do not know of tokens. *)
LEMMA TokensElse ==
    ASSUME TypeInv, TokenInv, NEW p \in Procs,
           \/ \E w \in Words : LoginFind(p, w)
           \/ \E w \in Words, n \in Passwords : ChangeFind(p, w, n)
           \/ ProvisionProfile(p) \/ Login(p) \/ ChangeWrite(p) \/ Sweep(p)
           \/ FirstConsent(p) \/ Fail(p)
    PROVE  TokenInv'
<1>0. user \in Row /\ op[p].word \in Words \cup {NoPassword}
  BY DEF TypeInv, TypeOK, Op
<1>1. op'[p].pc \notin Copying /\ \A q \in Procs \ {p} : op'[q] = op[q]
  BY NothingCopied, Others DEF Step, Begin
<1>2. UNCHANGED <<issued, spent, lost>>
  BY DEF LoginFind, ChangeFind, ProvisionProfile, Login, LoginRelease, LoginClear,
         LoginCount, LoginRead, LoginLock, ChangeWrite, Sweep, FirstConsent,
         Fail, history
<1>3. \/ user' = user
      \/ user' = Released(user)
      \/ user' = [user EXCEPT !.failed = 0, !.blocked = NoBlock]
      \/ user' = [user EXCEPT !.failed = @ + 1]
      \/ user' = [user EXCEPT !.blocked = blocks + 1]
      \/ user' = [user EXCEPT !.hash = op[p].word]
  BY DEF LoginFind, ChangeFind, ProvisionProfile, Login, LoginRelease, LoginClear,
         LoginCount, LoginRead, LoginLock, ChangeWrite, Sweep, FirstConsent, Fail
<1>4. user'.vtoken = user.vtoken /\ user'.rtoken = user.rtoken
  BY <1>0, <1>3 DEF Released, Row
<1> QED
  BY <1>1, <1>2, <1>4, TokensQuiet DEF Quiet

LEMMA TokensInit == Init => TokenInv
<1> SUFFICES ASSUME Init PROVE TokenInv
  OBVIOUS
<1>1. user = NoRow /\ issued = 0 /\ spent = {} /\ \A p \in Procs : op[p].pc = "idle"
  BY DEF Init, Idle
<1> QED
  BY <1>1 DEF TokenInv, SingleUse, IsVToken, IsRToken, Copying, NoRow, NoToken

LEMMA TokensStep == TypeInv /\ TokenInv /\ [Next]_vars => TokenInv'
<1> SUFFICES ASSUME TypeInv, TokenInv, [Next]_vars PROVE TokenInv'
  OBVIOUS
<1>1. ASSUME NEW p \in Procs, Begin(p) \/ Step(p) \/ Fail(p) PROVE TokenInv'
  BY <1>1, TokensPass, TokensLoaded, TokensFound, TokensInserted, TokensUsed,
     TokensElse
  DEF Begin, Step
<1>2. CASE UNCHANGED <<user, issued, op, spent, lost>>
  BY <1>2 DEF TokenInv, SingleUse, IsVToken, IsRToken, Carries, Unseen
<1> QED
  BY <1>1, <1>2 DEF Next, BlockEnds, vars, history

(* A token that a request has used up is in the row only if a late write of *)
(* the whole row brought it back, however many requests present it at once. *)
THEOREM TokensServeOnce == Spec => []SingleUse
<1>1. TokenInv => SingleUse
  BY DEF TokenInv
<1> QED
  BY InitType, NextType, TokensInit, TokensStep, <1>1, PTL DEF Spec

-----------------------------------------------------------------------------
(* The consent.  A profile that is given and not accepted belongs to a      *)
(* worker who still has to change the password, and so do the copies of the *)
(* row, as long as no first login has got to its second write.              *)

Excused == "consent" \in died \/ \E p \in Procs : op[p].pc = "consent"

\* The request will write the row, and not to end the first login.
Rewrites(o) == o.pc \in Copying \ {"first"}

StillMust == user.must /\ \A q \in Procs : Rewrites(op[q]) => op[q].entity.must

\* While the profile is being made nobody else can do anything.
Secluded(p) ==
    /\ user.must /\ user.hash = TempPassword /\ user.rtoken = NoToken
    /\ profile = "none" /\ ~mustToken
    /\ \A q \in Procs \ {p} : op[q].pc = "idle"

ConsentInv ==
    /\ ~Exists => /\ user = NoRow /\ profile = "none" /\ ~mustToken
                  /\ \A p \in Procs : op[p].pc = "idle"
    /\ \A p \in Procs : op[p].pc = "profile" => Secluded(p)
    /\ \A p \in Procs : op[p].pc \in Copying => op[p].entity.status # "ABSENT"
    /\ profile = "given" => Excused \/ StillMust

\* The account is there, and complete.
Open == Exists /\ \A q \in Procs : op[q].pc # "profile"

(* What a request has to respect when it takes a step on a complete account. *)
LEMMA ConsentMoves ==
    ASSUME ConsentInv, NEW p \in Procs, Open,
           user'.status # "ABSENT", op'[p].pc # "profile",
           op'[p].pc \in Copying => op'[p].entity.status # "ABSENT",
           \A q \in Procs \ {p} : op'[q] = op[q],
           profile' = "given" =>
              /\ profile = "given"
              /\ \/ "consent" \in died'
                 \/ op'[p].pc = "consent"
                 \/ /\ op[p].pc # "consent" /\ died' = died
                    /\ user.must /\ (Rewrites(op[p]) => op[p].entity.must) =>
                         user'.must /\ (Rewrites(op'[p]) => op'[p].entity.must)
    PROVE  ConsentInv'
<1>1. Open'
  BY DEF Open, Exists
<1>2. \A q \in Procs : op'[q].pc \in Copying => op'[q].entity.status # "ABSENT"
  BY DEF ConsentInv
<1>3. ASSUME profile' = "given" PROVE Excused' \/ StillMust'
  <2>1. Excused \/ StillMust
    BY <1>3 DEF ConsentInv
  <2>2. CASE "consent" \in died' \/ op'[p].pc = "consent"
    BY <2>2 DEF Excused
  <2>3. CASE /\ op[p].pc # "consent" /\ died' = died
             /\ user.must /\ (Rewrites(op[p]) => op[p].entity.must) =>
                  user'.must /\ (Rewrites(op'[p]) => op'[p].entity.must)
    <3>1. CASE Excused
      BY <2>3, <3>1 DEF Excused
    <3>2. CASE StillMust
      BY <2>3, <3>2 DEF StillMust, Rewrites
    <3> QED
      BY <2>1, <3>1, <3>2
  <2> QED
    BY <1>3, <2>2, <2>3
<1> QED
  BY <1>1, <1>2, <1>3 DEF ConsentInv, Open

(* A request that has begun finds a complete account, the one that          *)
(* completes it excepted; so does one that begins on an account.            *)
LEMMA BegunOpen ==
    ASSUME ConsentInv, NEW p \in Procs, op[p].pc \notin {"idle", "profile"}
    PROVE  Open
BY DEF ConsentInv, Open, Secluded

LEMMA BeginsOpen ==
    ASSUME ConsentInv, NEW p \in Procs, Begin(p), ~Provision(p),
           ~ \E w \in Passwords : Register(p, w)
    PROVE  Open /\ op[p].pc = "idle"
<1>1. CASE \/ ForgotPassword(p) \/ ResendVerification(p)
           \/ \E t \in 1..issued : VerifyEmail(p, t)
           \/ \E w \in Words : LoginFind(p, w)
  BY <1>1 DEF ForgotPassword, ResendVerification, VerifyEmail, Load, LoginFind,
     Known, Open
<1>2. CASE \E w \in Words, n \in Passwords : ChangeFind(p, w, n)
  BY <1>2 DEF ChangeFind, ConsentInv, Secluded, Open, Exists
<1>3. CASE \E t \in 1..issued, n \in Passwords : ResetFind(p, t, n)
  BY <1>3 DEF ResetFind, ConsentInv, Secluded, Open, Exists, NoRow, NoToken
<1>4. CASE \E n \in Passwords : FirstFind(p, n)
  BY <1>4 DEF FirstFind, ConsentInv, Secluded, Open, Exists
<1> QED
  BY <1>1, <1>2, <1>3, <1>4 DEF Begin

LEMMA ConsentBegins ==
    ASSUME TypeInv, ConsentInv, NEW p \in Procs, Begin(p), ~Provision(p),
           ~ \E w \in Passwords : Register(p, w)
    PROVE  ConsentInv'
<1>0. user \in Row /\ Open /\ op[p].pc = "idle" /\ user.status # "ABSENT"
  BY BeginsOpen DEF TypeInv, TypeOK, Open, Exists
<1>1. UNCHANGED <<user, profile, died>> /\ \A q \in Procs \ {p} : op'[q] = op[q]
  BY Others DEF Begin, FirstFind, LoginFind, ChangeFind, ResetFind, VerifyEmail,
     ForgotPassword, ResendVerification, Load, history
<1>2. ASSUME NEW e, op'[p].entity = e, e.status # "ABSENT", op'[p].pc \in Copying,
             e.must = user.must \/ op'[p].pc = "first"
      PROVE  ConsentInv'
  BY <1>0, <1>1, <1>2, ConsentMoves DEF Rewrites, Copying
<1>3. ASSUME NEW t, NEW e, Load(p, t, e), e.status # "ABSENT", e.must = user.must
      PROVE  ConsentInv'
  <2>1. op'[p] = [Idle EXCEPT !.pc = "update", !.token = t, !.found = user,
                              !.entity = e]
    BY <1>3, GotoOp DEF Load
  <2>2. op'[p].entity = e /\ op'[p].pc = "update"
    BY <2>1 DEF Idle
  <2> QED
    BY <1>2, <1>3, <2>2 DEF Copying
<1>4. CASE ForgotPassword(p)
  <2> DEFINE e == [user EXCEPT !.rtoken = Fresh]
  <2>1. e.status = user.status /\ e.must = user.must
    BY <1>0 DEF Row
  <2>2. Load(p, NoToken, e)
    BY <1>4 DEF ForgotPassword
  <2> HIDE DEF e
  <2> QED
    BY <1>0, <1>3, <2>1, <2>2
<1>5. CASE ResendVerification(p)
  <2> DEFINE e == [user EXCEPT !.vtoken = Fresh]
  <2>1. e.status = user.status /\ e.must = user.must
    BY <1>0 DEF Row
  <2>2. Load(p, NoToken, e)
    BY <1>5 DEF ResendVerification
  <2> HIDE DEF e
  <2> QED
    BY <1>0, <1>3, <2>1, <2>2
<1>6. ASSUME NEW t \in 1..issued, VerifyEmail(p, t) PROVE ConsentInv'
  <2>1. EmailVerified(user).status = "ACTIVE" /\ EmailVerified(user).must = user.must
    BY <1>0 DEF Row, EmailVerified
  <2> QED
    BY <1>3, <1>6, <2>1 DEF VerifyEmail
<1>7. ASSUME NEW t \in 1..issued, NEW n \in Passwords, ResetFind(p, t, n)
      PROVE  ConsentInv'
  <2> DEFINE e == [user EXCEPT !.rtoken = NoToken]
  <2>1. e.status = user.status /\ e.must = user.must
    BY <1>0 DEF Row
  <2>2. Goto(p, [pc |-> "hash", token |-> t, found |-> user, word |-> n, entity |-> e])
    BY <1>7 DEF ResetFind
  <2> HIDE DEF e
  <2>3. op'[p].pc = "hash" /\ op'[p].entity = e
    BY <2>2, GotoOp
  <2> QED
    BY <1>0, <1>2, <2>1, <2>3 DEF Copying
<1>8. ASSUME NEW n \in Passwords, FirstFind(p, n) PROVE ConsentInv'
  <2> DEFINE e == [user EXCEPT !.hash = n, !.must = FALSE]
  <2>1. e.status = user.status
    BY <1>0 DEF Row
  <2>2. Goto(p, [pc |-> "first", token |-> NoToken, found |-> user, word |-> n,
                 entity |-> e])
    BY <1>8 DEF FirstFind
  <2> HIDE DEF e
  <2>3. op'[p].pc = "first" /\ op'[p].entity = e
    BY <2>2, GotoOp
  <2> QED
    BY <1>0, <1>2, <2>1, <2>3 DEF Copying
<1>9. CASE \/ \E w \in Words : LoginFind(p, w)
           \/ \E w \in Words, n \in Passwords : ChangeFind(p, w, n)
  <2>1. op'[p].pc \notin Copying /\ op'[p].pc # "profile"
    BY <1>9, NothingCopied
  <2> QED
    BY <1>0, <1>1, <2>1, ConsentMoves DEF Rewrites
<1> QED
  BY <1>4, <1>5, <1>6, <1>7, <1>8, <1>9 DEF Begin

(* The steps that write columns by name, and those that write no row.       *)
LEMMA ConsentColumns ==
    ASSUME TypeInv, ConsentInv, NEW p \in Procs,
           Login(p) \/ ChangeWrite(p) \/ Sweep(p) \/ FirstConsent(p)
    PROVE  ConsentInv'
<1>0. user \in Row /\ op[p].word \in Words \cup {NoPassword}
  BY DEF TypeInv, TypeOK, Op
<1>1. op[p].pc \notin {"idle", "profile"}
  BY DEF Login, LoginRelease, LoginClear, LoginCount, LoginRead, LoginLock,
         ChangeWrite, Sweep, FirstConsent
<1>2. Open /\ user.status # "ABSENT"
  BY <1>1, BegunOpen DEF Open, Exists
<1>3. /\ op'[p].pc \notin Copying /\ op'[p].pc # "profile"
      /\ \A q \in Procs \ {p} : op'[q] = op[q]
  <2>1. ~Provision(p)
    BY <1>1 DEF Provision
  <2> QED
    BY <2>1, NothingCopied, Others DEF Step
<1>4. \/ user' = user
      \/ user' = Released(user)
      \/ user' = [user EXCEPT !.failed = 0, !.blocked = NoBlock]
      \/ user' = [user EXCEPT !.failed = @ + 1]
      \/ user' = [user EXCEPT !.blocked = blocks + 1]
      \/ user' = [user EXCEPT !.hash = op[p].word]
  BY DEF Login, LoginRelease, LoginClear, LoginCount, LoginRead, LoginLock,
         ChangeWrite, Sweep, FirstConsent
<1>5. user'.must = user.must /\ user'.status \in {user.status, "ACTIVE"}
  BY <1>0, <1>4 DEF Released, Row
<1>6. died' = died
  BY DEF Login, LoginRelease, LoginClear, LoginCount, LoginRead, LoginLock,
         ChangeWrite, Sweep, FirstConsent, history
<1>7. profile' = "given" => profile = "given" /\ op[p].pc # "consent"
  BY DEF Login, LoginRelease, LoginClear, LoginCount, LoginRead, LoginLock,
         ChangeWrite, Sweep, FirstConsent, Consented
<1> QED
  BY <1>2, <1>3, <1>5, <1>6, <1>7, ConsentMoves DEF Rewrites

LEMMA ConsentReset ==
    ASSUME TypeInv, ConsentInv, NEW p \in Procs, ResetWrite(p)
    PROVE  ConsentInv'
<1>0. user \in Row /\ op[p].word \in Words \cup {NoPassword}
  BY DEF TypeInv, TypeOK, Op
<1>1. /\ op[p].pc = "hash" /\ op'[p].pc = "consume"
      /\ op'[p].entity = op[p].entity
  BY ResetWriteKeeps DEF ResetWrite
<1>2. user'.must = user.must /\ user'.status = user.status
  BY <1>0 DEF ResetWrite, Row
<1>3. UNCHANGED <<profile, died>> /\ \A q \in Procs \ {p} : op'[q] = op[q]
  BY Others DEF ResetWrite, Step
<1>4. Open /\ user.status # "ABSENT" /\ op[p].entity.status # "ABSENT"
  BY <1>1, BegunOpen DEF Open, Exists, ConsentInv, Copying
<1> QED
  BY <1>1, <1>2, <1>3, <1>4, ConsentMoves DEF Rewrites, Copying

(* The steps that write the row as it was read and changed.                 *)
LEMMA ConsentRows ==
    ASSUME TypeInv, ConsentInv, NEW p \in Procs,
           Update(p) \/ ResetConsume(p) \/ FirstWrite(p)
    PROVE  ConsentInv'
<1>0. op[p].entity \in Row
  BY DEF TypeInv, TypeOK, Op
<1>1. op[p].pc \in Copying /\ (op[p].pc # "first" => Rewrites(op[p]))
  BY DEF Update, ResetConsume, FirstWrite, Copying, Rewrites
<1>2. Open /\ op[p].entity.status # "ABSENT"
  BY <1>1, BegunOpen DEF ConsentInv, Copying
<1>3. user'.must = op[p].entity.must /\ user'.status = op[p].entity.status
  <2>1. user' = Written(op[p])
    BY DEF Update, ResetConsume, FirstWrite, UpdateRow
  <2> QED
    BY <1>0, <2>1 DEF Written, Row
<1>4. /\ op'[p].pc \notin Copying /\ op'[p].pc # "profile"
      /\ \A q \in Procs \ {p} : op'[q] = op[q]
  <2>1. ~Provision(p)
    BY <1>1 DEF Provision, Copying
  <2> QED
    BY <2>1, NothingCopied, Others DEF Step
<1>5. UNCHANGED <<profile, died>>
  BY DEF Update, ResetConsume, FirstWrite
<1>6. op[p].pc = "first" => op'[p].pc = "consent"
  <2>1. [Idle EXCEPT !.pc = "consent"].pc = "consent"
    BY DEF Idle
  <2>2. op[p].pc = "first" => Goto(p, [Idle EXCEPT !.pc = "consent"])
    BY DEF Update, ResetConsume, FirstWrite
  <2> QED
    BY <2>1, <2>2, GotoOp
<1>7. op[p].pc # "consent"
  BY <1>1 DEF Copying
<1> QED
  BY <1>1, <1>2, <1>3, <1>4, <1>5, <1>6, <1>7, ConsentMoves DEF Rewrites

(* Creating the account.                                                    *)
LEMMA ConsentCreated ==
    ASSUME TypeInv, ConsentInv, NEW p \in Procs,
           \/ \E w \in Passwords : Register(p, w)
           \/ Provision(p) \/ ProvisionProfile(p)
    PROVE  ConsentInv'
<1>1. ASSUME NEW w \in Passwords, Register(p, w) PROVE ConsentInv'
  <2> DEFINE u == [NoRow EXCEPT !.status = "PENDING", !.hash = w, !.vtoken = Fresh]
  <2>1. u.status = "PENDING"
    BY DEF NoRow
  <2>2. /\ user' = u /\ ~Exists /\ op' = op /\ profile' = profile
    BY <1>1 DEF Register
  <2> HIDE DEF u
  <2>3. profile' = "none" /\ \A q \in Procs : op'[q].pc = "idle"
    BY <2>2 DEF ConsentInv
  <2> QED
    BY <2>1, <2>2, <2>3 DEF ConsentInv, Exists, Copying
<1>2. CASE Provision(p)
  <2> DEFINE u == [NoRow EXCEPT !.status = "ACTIVE", !.hash = TempPassword,
                                !.verified = TRUE, !.must = TRUE]
  <2>1. /\ u.status = "ACTIVE" /\ u.hash = TempPassword
        /\ u.must /\ u.rtoken = NoToken
    BY DEF NoRow
  <2>2. /\ user' = u /\ ~Exists /\ UNCHANGED <<profile, mustToken>>
    BY <1>2 DEF Provision
  <2>3. op'[p].pc = "profile" /\ \A q \in Procs \ {p} : op'[q] = op[q]
    <3>1. [Idle EXCEPT !.pc = "profile"].pc = "profile"
      BY DEF Idle
    <3> QED
      BY <1>2, <3>1, GotoOp DEF Provision
  <2> HIDE DEF u
  <2>4. /\ profile' = "none" /\ ~mustToken'
        /\ \A q \in Procs \ {p} : op'[q].pc = "idle"
    BY <2>2, <2>3 DEF ConsentInv
  <2>5. Secluded(p)'
    BY <2>1, <2>2, <2>4 DEF Secluded
  <2> QED
    BY <2>1, <2>2, <2>3, <2>4, <2>5 DEF ConsentInv, Exists, Copying
<1>3. CASE ProvisionProfile(p)
  <2>1. Secluded(p) /\ user' = user /\ op'[p].pc = "idle"
        /\ \A q \in Procs \ {p} : op'[q] = op[q]
    BY <1>3, EndOp DEF ProvisionProfile, ConsentInv
  <2>2. \A q \in Procs : op'[q].pc = "idle"
    BY <2>1 DEF Secluded
  <2>3. Exists
    BY <1>3 DEF ProvisionProfile, ConsentInv
  <2> QED
    BY <2>1, <2>2, <2>3
    DEF ConsentInv, Secluded, Exists, StillMust, Rewrites, Copying
<1> QED
  BY <1>1, <1>2, <1>3

LEMMA ConsentFails ==
    ASSUME TypeInv, ConsentInv, NEW p \in Procs, Fail(p)
    PROVE  ConsentInv'
<1>1. /\ op[p].pc # "idle" /\ op'[p].pc = "idle"
      /\ \A q \in Procs \ {p} : op'[q] = op[q]
      /\ UNCHANGED <<user, profile, mustToken>>
      /\ died' = died \cup HalfDone(op[p])
  BY EndOp DEF Fail
<1>2. CASE op[p].pc = "profile"
  <2>1. Secluded(p) /\ Exists
    BY <1>1, <1>2 DEF ConsentInv
  <2>2. \A q \in Procs : op'[q].pc = "idle"
    BY <1>1, <2>1 DEF Secluded
  <2> QED
    BY <1>1, <2>1, <2>2 DEF ConsentInv, Secluded, Exists, Copying
<1>3. CASE op[p].pc # "profile"
  <2>1. Open /\ user.status # "ABSENT"
    BY <1>1, <1>3, BegunOpen DEF Open, Exists
  <2>2. op[p].pc = "consent" => "consent" \in died'
    BY <1>1 DEF HalfDone
  <2>3. ~Rewrites(op'[p]) /\ op'[p].pc \notin Copying
    BY <1>1 DEF Rewrites, Copying
  <2>4. ASSUME op[p].pc # "consent", "consent" \notin died'
        PROVE  ConsentInv'
    <3>1. Excused' <=> Excused
      BY <1>1, <2>4 DEF Excused, HalfDone
    <3>2. StillMust => StillMust'
      BY <1>1, <2>3 DEF StillMust, Rewrites
    <3> QED
      BY <1>1, <2>1, <2>3, <3>1, <3>2 DEF ConsentInv, Open, Exists
  <2> QED
    BY <1>1, <2>1, <2>2, <2>3, <2>4, ConsentMoves
<1> QED
  BY <1>2, <1>3

LEMMA ConsentInit == Init => ConsentInv
BY DEF Init, ConsentInv, Exists, NoRow, Idle, Copying

LEMMA ConsentStep == TypeInv /\ ConsentInv /\ [Next]_vars => ConsentInv'
<1> SUFFICES ASSUME TypeInv, ConsentInv, [Next]_vars PROVE ConsentInv'
  OBVIOUS
<1>1. ASSUME NEW p \in Procs, Begin(p) PROVE ConsentInv'
  BY <1>1, ConsentCreated, ConsentBegins
<1>2. ASSUME NEW p \in Procs, Step(p) PROVE ConsentInv'
  BY <1>2, ConsentCreated, ConsentColumns, ConsentReset, ConsentRows DEF Step
<1>3. CASE UNCHANGED <<user, profile, mustToken, op, died>>
  BY <1>3 DEF ConsentInv, Exists, Secluded, Excused, StillMust
<1> QED
  BY <1>1, <1>2, <1>3, ConsentFails DEF Next, BlockEnds, vars, history

(* A worker who has replaced the temporary password has accepted, unless a  *)
(* request between the two writes is under way or has died: no other        *)
(* request, however late it writes, takes the obligation out of the row.    *)
THEOREM ConsentFollows == Spec => []ConsentGoesWithPassword
<1>1. ConsentInv => ConsentGoesWithPassword
  BY DEF ConsentInv, ConsentGoesWithPassword, Excused, StillMust
<1> QED
  BY InitType, NextType, ConsentInit, ConsentStep, <1>1, PTL DEF Spec

=============================================================================

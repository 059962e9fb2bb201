------------------------ MODULE SessionTokensProofs ------------------------
(***************************************************************************)
(* Theorems about SessionTokens, for any number of users, devices,         *)
(* requests, sessions, tokens and failures.                                *)
(***************************************************************************)
EXTENDS SessionTokens, FiniteSetTheorems, WellFoundedInduction,
        NaturalsInduction, TLAPS

USE NullsAreNotIds, BoundsAreNat

-----------------------------------------------------------------------------
(* Type correctness.  TypeOK alone is not inductive: that a request finds  *)
(* the row of the token it works on depends on what it holds when.         *)

\* The ids a request needs at "pc" are ids.
HoldsIds(o) ==
    /\ o.pc \in RefreshPC \cup {"close", "commit"} => o.sess \in Sessions
    /\ o.pc \in RefreshPC => o.tok \in Tokens

\* A token that was issued has a session.
HasOrigin(r) == r.state # "unused" => r.session \in Sessions

TypeInv ==
    /\ TypeOK
    /\ \A p \in Procs : HoldsIds(op[p])
    /\ \A t \in Tokens : HasOrigin(token[t])

\* What the rows of a step leave of TypeInv to show.
OpTyped    == op \in [Procs -> Op] /\ \A p \in Procs : HoldsIds(op[p])
TokenTyped == /\ token \in [Tokens -> TokenRow]
              /\ \A t \in Tokens : HasOrigin(token[t])

(* The record of a request that does nothing is well typed. *)
LEMMA IdleType == Idle \in Op /\ HoldsIds(Idle)
BY DEF Idle, Op, Parts, HoldsIds, RefreshPC

(* Revoking tokens keeps the table well typed. *)
LEMMA RevokeType ==
    ASSUME TypeInv, NEW S, Revoke(S)
    PROVE  TokenTyped'
BY DEF TypeInv, TypeOK, TokenTyped, Revoke, TokenRow, TokenState, HasOrigin

(* A request moves on to a well-typed state. *)
LEMMA GotoType ==
    ASSUME TypeInv, NEW p \in Procs, NEW new \in Op, HoldsIds(new), Goto(p, new)
    PROVE  OpTyped'
BY DEF TypeInv, TypeOK, Goto, OpTyped

\* What is left of a request when one of its parallel calls is rejected: at
\* first the other calls go on, at the end the other ids are still removed.
Lessened(o, new) ==
    \/ new = Idle
    \/ /\ new.pc = o.pc /\ new.sess = o.sess /\ new.tok = o.tok
       /\ new.victim = o.victim /\ new.late = o.late
       /\ \/ /\ new.failed /\ new.ids = o.ids
             /\ new.todo # {} /\ new.todo \subseteq o.todo
          \/ /\ new.failed = o.failed /\ new.todo = {} /\ o.todo = {}
             /\ new.ids # {} /\ new.ids \subseteq o.ids

\* The ids such a request no longer removes are given up.
HandedOver(o, new) ==
    /\ abandoned \subseteq abandoned'
    /\ \A s \in Closing(o) : s \in abandoned' \cup Closing(new)
    /\ new.failed => o.failed \/ new.ids \subseteq abandoned'
    /\ o.pc = "close" /\ "cache" \in o.todo /\ new.pc = "close"
          => "cache" \in new.todo \/ o.sess \in abandoned'

(* A rejected call writes nothing and only takes from what is left to do. *)
LEMMA RejectLessens ==
    ASSUME TypeInv, NEW p \in Procs, Rejection(p)
    PROVE  /\ op[p].pc \in {"close", "sweep"}
           /\ UNCHANGED <<row, owner, token, cache, closed, evicted>>
           /\ failures' \in Nat /\ abandoned' \subseteq Sessions
           /\ \E new \in Op : /\ Goto(p, new) /\ Lessened(op[p], new)
                              /\ HandedOver(op[p], new)
<1> DEFINE o == op[p]
<1>1. o \in Op /\ HoldsIds(o)
  BY DEF TypeInv, TypeOK
<1>2. Idle \in Op /\ Idle.pc = "idle" /\ Idle.failed = FALSE
  BY DEF Idle, Op, Parts
<1>3. ASSUME NEW part \in Parts, Reject(p, part)
      PROVE  /\ o.pc \in {"close", "sweep"}
             /\ UNCHANGED <<row, owner, token, cache, closed, evicted>>
             /\ failures' \in Nat /\ abandoned' \subseteq Sessions
             /\ \E new \in Op : /\ Goto(p, new) /\ Lessened(o, new)
                                /\ HandedOver(o, new)
  <2>1. /\ o.pc \in {"close", "sweep"} /\ part \in o.todo
        /\ UNCHANGED <<row, owner, token, cache, closed, evicted>>
        /\ failures' = failures + 1
    BY <1>3 DEF Reject, db
  <2>2. PICK lost \in Lost(part) :
          /\ Goto(p, IF o.todo \subseteq lost THEN Idle
                     ELSE [o EXCEPT !.todo = o.todo \ lost, !.failed = TRUE])
          /\ abandoned' = abandoned \cup o.ids
                            \cup (IF "cache" \in lost THEN Closing(o) ELSE {})
    BY <1>3 DEF Reject
  <2>3. lost \subseteq {part}
    BY <2>2 DEF Lost
  <2>4. Closing(o) \subseteq Sessions
    BY <1>1 DEF Closing, HoldsIds, Op
  <2>5. abandoned' \subseteq Sessions
    BY <1>1, <2>2, <2>4 DEF Op, TypeInv, TypeOK
  <2>6. failures' \in Nat
    BY <2>1 DEF TypeInv, TypeOK
  <2>7. CASE o.todo \subseteq lost
    <3>1. Goto(p, Idle)
      BY <2>2, <2>7
    <3>2. Closing(o) \subseteq abandoned'
      BY <2>1, <2>2, <2>7 DEF Closing
    <3>3. HandedOver(o, Idle)
      BY <1>2, <2>2, <3>2 DEF HandedOver
    <3> QED
      BY <1>2, <2>1, <2>5, <2>6, <3>1, <3>3 DEF Lessened
  <2>8. CASE ~(o.todo \subseteq lost)
    <3> DEFINE half == [o EXCEPT !.todo = o.todo \ lost]
               new  == [half EXCEPT !.failed = TRUE]
    <3>1. Goto(p, new)
      BY <2>2, <2>8
    <3>2. half \in Op
      BY <1>1 DEF Op
    <3>3. /\ new \in Op /\ new.failed
          /\ new.pc = o.pc /\ new.sess = o.sess /\ new.tok = o.tok
          /\ new.victim = o.victim /\ new.late = o.late
          /\ new.ids = o.ids /\ new.todo = o.todo \ lost
      BY <1>1, <3>2, Zenon DEF Op
    <3> HIDE DEF new
    <3>4. Lessened(o, new)
      BY <2>8, <3>3 DEF Lessened
    <3>5. \A s \in Closing(o) : s \in abandoned' \cup Closing(new)
      BY <2>1, <2>2, <3>3 DEF Closing
    <3>6. "cache" \in o.todo => "cache" \in new.todo \/ Closing(o) \subseteq abandoned'
      BY <2>2, <3>3
    <3>7. o.pc = "close" /\ "cache" \in o.todo => Closing(o) = {o.sess}
      BY DEF Closing
    <3>8. HandedOver(o, new)
      BY <2>2, <3>3, <3>5, <3>6, <3>7 DEF HandedOver
    <3> QED
      BY <2>1, <2>5, <2>6, <3>1, <3>3, <3>4, <3>8
  <2> QED
    BY <2>7, <2>8
<1>4. ASSUME NEW x \in Sessions, RejectPurge(p, x)
      PROVE  /\ o.pc \in {"close", "sweep"}
             /\ UNCHANGED <<row, owner, token, cache, closed, evicted>>
             /\ failures' \in Nat /\ abandoned' \subseteq Sessions
             /\ \E new \in Op : /\ Goto(p, new) /\ Lessened(o, new)
                                /\ HandedOver(o, new)
  <2> DEFINE left == [o EXCEPT !.ids = o.ids \ {x}]
  <2>1. /\ o.pc = "sweep" /\ o.todo = {} /\ x \in o.ids
        /\ UNCHANGED <<row, owner, token, cache, closed, evicted>>
        /\ failures' = failures + 1 /\ abandoned' = abandoned \cup {x}
        /\ SweepGoto(p, left)
    BY <1>4 DEF RejectPurge, db
  <2>2. failures' \in Nat /\ abandoned' \subseteq Sessions
    BY <2>1 DEF TypeInv, TypeOK
  <2>3. /\ left \in Op /\ left.failed = o.failed
        /\ left.pc = o.pc /\ left.sess = o.sess /\ left.tok = o.tok
        /\ left.victim = o.victim /\ left.late = o.late
        /\ left.ids = o.ids \ {x} /\ left.todo = o.todo
    BY <1>1 DEF Op
  <2> HIDE DEF left
  <2>4. CASE left.failed \/ left.ids = {}
    <3>1. Goto(p, Idle)
      BY <2>1, <2>3, <2>4 DEF SweepGoto
    <3>2. Closing(o) \subseteq abandoned'
      BY <2>1, <2>3, <2>4 DEF Closing
    <3>3. HandedOver(o, Idle)
      BY <1>2, <2>1, <3>2 DEF HandedOver
    <3> QED
      BY <1>2, <2>1, <2>2, <3>1, <3>3 DEF Lessened
  <2>5. CASE ~(left.failed \/ left.ids = {})
    <3>1. Goto(p, left)
      BY <2>1, <2>3, <2>5 DEF SweepGoto
    <3>2. Lessened(o, left)
      BY <2>1, <2>3, <2>5 DEF Lessened
    <3>3. \A s \in Closing(o) : s \in abandoned' \cup Closing(left)
      BY <2>1, <2>3, <2>5 DEF Closing
    <3>4. HandedOver(o, left)
      BY <2>1, <2>3, <2>5, <3>3 DEF HandedOver
    <3> QED
      BY <2>1, <2>2, <2>3, <3>1, <3>2, <3>4
  <2> QED
    BY <2>4, <2>5
<1> QED
  BY <1>3, <1>4 DEF Rejection

(* Inserting a token row keeps the table well typed. *)
LEMMA InsertType ==
    ASSUME TypeInv, NEW t \in Tokens, NEW r \in TokenRow, HasOrigin(r),
           token' = [token EXCEPT ![t] = r]
    PROVE  TokenTyped'
BY DEF TypeInv, TypeOK, TokenTyped

LEMMA LoginType ==
    ASSUME TypeInv, NEW p \in Procs,
           Login(p) \/ \E u \in Users, d \in Devices : LoginCount(p, u, d)
    PROVE  TypeInv'
<1> USE IdleType
<1>0. op[p] \in Op /\ HoldsIds(op[p])
  BY DEF TypeInv, TypeOK
<1>1. ASSUME NEW u \in Users, NEW d \in Devices, LoginCount(p, u, d)
      PROVE  TypeInv'
  <2> DEFINE new == [Idle EXCEPT !.user = u, !.device = d,
                            !.pc = IF Full(u) THEN "pick" ELSE "store"]
  <2>1. new \in Op
    BY DEF Idle, Op, LoginPC, Parts
  <2>2. new.pc \in {"pick", "store"}
    BY DEF Idle
  <2>3. HoldsIds(new)
    BY <2>2 DEF HoldsIds, RefreshPC
  <2>4. OpTyped'
    BY <1>1, <2>1, <2>3, GotoType DEF LoginCount
  <2> QED
    BY <1>1, <2>4 DEF LoginCount, OpTyped, TypeInv, TypeOK, db, history
<1>2. CASE LoginPick(p)
  <2>1. /\ [op[p] EXCEPT !.pc = "store"] \in Op
        /\ HoldsIds([op[p] EXCEPT !.pc = "store"])
    BY <1>0 DEF Op, LoginPC, HoldsIds, RefreshPC
  <2>2. ASSUME NEW v \in Sessions
        PROVE  /\ [op[p] EXCEPT !.pc = "store", !.victim = v] \in Op
               /\ HoldsIds([op[p] EXCEPT !.pc = "store", !.victim = v])
    <3> DEFINE new == [op[p] EXCEPT !.pc = "store", !.victim = v]
    <3>1. new \in Op
      BY <1>0 DEF Op, LoginPC
    <3>2. new.pc = "store"
      BY <1>0 DEF Op
    <3>3. HoldsIds(new)
      BY <3>2 DEF HoldsIds, RefreshPC
    <3> QED
      BY <3>1, <3>3
  <2>3. OpTyped'
    BY <1>2, <2>1, <2>2, GotoType DEF LoginPick, Active
  <2> QED
    BY <1>2, <2>3 DEF LoginPick, OpTyped, TypeInv, TypeOK, db, history
<1>3. CASE LoginStore(p)
  <2>1. CASE op[p].victim # NoSession /\ row[op[p].victim] = "deleted"
    <3>1. OpTyped'
      BY <1>3, <2>1, GotoType DEF LoginStore
    <3> QED
      BY <1>3, <2>1, <3>1 DEF LoginStore, OpTyped, TypeInv, TypeOK, db, history
  <2>2. CASE ~(op[p].victim # NoSession /\ row[op[p].victim] = "deleted")
    <3>1. PICK s \in Sessions :
            /\ row'     = [row EXCEPT ![s] = "pending"]
            /\ owner'   = [owner EXCEPT ![s] = op[p].user]
            /\ cache'   = cache \cup {s}
            /\ Goto(p, [op[p] EXCEPT !.pc = "commit", !.sess = s])
            /\ UNCHANGED token
      BY <1>3, <2>2 DEF LoginStore
    <3> DEFINE new == [op[p] EXCEPT !.pc = "commit", !.sess = s]
    <3>2. new \in Op
      BY <1>0 DEF Op, LoginPC
    <3>5. new.pc = "commit" /\ new.sess = s
      BY <1>0 DEF Op
    <3>6. HoldsIds(new)
      BY <3>5 DEF HoldsIds, RefreshPC
    <3>3. OpTyped'
      BY <3>1, <3>2, <3>6, GotoType
    <3>4. op[p].user \in Users \cup {NoUser}
      BY <1>0 DEF Op
    <3> QED
      BY <1>3, <3>1, <3>3, <3>4
      DEF LoginStore, OpTyped, TypeInv, TypeOK, history, RowState
  <2> QED
    BY <2>1, <2>2
<1>4. CASE LoginCommit(p)
  <2>1. OpTyped'
    BY <1>4, GotoType DEF LoginCommit
  <2>2. PICK t \in Tokens :
           token' = [token EXCEPT ![t] = FirstToken(t, op[p].sess)]
    BY <1>4 DEF LoginCommit
  <2>3. /\ FirstToken(t, op[p].sess) \in TokenRow
        /\ HasOrigin(FirstToken(t, op[p].sess))
    BY <1>0, <1>4
    DEF FirstToken, TokenRow, TokenState, HasOrigin, HoldsIds, LoginCommit
  <2>4. TokenTyped'
    BY <2>2, <2>3, InsertType
  <2>5. EvictedBy(op[p]) \subseteq Sessions
    BY <1>0 DEF EvictedBy, Op
  <2> QED
    BY <1>4, <2>1, <2>4, <2>5
    DEF LoginCommit, OpTyped, TokenTyped, TypeInv, TypeOK, RowState
<1> QED
  BY <1>1, <1>2, <1>3, <1>4 DEF Login

LEMMA RefreshType ==
    ASSUME TypeInv, NEW p \in Procs,
           Refresh(p) \/ \E t \in Tokens : RefreshFind(p, t)
    PROVE  TypeInv'
<1> USE IdleType
<1>0. op[p] \in Op /\ HoldsIds(op[p])
  BY DEF TypeInv, TypeOK
<1>1. ASSUME NEW t \in Tokens, RefreshFind(p, t)
      PROVE  TypeInv'
  <2> DEFINE s   == token[t].session
             chk == [Idle EXCEPT !.pc = "check", !.tok = t, !.sess = s,
                                 !.late = s \in closed]
             cls == [Idle EXCEPT !.pc = "close", !.tok = t, !.sess = s,
                                 !.todo = {"tokens", "cache"}]
  <2>0. s \in Sessions
    BY <1>1 DEF TypeInv, HasOrigin, RefreshFind
  <2>1. (s \in closed) \in BOOLEAN
    OBVIOUS
  <2>2. chk \in Op /\ HoldsIds(chk)
    BY <2>0, <2>1 DEF Idle, Op, RefreshPC, Parts, HoldsIds
  <2>3. cls \in Op /\ HoldsIds(cls)
    BY <2>0 DEF Idle, Op, Parts, RefreshPC, HoldsIds
  <2>4. OpTyped'
    BY <1>1, <2>2, <2>3, GotoType DEF RefreshFind
  <2> QED
    BY <1>1, <2>4 DEF RefreshFind, OpTyped, TypeInv, TypeOK, db, history
<1>2. CASE RefreshCheck(p)
  <2>1. /\ [op[p] EXCEPT !.pc = "revoke"] \in Op
        /\ HoldsIds([op[p] EXCEPT !.pc = "revoke"])
    BY <1>0, <1>2 DEF Op, RefreshPC, HoldsIds, RefreshCheck
  <2>2. OpTyped'
    BY <1>2, <2>1, GotoType DEF RefreshCheck
  <2> QED
    BY <1>2, <2>2 DEF RefreshCheck, OpTyped, TypeInv, TypeOK, db, history
<1>3. CASE RefreshRevoke(p)
  <2>1. /\ [op[p] EXCEPT !.pc = "create"] \in Op
        /\ HoldsIds([op[p] EXCEPT !.pc = "create"])
    BY <1>0, <1>3 DEF Op, RefreshPC, HoldsIds, RefreshRevoke
  <2>2. OpTyped'
    BY <1>3, <2>1, GotoType DEF RefreshRevoke
  <2>3. TokenTyped'
    BY <1>3, RevokeType DEF RefreshRevoke
  <2> QED
    BY <1>3, <2>2, <2>3
    DEF RefreshRevoke, OpTyped, TokenTyped, TypeInv, TypeOK, history
<1>4. CASE RefreshCreate(p)
  <2> DEFINE t    == op[p].tok
             succ == [state  |-> "live", session |-> op[p].sess,
                      family |-> token[t].family, parent |-> t]
  <2>1. OpTyped'
    BY <1>4, GotoType DEF RefreshCreate
  <2>2. t \in Tokens /\ op[p].sess \in Sessions
    BY <1>0, <1>4 DEF RefreshCreate, HoldsIds, RefreshPC
  <2>3. token' = token \/ \E n \in Tokens : token' = [token EXCEPT ![n] = succ]
    BY <1>4 DEF RefreshCreate
  <2>4. succ \in TokenRow
    BY <2>2 DEF TypeInv, TypeOK, TokenRow, TokenState
  <2>5. HasOrigin(succ)
    BY <2>2 DEF HasOrigin
  <2>6. TokenTyped'
    BY <2>3, <2>4, <2>5, InsertType DEF TokenTyped, TypeInv, TypeOK
  <2> QED
    BY <1>4, <2>1, <2>6
    DEF RefreshCreate, OpTyped, TokenTyped, TypeInv, TypeOK, history
<1> QED
  BY <1>1, <1>2, <1>3, <1>4 DEF Refresh

LEMMA CloseOneType ==
    ASSUME TypeInv, NEW p \in Procs,
           \/ CloseOne(p)
           \/ \E s \in Sessions : LogoutBegin(p, s)
           \/ \E c, s \in Sessions : RevokeSessionBegin(p, c, s)
    PROVE  TypeInv'
<1> USE IdleType
<1>0. op[p] \in Op /\ HoldsIds(op[p])
  BY DEF TypeInv, TypeOK
<1>1. ASSUME NEW s \in Sessions PROVE Close(s) \in Op /\ HoldsIds(Close(s))
  <2>1. Close(s) \in Op
    BY DEF Close, Idle, Op, Parts
  <2>2. Close(s).pc = "close" /\ Close(s).sess = s
    BY DEF Close, Idle
  <2>3. HoldsIds(Close(s))
    BY <2>2 DEF HoldsIds, RefreshPC
  <2> QED
    BY <2>1, <2>3
<1>2. ASSUME NEW s \in Sessions, LogoutBegin(p, s) PROVE TypeInv'
  <2>1. OpTyped'
    BY <1>1, <1>2, GotoType DEF LogoutBegin
  <2> QED
    BY <1>2, <2>1 DEF LogoutBegin, OpTyped, TypeInv, TypeOK, db, history
<1>3. ASSUME NEW c \in Sessions, NEW s \in Sessions, RevokeSessionBegin(p, c, s)
      PROVE  TypeInv'
  <2>1. OpTyped'
    BY <1>1, <1>3, GotoType DEF RevokeSessionBegin
  <2> QED
    BY <1>3, <2>1 DEF RevokeSessionBegin, OpTyped, TypeInv, TypeOK, db, history
<1>4. ASSUME NEW part \in Parts, Returned(p, part)
      PROVE  OpTyped' /\ closed' \subseteq Sessions
  <2> DEFINE new == [op[p] EXCEPT !.todo = @ \ {part}]
  <2>1. new \in Op
    BY <1>0 DEF Op
  <2>2. new.pc = "close" /\ op[p].sess \in Sessions /\ new.sess = op[p].sess
    BY <1>0, <1>4 DEF Op, HoldsIds, Returned
  <2>3. HoldsIds(new)
    BY <2>2 DEF HoldsIds, RefreshPC
  <2>4. OpTyped'
    BY <1>4, <2>1, <2>3, GotoType DEF Returned
  <2>5. closed' \subseteq Sessions
    BY <1>4, <2>2 DEF Returned, TypeInv, TypeOK
  <2> QED
    BY <2>4, <2>5
<1>5. CASE CloseRow(p)
  <2>1. Returned(p, "row")
    BY <1>5 DEF CloseRow
  <2>2. OpTyped' /\ closed' \subseteq Sessions
    BY <1>4, <2>1 DEF Parts
  <2>3. row' \in [Sessions -> RowState]
    BY <1>5 DEF CloseRow, TypeInv, TypeOK, RowState
  <2> QED
    BY <1>5, <2>1, <2>2, <2>3
    DEF CloseRow, Returned, OpTyped, TypeInv, TypeOK
<1>6. CASE CloseTokens(p)
  <2>1. Returned(p, "tokens")
    BY <1>6 DEF CloseTokens
  <2>2. OpTyped' /\ closed' \subseteq Sessions
    BY <1>4, <2>1 DEF Parts
  <2>3. TokenTyped'
    BY <1>6, RevokeType DEF CloseTokens
  <2> QED
    BY <1>6, <2>1, <2>2, <2>3
    DEF CloseTokens, Returned, OpTyped, TokenTyped, TypeInv, TypeOK
<1>7. CASE CloseCache(p)
  <2>1. Returned(p, "cache")
    BY <1>7 DEF CloseCache
  <2>2. OpTyped' /\ closed' \subseteq Sessions
    BY <1>4, <2>1 DEF Parts
  <2> QED
    BY <1>7, <2>1, <2>2 DEF CloseCache, Returned, OpTyped, TypeInv, TypeOK
<1> QED
  BY <1>2, <1>3, <1>5, <1>6, <1>7 DEF CloseOne

LEMMA CloseAllType ==
    ASSUME TypeInv, NEW p \in Procs,
           CloseAll(p) \/ \E u \in Users : SweepBegin(p, u)
    PROVE  TypeInv'
<1> USE IdleType
<1>0. op[p] \in Op /\ HoldsIds(op[p])
  BY DEF TypeInv, TypeOK
<1>1. ASSUME NEW u \in Users, SweepBegin(p, u) PROVE TypeInv'
  <2> DEFINE new == [Idle EXCEPT !.pc = "sweep", !.user = u,
                                 !.todo = {"list", "tokens"}]
  <2>1. new \in Op
    BY DEF Idle, Op, Parts
  <2>2. HoldsIds(new)
    BY DEF Idle, HoldsIds, RefreshPC
  <2>3. OpTyped'
    BY <1>1, <2>1, <2>2, GotoType DEF SweepBegin
  <2> QED
    BY <1>1, <2>3 DEF SweepBegin, OpTyped, TypeInv, TypeOK, db, history
<1>2. ASSUME NEW new \in Op, new.pc = "sweep", SweepGoto(p, new)
      PROVE  OpTyped'
  <2>1. HoldsIds(new)
    BY <1>2 DEF HoldsIds, RefreshPC
  <2> QED
    BY <1>2, <2>1, GotoType DEF SweepGoto
<1>3. CASE SweepList(p)
  <2> DEFINE ids == Active(op[p].user)
             new == [op[p] EXCEPT !.ids  = ids,
                       !.todo = (@ \ {"list"})
                                \cup (IF ids = {} THEN {} ELSE {"mark"})]
  <2>1. ids \subseteq Sessions
    BY DEF Active
  <2> DEFINE todo == (op[p].todo \ {"list"})
                        \cup (IF ids = {} THEN {} ELSE {"mark"})
  <2>2. todo \subseteq Parts
    BY <1>0 DEF Op, Parts
  <2> HIDE DEF ids, todo
  <2> DEFINE listed == [op[p] EXCEPT !.ids = ids]
             moved  == [listed EXCEPT !.todo = todo]
  <2>3. listed \in Op
    BY <1>0, <2>1 DEF Op
  <2>4. moved \in Op
    <3> HIDE DEF listed
    <3> QED BY <2>2, <2>3 DEF Op
  <2>5. new = moved
    BY Zenon DEF todo
  <2>6. op[p].pc = "sweep"
    BY <1>3 DEF SweepList
  <2>7. new \in Op
    BY <2>4, <2>5
  <2>8. new.pc = "sweep"
    BY <1>0, <2>6 DEF Op
  <2>9. OpTyped'
    BY <1>2, <1>3, <2>7, <2>8 DEF SweepList, ids
  <2>10. abandoned' \subseteq Sessions
    BY <1>3, <2>1 DEF SweepList, ids, TypeInv, TypeOK
  <2> QED
    BY <1>3, <2>9, <2>10 DEF SweepList, OpTyped, TypeInv, TypeOK, db
<1>4. CASE SweepMark(p)
  <2> DEFINE new == [op[p] EXCEPT !.todo = @ \ {"mark"}]
  <2>1. new \in Op /\ new.pc = "sweep"
    BY <1>0, <1>4 DEF Op, SweepMark
  <2>2. OpTyped'
    BY <1>2, <1>4, <2>1 DEF SweepMark
  <2>3. row' \in [Sessions -> RowState]
    BY <1>4 DEF SweepMark, TypeInv, TypeOK, RowState
  <2> QED
    BY <1>4, <2>2, <2>3 DEF SweepMark, OpTyped, TypeInv, TypeOK, history
<1>5. CASE SweepTokens(p)
  <2> DEFINE new == [op[p] EXCEPT !.todo = @ \ {"tokens"}]
  <2>1. new \in Op /\ new.pc = "sweep"
    BY <1>0, <1>5 DEF Op, SweepTokens
  <2>2. OpTyped'
    BY <1>2, <1>5, <2>1 DEF SweepTokens
  <2>3. TokenTyped'
    BY <1>5, RevokeType DEF SweepTokens
  <2> QED
    BY <1>5, <2>2, <2>3
    DEF SweepTokens, OpTyped, TokenTyped, TypeInv, TypeOK, history
<1>6. ASSUME NEW s \in Sessions, SweepPurge(p, s) PROVE TypeInv'
  <2> DEFINE new == [op[p] EXCEPT !.ids = @ \ {s}]
  <2>1. new \in Op /\ new.pc = "sweep"
    BY <1>0, <1>6 DEF Op, SweepPurge
  <2>2. OpTyped'
    BY <1>2, <1>6, <2>1 DEF SweepPurge
  <2> QED
    BY <1>6, <2>2 DEF SweepPurge, OpTyped, TypeInv, TypeOK, db
<1> QED
  BY <1>1, <1>3, <1>4, <1>5, <1>6 DEF CloseAll

LEMMA EnvironmentType == ASSUME TypeInv, Environment PROVE TypeInv'
<1>1. ASSUME NEW s \in Sessions, CacheExpire(s) PROVE TypeInv'
  BY <1>1 DEF CacheExpire, TypeInv, TypeOK, db, history
<1>2. ASSUME NEW t \in Tokens, CleanExpiredRefreshTokens(t) PROVE TypeInv'
  <2>1. TokenTyped'
    BY <1>2 DEF CleanExpiredRefreshTokens, TokenTyped, TypeInv, TypeOK,
                TokenRow, TokenState, HasOrigin
  <2> QED
    BY <1>2, <2>1
    DEF CleanExpiredRefreshTokens, TokenTyped, TypeInv, TypeOK, history
<1>4. CASE CleanOldSessions
  <2> DEFINE old == {s \in Sessions : row[s] = "revoked"}
  <2>1. \A t \in Tokens : token[t].session \in old => token[t].session \in Sessions
    OBVIOUS
  <2>2. TokenTyped'
    BY <1>4, <2>1 DEF CleanOldSessions, TokenTyped, TypeInv, TypeOK,
                TokenRow, TokenState, HasOrigin
  <2>3. row' \in [Sessions -> RowState]
    BY <1>4 DEF CleanOldSessions, TypeInv, TypeOK, RowState
  <2> QED
    BY <1>4, <2>2, <2>3 DEF CleanOldSessions, TokenTyped, TypeInv, TypeOK, history
<1>5. ASSUME NEW p \in Procs, Fail(p) PROVE TypeInv'
  <2>1. op[p] \in Op /\ HoldsIds(op[p])
    BY DEF TypeInv, TypeOK
  <2>2. OpTyped'
    BY <1>5, IdleType, GotoType DEF Fail
  <2>3. Closing(op[p]) \subseteq Sessions
    BY <2>1 DEF Closing, HoldsIds, Op
  <2>4. row' \in [Sessions -> RowState]
    BY <1>5 DEF Fail, TypeInv, TypeOK, RowState
  <2> QED
    BY <1>5, <2>2, <2>3, <2>4 DEF Fail, OpTyped, TypeInv, TypeOK
<1>6. ASSUME NEW p \in Procs, Rejection(p) PROVE TypeInv'
  <2>1. PICK new \in Op : Goto(p, new) /\ Lessened(op[p], new)
    BY <1>6, RejectLessens
  <2>2. HoldsIds(op[p])
    BY DEF TypeInv
  <2>3. HoldsIds(new)
    BY <2>1, <2>2, IdleType DEF Lessened, HoldsIds
  <2>4. OpTyped'
    BY <2>1, <2>3, GotoType
  <2> QED
    BY <1>6, <2>4, RejectLessens DEF OpTyped, TypeInv, TypeOK
<1> QED
  BY <1>1, <1>2, <1>4, <1>5, <1>6 DEF Environment

LEMMA TypeInit == Init => TypeInv
BY IdleType DEF Init, TypeInv, TypeOK, RowState, FreshToken, TokenRow, TokenState,
                HasOrigin

LEMMA TypeStep == TypeInv /\ [Next]_vars => TypeInv'
<1>1. ASSUME TypeInv, Next PROVE TypeInv'
  BY <1>1, LoginType, RefreshType, CloseOneType, CloseAllType, EnvironmentType
  DEF Next, Begin, Step
<1>2. ASSUME TypeInv, UNCHANGED vars PROVE TypeInv'
  BY <1>2 DEF vars, TypeInv, TypeOK
<1> QED
  BY <1>1, <1>2

(* Every variable keeps its type, and every request the ids it needs. *)
THEOREM TypeCorrect == Spec => []TypeOK
<1>1. TypeInv => TypeOK
  BY DEF TypeInv
<1> QED
  BY <1>1, TypeInit, TypeStep, PTL DEF Spec

-----------------------------------------------------------------------------
(* Closed sessions are dead.  The invariant follows an id from its insert   *)
(* to its end: whatever works on an id - a key, a token, a request - works  *)
(* on one whose row was inserted, so the next login cannot bring it back;   *)
(* and a closing that has already removed the key finds it still removed.   *)

\* What a request may hold when the rows are r, the keys c, the closed ids d and
\* the ids given up a.
Serves(o, r, c, d, a) ==
    /\ o.pc \in RefreshPC \cup {"close", "commit"} => r[o.sess] # "unused"
    /\ o.pc \in LoginPC /\ o.victim # NoSession => r[o.victim] # "unused"
    /\ \A s \in o.ids : r[s] # "unused"
    /\ o.pc = "close" /\ "cache" \notin o.todo
          => o.sess \notin c \/ (o.failed /\ o.sess \in a)
    /\ o.pc = "sweep" /\ o.failed => o.ids \subseteq a
    /\ o.late => o.pc = "check" /\ o.sess \in d

DeadInv ==
    /\ \A s \in cache  : row[s] # "unused"
    /\ \A s \in closed : row[s] # "unused" /\ s \notin cache
    /\ \A t \in Tokens : token[t].state # "unused"
                            => row[token[t].session] # "unused"
    /\ \A p \in Procs  : Serves(op[p], row, cache, closed, abandoned)

(* A step that inserts rows but removes none, that makes no inserted id     *)
(* valid again and reopens nothing, disturbs no request that stays put.     *)
LEMMA ServesFrame ==
    ASSUME TypeInv, DeadInv, TypeInv', NEW p \in Procs, NEW new \in Op, Goto(p, new),
           \A s \in Sessions : row[s] # "unused" => row'[s] # "unused",
           \A s \in cache' : s \in cache \/ row[s] = "unused",
           closed \subseteq closed', abandoned \subseteq abandoned',
           Serves(new, row', cache', closed', abandoned')
    PROVE  \A q \in Procs : Serves(op[q], row, cache, closed, abandoned)'
<1> TAKE q \in Procs
<1>1. CASE q = p
  BY <1>1 DEF TypeInv, TypeOK, Goto
<1>2. CASE q # p
  <2>1. op'[q] = op[q]
    BY <1>2 DEF Goto, TypeInv, TypeOK
  <2>2. Serves(op[q], row, cache, closed, abandoned)
    BY DEF DeadInv
  <2>3. op[q] \in Op /\ HoldsIds(op[q])
    BY DEF TypeInv, TypeOK
  <2>4. Serves(op[q], row', cache', closed', abandoned')
    BY <2>2, <2>3 DEF Serves, HoldsIds, LoginPC, Op
  <2> QED
    BY <2>1, <2>4
<1> QED
  BY <1>1, <1>2

(* A request that has nothing to do holds nothing. *)
LEMMA IdleServes ==
    ASSUME NEW r, NEW c, NEW d, NEW a
    PROVE  Serves(Idle, r, c, d, a)
BY DEF Idle, Serves, RefreshPC, LoginPC

(* Revoking tokens issues none. *)
LEMMA RevokeKnown ==
    ASSUME TypeInv, DeadInv, NEW S, Revoke(S),
           \A s \in Sessions : row[s] # "unused" => row'[s] # "unused"
    PROVE  \A t \in Tokens : token'[t].state # "unused"
                                => row'[token'[t].session] # "unused"
BY DEF DeadInv, TypeInv, TypeOK, Revoke, TokenRow, HasOrigin

LEMMA LoginDead ==
    ASSUME TypeInv, DeadInv, TypeInv', NEW p \in Procs,
           Login(p) \/ \E u \in Users, d \in Devices : LoginCount(p, u, d)
    PROVE  DeadInv'
<1> USE IdleType, IdleServes
<1>0. /\ op[p] \in Op /\ HoldsIds(op[p])
      /\ Serves(op[p], row, cache, closed, abandoned)
  BY DEF TypeInv, TypeOK, DeadInv
<1>9. abandoned \subseteq abandoned'
  BY DEF Login, LoginCount, LoginPick, LoginStore, LoginCommit, history
<1> USE <1>9
<1>1. ASSUME NEW u \in Users, NEW d \in Devices, LoginCount(p, u, d)
      PROVE  DeadInv'
  <2> DEFINE new == [Idle EXCEPT !.user = u, !.device = d,
                            !.pc = IF Full(u) THEN "pick" ELSE "store"]
  <2>1. new \in Op
    BY DEF Idle, Op, LoginPC, Parts
  <2>2. /\ new.pc \in {"pick", "store"} /\ new.ids = {} /\ new.late = FALSE
        /\ new.victim = NoSession
    BY DEF Idle
  <2>3. Serves(new, row', cache', closed', abandoned')
    BY <2>2 DEF Serves, RefreshPC
  <2>4. \A q \in Procs : Serves(op[q], row, cache, closed, abandoned)'
    BY <1>1, <2>1, <2>3, ServesFrame DEF LoginCount, db, history
  <2> QED
    BY <1>1, <2>4 DEF LoginCount, DeadInv, db, history
<1>2. ASSUME NEW new \in Op, Goto(p, new), UNCHANGED <<db, cache, failures, history>>,
             op[p].pc \in {"pick", "store"}, new.pc \in {"pick", "store"},
             new.ids = op[p].ids, new.late = op[p].late,
             new.victim # op[p].victim => row[new.victim] # "unused"
      PROVE  DeadInv'
  <2>1. Serves(new, row', cache', closed', abandoned')
    BY <1>0, <1>2 DEF Serves, RefreshPC, LoginPC, db, history, Op
  <2>2. \A q \in Procs : Serves(op[q], row, cache, closed, abandoned)'
    BY <1>2, <2>1, ServesFrame DEF db, history
  <2> QED
    BY <1>2, <2>2 DEF DeadInv, db, history
<1>3. CASE LoginPick(p)
  <2> DEFINE plain == [op[p] EXCEPT !.pc = "store"]
  <2>1. /\ plain \in Op /\ plain.pc = "store"
        /\ plain.ids = op[p].ids /\ plain.late = op[p].late
        /\ plain.victim = op[p].victim
    BY <1>0 DEF Op, LoginPC
  <2>2. ASSUME NEW v \in Sessions
        PROVE  LET new == [op[p] EXCEPT !.pc = "store", !.victim = v]
               IN  /\ new \in Op /\ new.pc = "store"
                   /\ new.ids = op[p].ids /\ new.late = op[p].late
                   /\ new.victim = v
    BY <1>0 DEF Op, LoginPC
  <2>3. UNCHANGED <<db, cache, failures, history>> /\ op[p].pc = "pick"
    BY <1>3 DEF LoginPick
  <2>4. CASE Goto(p, plain)
    <3> HIDE DEF plain
    <3> QED
      BY <1>2, <2>1, <2>3, <2>4
  <2>5. CASE \E v \in Active(op[p].user) :
                 Goto(p, [op[p] EXCEPT !.pc = "store", !.victim = v])
    <3>1. PICK v \in Active(op[p].user) :
                 Goto(p, [op[p] EXCEPT !.pc = "store", !.victim = v])
      BY <2>5
    <3> DEFINE new == [op[p] EXCEPT !.pc = "store", !.victim = v]
    <3>2. v \in Sessions /\ row[v] = "active"
      BY DEF Active
    <3>3. /\ new \in Op /\ new.pc = "store" /\ new.victim = v
          /\ new.ids = op[p].ids /\ new.late = op[p].late
      BY <2>2, <3>2
    <3>4. Goto(p, new)
      BY <3>1
    <3> HIDE DEF new
    <3> QED
      BY <1>2, <2>3, <3>2, <3>3, <3>4
  <2> QED
    BY <1>3, <2>4, <2>5 DEF LoginPick
<1>4. CASE LoginStore(p)
  <2>1. CASE op[p].victim # NoSession /\ row[op[p].victim] = "deleted"
    <3>1. \A q \in Procs : Serves(op[q], row, cache, closed, abandoned)'
      BY <1>4, <2>1, ServesFrame DEF LoginStore, db, history
    <3> QED
      BY <1>4, <2>1, <3>1 DEF LoginStore, DeadInv, db, history
  <2>2. CASE ~(op[p].victim # NoSession /\ row[op[p].victim] = "deleted")
    <3>1. PICK s \in Sessions :
            /\ IsNext(s, Used)
            /\ row'     = [row EXCEPT ![s] = "pending"]
            /\ cache'   = cache \cup {s}
            /\ Goto(p, [op[p] EXCEPT !.pc = "commit", !.sess = s])
            /\ UNCHANGED token
      BY <1>4, <2>2 DEF LoginStore
    <3> DEFINE new == [op[p] EXCEPT !.pc = "commit", !.sess = s]
    <3>2. /\ new \in Op /\ new.pc = "commit" /\ new.sess = s
          /\ new.ids = op[p].ids /\ new.late = op[p].late
          /\ new.victim = op[p].victim
      BY <1>0 DEF Op, LoginPC
    <3>3. row[s] = "unused" /\ row'[s] = "pending" /\ closed' = closed
      BY <1>4, <3>1 DEF IsNext, Used, TypeInv, TypeOK, LoginStore, history
    <3>4. \A x \in Sessions : row[x] # "unused" => row'[x] # "unused"
      BY <3>1 DEF TypeInv, TypeOK
    <3>5. op[p].pc = "store"
      BY <1>4 DEF LoginStore
    <3>6. Serves(new, row', cache', closed', abandoned')
      BY <1>0, <3>2, <3>3, <3>4, <3>5 DEF Serves, RefreshPC, LoginPC, Op
    <3>7. \A q \in Procs : Serves(op[q], row, cache, closed, abandoned)'
      BY <3>1, <3>2, <3>3, <3>4, <3>6, ServesFrame
    <3> QED
      BY <3>1, <3>3, <3>4, <3>7
      DEF DeadInv, TypeInv, TypeOK, HasOrigin
  <2> QED
    BY <2>1, <2>2
<1>5. CASE LoginCommit(p)
  <2>1. PICK t \in Tokens :
           token' = [token EXCEPT ![t] = FirstToken(t, op[p].sess)]
    BY <1>5 DEF LoginCommit
  <2>2. \A x \in Sessions : row[x] # "unused" => row'[x] # "unused"
    BY <1>5 DEF LoginCommit
  <2>3. /\ op[p].sess \in Sessions /\ row[op[p].sess] # "unused"
        /\ cache' = cache /\ closed' = closed
    BY <1>0, <1>5 DEF Serves, HoldsIds, LoginCommit
  <2>4. \A q \in Procs : Serves(op[q], row, cache, closed, abandoned)'
    BY <1>5, <2>2, <2>3, ServesFrame DEF LoginCommit
  <2>5. \A x \in Tokens : token'[x].state # "unused"
                             => row'[token'[x].session] # "unused"
    BY <2>1, <2>2, <2>3 DEF FirstToken, DeadInv, TypeInv, TypeOK, HasOrigin
  <2> QED
    BY <2>2, <2>3, <2>4, <2>5 DEF DeadInv, TypeInv, TypeOK
<1> QED
  BY <1>1, <1>3, <1>4, <1>5 DEF Login

LEMMA RefreshDead ==
    ASSUME TypeInv, DeadInv, TypeInv', NEW p \in Procs,
           Refresh(p) \/ \E t \in Tokens : RefreshFind(p, t)
    PROVE  DeadInv'
<1> USE IdleType, IdleServes
<1>0. /\ op[p] \in Op /\ HoldsIds(op[p])
      /\ Serves(op[p], row, cache, closed, abandoned)
  BY DEF TypeInv, TypeOK, DeadInv
<1>9. abandoned \subseteq abandoned'
  BY DEF Refresh, RefreshFind, RefreshCheck, RefreshRevoke, RefreshCreate, history
<1> USE <1>9
<1>1. ASSUME NEW t \in Tokens, RefreshFind(p, t)
      PROVE  DeadInv'
  <2> DEFINE s   == token[t].session
             chk == [Idle EXCEPT !.pc = "check", !.tok = t, !.sess = s,
                                 !.late = s \in closed]
             cls == [Idle EXCEPT !.pc = "close", !.tok = t, !.sess = s,
                                 !.todo = {"tokens", "cache"}]
  <2>0. s \in Sessions /\ row[s] # "unused"
    BY <1>1 DEF DeadInv, TypeInv, HasOrigin, RefreshFind
  <2>1. (s \in closed) \in BOOLEAN
    OBVIOUS
  <2>2. /\ chk \in Op /\ chk.pc = "check" /\ chk.sess = s /\ chk.ids = {}
        /\ chk.late = (s \in closed)
    BY <2>0, <2>1 DEF Idle, Op, RefreshPC, Parts
  <2>3. /\ cls \in Op /\ cls.pc = "close" /\ cls.sess = s /\ cls.ids = {}
        /\ cls.late = FALSE /\ cls.todo = {"tokens", "cache"}
    BY <2>0 DEF Idle, Op, Parts
  <2>4. UNCHANGED <<row, cache, closed, token>>
    BY <1>1 DEF RefreshFind, db, history
  <2>5. Serves(chk, row', cache', closed', abandoned') /\ Serves(cls, row', cache', closed', abandoned')
    BY <2>0, <2>2, <2>3, <2>4 DEF Serves, LoginPC
  <2>6. Goto(p, chk) \/ Goto(p, cls)
    BY <1>1 DEF RefreshFind
  <2> HIDE DEF chk, cls
  <2>7. \A q \in Procs : Serves(op[q], row, cache, closed, abandoned)'
    BY <2>2, <2>3, <2>4, <2>5, <2>6, ServesFrame
  <2> QED
    BY <2>4, <2>7 DEF DeadInv
<1>2. CASE RefreshCheck(p)
  <2> DEFINE new == [op[p] EXCEPT !.pc = "revoke"]
  <2>1. /\ new \in Op /\ new.pc = "revoke" /\ new.sess = op[p].sess
        /\ new.ids = op[p].ids /\ new.late = op[p].late
    BY <1>0 DEF Op, RefreshPC
  <2>2. UNCHANGED <<row, cache, closed, token>>
    BY <1>2 DEF RefreshCheck, db, history
  <2>3. op[p].pc = "check" /\ row[op[p].sess] # "unused"
    BY <1>0, <1>2 DEF RefreshCheck, Serves, RefreshPC
  <2>4. HasSession(op[p].sess) => ~op[p].late
    BY <1>0 DEF HasSession, Serves, DeadInv
  <2>5. HasSession(op[p].sess) => Serves(new, row', cache', closed', abandoned')
    BY <1>0, <2>1, <2>2, <2>3, <2>4 DEF Serves, LoginPC
  <2>6. \A q \in Procs : Serves(op[q], row, cache, closed, abandoned)'
    BY <1>2, <2>1, <2>2, <2>5, ServesFrame DEF RefreshCheck
  <2> QED
    BY <2>2, <2>6 DEF DeadInv
<1>3. CASE RefreshRevoke(p)
  <2> DEFINE new == [op[p] EXCEPT !.pc = "create"]
  <2>1. /\ new \in Op /\ new.pc = "create" /\ new.sess = op[p].sess
        /\ new.ids = op[p].ids /\ new.late = op[p].late
    BY <1>0 DEF Op, RefreshPC
  <2>2. UNCHANGED <<row, cache, closed>>
    BY <1>3 DEF RefreshRevoke, history
  <2>3. op[p].pc = "revoke" /\ row[op[p].sess] # "unused"
    BY <1>0, <1>3 DEF RefreshRevoke, Serves, RefreshPC
  <2>4. Serves(new, row', cache', closed', abandoned')
    BY <1>0, <2>1, <2>2, <2>3 DEF Serves, LoginPC
  <2>5. \A q \in Procs : Serves(op[q], row, cache, closed, abandoned)'
    BY <1>3, <2>1, <2>2, <2>4, ServesFrame DEF RefreshRevoke
  <2>6. \A t \in Tokens : token'[t].state # "unused"
                             => row'[token'[t].session] # "unused"
    BY <1>3, <2>2, RevokeKnown DEF RefreshRevoke
  <2> QED
    BY <2>2, <2>5, <2>6 DEF DeadInv
<1>4. CASE RefreshCreate(p)
  <2> DEFINE succ == [state  |-> "live", session |-> op[p].sess,
                      family |-> token[op[p].tok].family, parent |-> op[p].tok]
  <2>1. UNCHANGED <<row, cache, closed>>
    BY <1>4 DEF RefreshCreate, history
  <2>2. op[p].sess \in Sessions /\ row[op[p].sess] # "unused"
    BY <1>0, <1>4 DEF RefreshCreate, Serves, RefreshPC, HoldsIds
  <2>3. \A q \in Procs : Serves(op[q], row, cache, closed, abandoned)'
    BY <1>4, <2>1, ServesFrame DEF RefreshCreate
  <2>4. token' = token \/ \E n \in Tokens : token' = [token EXCEPT ![n] = succ]
    BY <1>4 DEF RefreshCreate
  <2>5. \A t \in Tokens : token'[t].state # "unused"
                             => row'[token'[t].session] # "unused"
    BY <2>1, <2>2, <2>4 DEF DeadInv, TypeInv, TypeOK
  <2> QED
    BY <2>1, <2>3, <2>5 DEF DeadInv
<1> QED
  BY <1>1, <1>2, <1>3, <1>4 DEF Refresh

LEMMA CloseOneDead ==
    ASSUME TypeInv, DeadInv, TypeInv', NEW p \in Procs,
           \/ CloseOne(p)
           \/ \E s \in Sessions : LogoutBegin(p, s)
           \/ \E c, s \in Sessions : RevokeSessionBegin(p, c, s)
    PROVE  DeadInv'
<1> USE IdleType, IdleServes
<1>0. /\ op[p] \in Op /\ HoldsIds(op[p])
      /\ Serves(op[p], row, cache, closed, abandoned)
  BY DEF TypeInv, TypeOK, DeadInv
<1>9. abandoned \subseteq abandoned'
  BY DEF CloseOne, CloseRow, CloseTokens, CloseCache, Returned, LogoutBegin,
         RevokeSessionBegin, history
<1> USE <1>9
<1>1. ASSUME NEW s \in Sessions, row[s] # "unused", Goto(p, Close(s)),
             UNCHANGED <<row, cache, closed, token>>
      PROVE  DeadInv'
  <2>1. /\ Close(s) \in Op /\ Close(s).pc = "close" /\ Close(s).sess = s
        /\ Close(s).ids = {} /\ Close(s).late = FALSE
        /\ Close(s).todo = {"row", "tokens", "cache"}
    BY DEF Close, Idle, Op, Parts
  <2>2. Serves(Close(s), row', cache', closed', abandoned')
    BY <1>1, <2>1 DEF Serves, LoginPC
  <2>3. \A q \in Procs : Serves(op[q], row, cache, closed, abandoned)'
    BY <1>1, <2>1, <2>2, ServesFrame
  <2> QED
    BY <1>1, <2>3 DEF DeadInv
<1>2. ASSUME NEW s \in Sessions, LogoutBegin(p, s) PROVE DeadInv'
  BY <1>1, <1>2 DEF LogoutBegin, Authenticated, Committed, db, history
<1>3. ASSUME NEW c \in Sessions, NEW s \in Sessions, RevokeSessionBegin(p, c, s)
      PROVE  DeadInv'
  BY <1>1, <1>3 DEF RevokeSessionBegin, Active, db, history
<1>4. ASSUME NEW part \in Parts, Returned(p, part),
             \A s \in Sessions : row[s] # "unused" => row'[s] # "unused",
             cache' \subseteq cache,
             part = "cache" => op[p].sess \notin cache',
             \A t \in Tokens : token'[t].state # "unused"
                                  => row'[token'[t].session] # "unused"
      PROVE  DeadInv'
  <2> DEFINE new == [op[p] EXCEPT !.todo = @ \ {part}]
  <2>1. /\ new \in Op /\ new.pc = op[p].pc /\ new.sess = op[p].sess
        /\ new.ids = op[p].ids /\ new.late = op[p].late
        /\ new.todo = op[p].todo \ {part} /\ new.failed = op[p].failed
    BY <1>0 DEF Op
  <2>2. /\ op[p].pc = "close" /\ op[p].sess \in Sessions
        /\ row[op[p].sess] # "unused" /\ ~op[p].late
    BY <1>0, <1>4 DEF Returned, HoldsIds, Serves
  <2>3. CASE op[p].todo = {part}
    <3>1. op[p].sess \notin cache' \/ op[p].failed
      BY <1>0, <1>4, <2>2, <2>3 DEF Serves, LoginPC
    <3>2. /\ Goto(p, Idle) /\ closed \subseteq closed'
          /\ closed' \subseteq closed \cup {op[p].sess}
          /\ op[p].failed => closed' = closed
      BY <1>4, <2>3 DEF Returned
    <3>3. \A q \in Procs : Serves(op[q], row, cache, closed, abandoned)'
      BY <1>4, <3>2, ServesFrame
    <3> QED
      BY <1>4, <2>2, <3>1, <3>2, <3>3 DEF DeadInv, TypeInv, TypeOK
  <2>4. CASE op[p].todo # {part}
    <3>1. Goto(p, new) /\ closed' = closed
      BY <1>4, <2>4 DEF Returned
    <3>2. op[p].ids \subseteq Sessions
      BY <1>0 DEF Op
    <3>3. Serves(new, row', cache', closed', abandoned')
      <4>1. "cache" \notin new.todo
              => new.sess \notin cache' \/ (op[p].failed /\ new.sess \in abandoned')
        BY <1>0, <1>4, <2>1, <2>2 DEF Serves
      <4>2. \A s \in new.ids : row'[s] # "unused"
        BY <1>0, <1>4, <2>1, <3>2 DEF Serves
      <4>3. new.pc = "close" /\ row'[new.sess] # "unused"
        BY <1>4, <2>1, <2>2
      <4>4. new.late => FALSE
        BY <2>1, <2>2, Zenon
      <4>5. op[p].failed => new.failed
        BY <2>1, Zenon
      <4> HIDE DEF new
      <4> QED
        BY <4>1, <4>2, <4>3, <4>4, <4>5 DEF Serves, RefreshPC, LoginPC
    <3>4. \A q \in Procs : Serves(op[q], row, cache, closed, abandoned)'
      BY <1>4, <2>1, <3>1, <3>3, ServesFrame
    <3> QED
      BY <1>4, <3>1, <3>4 DEF DeadInv, TypeInv, TypeOK
  <2> QED
    BY <2>3, <2>4
<1>5. CASE CloseRow(p)
  BY <1>4, <1>5 DEF CloseRow, Parts, DeadInv, TypeInv, TypeOK, HasOrigin
<1>6. CASE CloseTokens(p)
  <2>1. \A t \in Tokens : token'[t].state # "unused"
                             => row'[token'[t].session] # "unused"
    BY <1>6, RevokeKnown DEF CloseTokens
  <2> QED
    BY <1>4, <1>6, <2>1 DEF CloseTokens, Parts
<1>7. CASE CloseCache(p)
  BY <1>4, <1>7 DEF CloseCache, Parts, DeadInv
<1> QED
  BY <1>2, <1>3, <1>5, <1>6, <1>7 DEF CloseOne

LEMMA CloseAllDead ==
    ASSUME TypeInv, DeadInv, TypeInv', NEW p \in Procs,
           CloseAll(p) \/ \E u \in Users : SweepBegin(p, u)
    PROVE  DeadInv'
<1> USE IdleType, IdleServes
<1>0. /\ op[p] \in Op /\ HoldsIds(op[p])
      /\ Serves(op[p], row, cache, closed, abandoned)
  BY DEF TypeInv, TypeOK, DeadInv
<1>9. abandoned \subseteq abandoned'
  BY DEF CloseAll, SweepList, SweepMark, SweepTokens, SweepPurge, SweepBegin,
         history
<1> USE <1>9
<1>1. ASSUME NEW new \in Op, new.pc = "sweep", new.late = FALSE,
             new.ids \subseteq Sessions, \A s \in new.ids : row[s] # "unused",
             new.failed => new.ids \subseteq abandoned',
             Goto(p, Idle) \/ Goto(p, new),
             \A s \in Sessions : row[s] # "unused" => row'[s] # "unused",
             cache' \subseteq cache, closed \subseteq closed',
             \A s \in closed' : row[s] # "unused" /\ s \notin cache',
             \A t \in Tokens : token'[t].state # "unused"
                                  => row'[token'[t].session] # "unused"
      PROVE  DeadInv'
  <2>1. Serves(new, row', cache', closed', abandoned')
    BY <1>1 DEF Serves, RefreshPC, LoginPC
  <2>2. \A q \in Procs : Serves(op[q], row, cache, closed, abandoned)'
    BY <1>1, <2>1, ServesFrame
  <2>3. cache \subseteq Sessions /\ closed' \subseteq Sessions
    BY DEF TypeInv, TypeOK
  <2> QED
    BY <1>1, <2>2, <2>3 DEF DeadInv
<1>2. ASSUME op[p].pc = "sweep"
      PROVE  /\ ~op[p].late /\ op[p].ids \subseteq Sessions
             /\ \A s \in op[p].ids : row[s] # "unused"
             /\ op[p].failed => op[p].ids \subseteq abandoned
  BY <1>0, <1>2 DEF Serves, LoginPC, Op
<1>3. ASSUME NEW u \in Users, SweepBegin(p, u) PROVE DeadInv'
  <2> DEFINE new == [Idle EXCEPT !.pc = "sweep", !.user = u,
                                 !.todo = {"list", "tokens"}]
  <2>1. new \in Op /\ new.pc = "sweep" /\ new.late = FALSE /\ new.ids = {}
    BY DEF Idle, Op, Parts
  <2>2. Goto(p, new) /\ UNCHANGED <<row, token, cache, closed>>
    BY <1>3 DEF SweepBegin, db, history
  <2> QED
    BY <1>1, <2>1, <2>2 DEF DeadInv
<1>4. CASE SweepList(p)
  <2> DEFINE ids  == Active(op[p].user)
             new  == [op[p] EXCEPT !.ids  = ids,
                       !.todo = (@ \ {"list"})
                                \cup (IF ids = {} THEN {} ELSE {"mark"})]
  <2>1. op[p].pc = "sweep" /\ UNCHANGED <<row, token, cache, closed>>
    BY <1>4 DEF SweepList, db
  <2>2. ids \subseteq Sessions /\ \A s \in ids : row[s] # "unused"
    BY DEF Active
  <2>3. Goto(p, Idle) \/ Goto(p, new)
    BY <1>4 DEF SweepList, SweepGoto
  <2> HIDE DEF ids
  <2>4. /\ new.pc = "sweep" /\ new.late = FALSE /\ new.ids = ids
        /\ new.failed = op[p].failed
    BY <1>0, <1>2, <2>1 DEF Op
  <2>7. op[p].failed => ids \subseteq abandoned'
    BY <1>4 DEF SweepList, ids
  <2>5. CASE Goto(p, Idle)
    <3>1. \A q \in Procs : Serves(op[q], row, cache, closed, abandoned)'
      BY <2>1, <2>5, ServesFrame
    <3> QED
      BY <2>1, <3>1 DEF DeadInv
  <2>6. CASE Goto(p, new)
    <3>1. new = op'[p]
      BY <2>6 DEF Goto, TypeInv, TypeOK
    <3>2. op'[p] \in Op
      BY DEF TypeInv, TypeOK
    <3> HIDE DEF new
    <3>3. new \in Op
      BY <3>1, <3>2
    <3> QED
      BY <1>1, <2>1, <2>2, <2>4, <2>6, <2>7, <3>3 DEF DeadInv
  <2> QED
    BY <2>3, <2>5, <2>6
<1>5. CASE SweepMark(p)
  <2> DEFINE new == [op[p] EXCEPT !.todo = @ \ {"mark"}]
  <2>1. op[p].pc = "sweep" /\ UNCHANGED <<token, cache, closed>>
    BY <1>5 DEF SweepMark, history
  <2>2. /\ new \in Op /\ new.pc = "sweep" /\ new.late = FALSE
        /\ new.ids = op[p].ids /\ new.failed = op[p].failed
    BY <1>0, <1>2, <2>1 DEF Op
  <2>3. Goto(p, Idle) \/ Goto(p, new)
    BY <1>5 DEF SweepMark, SweepGoto
  <2>4. \A s \in Sessions : row[s] # "unused" => row'[s] # "unused"
    BY <1>5 DEF SweepMark
  <2> HIDE DEF new
  <2> QED
    BY <1>1, <1>2, <2>1, <2>2, <2>3, <2>4
    DEF DeadInv, TypeInv, TypeOK, HasOrigin
<1>6. CASE SweepTokens(p)
  <2> DEFINE new == [op[p] EXCEPT !.todo = @ \ {"tokens"}]
  <2>1. op[p].pc = "sweep" /\ UNCHANGED <<row, cache, closed>>
    BY <1>6 DEF SweepTokens, history
  <2>2. /\ new \in Op /\ new.pc = "sweep" /\ new.late = FALSE
        /\ new.ids = op[p].ids /\ new.failed = op[p].failed
    BY <1>0, <1>2, <2>1 DEF Op
  <2>3. Goto(p, Idle) \/ Goto(p, new)
    BY <1>6 DEF SweepTokens, SweepGoto
  <2>4. \A t \in Tokens : token'[t].state # "unused"
                             => row'[token'[t].session] # "unused"
    BY <1>6, <2>1, RevokeKnown DEF SweepTokens
  <2> HIDE DEF new
  <2> QED
    BY <1>1, <1>2, <2>1, <2>2, <2>3, <2>4 DEF DeadInv
<1>7. ASSUME NEW s \in Sessions, SweepPurge(p, s) PROVE DeadInv'
  <2> DEFINE new == [op[p] EXCEPT !.ids = @ \ {s}]
  <2>1. op[p].pc = "sweep" /\ s \in op[p].ids /\ UNCHANGED <<row, token>>
    BY <1>7 DEF SweepPurge, db
  <2>2. /\ new \in Op /\ new.pc = "sweep" /\ new.late = FALSE
        /\ new.ids = op[p].ids \ {s} /\ new.failed = op[p].failed
    BY <1>0, <1>2, <2>1 DEF Op
  <2>3. Goto(p, Idle) \/ Goto(p, new)
    BY <1>7 DEF SweepPurge, SweepGoto
  <2>4. cache' = cache \ {s} /\ closed' = closed \cup {s}
    BY <1>7 DEF SweepPurge
  <2> HIDE DEF new
  <2> QED
    BY <1>1, <1>2, <2>1, <2>2, <2>3, <2>4 DEF DeadInv
<1> QED
  BY <1>3, <1>4, <1>5, <1>6, <1>7 DEF CloseAll

LEMMA EnvironmentDead ==
    ASSUME TypeInv, DeadInv, TypeInv', Environment
    PROVE  DeadInv'
<1>1. ASSUME UNCHANGED <<op, closed, abandoned>>, cache' \subseteq cache,
             \A s \in Sessions : row[s] # "unused" => row'[s] # "unused",
             \A t \in Tokens : token'[t].state # "unused"
                                  => row'[token'[t].session] # "unused"
      PROVE  DeadInv'
  <2>1. ASSUME NEW q \in Procs PROVE Serves(op[q], row, cache, closed, abandoned)'
    <3>1. op[q] \in Op /\ HoldsIds(op[q]) /\ Serves(op[q], row, cache, closed, abandoned)
      BY DEF TypeInv, TypeOK, DeadInv
    <3>2. Serves(op[q], row', cache', closed', abandoned')
      BY <1>1, <3>1 DEF Serves, HoldsIds, LoginPC, Op
    <3> QED
      BY <1>1, <3>2
  <2> QED
    BY <1>1, <2>1 DEF DeadInv, TypeInv, TypeOK
<1>2. ASSUME NEW s \in Sessions, CacheExpire(s) PROVE DeadInv'
  BY <1>1, <1>2 DEF CacheExpire, db, history, DeadInv
<1>3. ASSUME NEW t \in Tokens, CleanExpiredRefreshTokens(t) PROVE DeadInv'
  BY <1>1, <1>3
  DEF CleanExpiredRefreshTokens, history, DeadInv, TypeInv, TypeOK, TokenRow
<1>5. CASE CleanOldSessions
  <2>1. \A s \in Sessions : row[s] # "unused" => row'[s] # "unused"
    BY <1>5 DEF CleanOldSessions
  <2>2. \A t \in Tokens : token'[t].session = token[t].session
    BY <1>5 DEF CleanOldSessions, TypeInv, TypeOK, TokenRow
  <2>3. ASSUME NEW t \in Tokens, token'[t].state # "unused"
        PROVE  row'[token'[t].session] # "unused"
    <3>1. CASE token[t].state # "unused"
      BY <2>1, <2>2, <3>1 DEF DeadInv, TypeInv, HasOrigin
    <3>2. CASE token[t].state = "unused"
      <4>1. token[t].session \in {s \in Sessions : row[s] = "revoked"}
        BY <1>5, <2>3, <3>2 DEF CleanOldSessions
      <4> QED
        BY <2>1, <2>2, <4>1
    <3> QED
      BY <3>1, <3>2
  <2> QED
    BY <1>1, <1>5, <2>1, <2>3 DEF CleanOldSessions, history
<1>6. ASSUME NEW p \in Procs, Fail(p) PROVE DeadInv'
  <2>1. \A s \in Sessions : row[s] # "unused" => row'[s] # "unused"
    BY <1>6 DEF Fail, TypeInv, TypeOK
  <2>2. /\ UNCHANGED <<cache, token, closed>> /\ Goto(p, Idle)
        /\ abandoned \subseteq abandoned'
    BY <1>6 DEF Fail
  <2>3. \A q \in Procs : Serves(op[q], row, cache, closed, abandoned)'
    BY <2>1, <2>2, IdleType, IdleServes, ServesFrame
  <2> QED
    BY <2>1, <2>2, <2>3 DEF DeadInv, TypeInv, TypeOK, HasOrigin
<1>7. ASSUME NEW p \in Procs, Rejection(p) PROVE DeadInv'
  <2>1. /\ op[p].pc \in {"close", "sweep"}
        /\ UNCHANGED <<row, token, cache, closed>>
    BY <1>7, RejectLessens
  <2>2. PICK new \in Op : /\ Goto(p, new) /\ Lessened(op[p], new)
                          /\ HandedOver(op[p], new)
    BY <1>7, RejectLessens
  <2>3. op[p] \in Op /\ Serves(op[p], row, cache, closed, abandoned)
    BY DEF TypeInv, TypeOK, DeadInv
  <2>4. Serves(new, row', cache', closed', abandoned')
    <3>1. CASE new = Idle
      BY <3>1, IdleServes
    <3>2. CASE new # Idle /\ op[p].pc = "close"
      BY <2>1, <2>2, <2>3, <3>2
      DEF Serves, Lessened, HandedOver, RefreshPC, LoginPC, Op
    <3>3. CASE new # Idle /\ op[p].pc = "sweep"
      BY <2>1, <2>2, <2>3, <3>3
      DEF Serves, Lessened, HandedOver, RefreshPC, LoginPC, Op
    <3> QED
      BY <2>1, <3>1, <3>2, <3>3
  <2>5. \A q \in Procs : Serves(op[q], row, cache, closed, abandoned)'
    BY <2>1, <2>2, <2>4, ServesFrame DEF HandedOver
  <2> QED
    BY <2>1, <2>5 DEF DeadInv
<1> QED
  BY <1>2, <1>3, <1>5, <1>6, <1>7 DEF Environment

LEMMA DeadInit == Init => DeadInv
BY IdleServes DEF Init, DeadInv, FreshToken

LEMMA DeadStep == TypeInv /\ DeadInv /\ [Next]_vars => DeadInv'
<1>1. ASSUME TypeInv, DeadInv, TypeInv', Next PROVE DeadInv'
  BY <1>1, LoginDead, RefreshDead, CloseOneDead, CloseAllDead, EnvironmentDead
  DEF Next, Begin, Step
<1>2. ASSUME DeadInv, UNCHANGED vars PROVE DeadInv'
  BY <1>2 DEF vars, DeadInv, Serves
<1> QED
  BY <1>1, <1>2, TypeStep

LEMMA Inductive == Spec => [](TypeInv /\ DeadInv)
BY TypeInit, TypeStep, DeadInit, DeadStep, PTL DEF Spec

(* A session whose closing was reported as done is never accepted again. *)
THEOREM ClosedStayDead == Spec => []ClosedSessionsAreDead
<1>1. DeadInv => ClosedSessionsAreDead
  BY DEF DeadInv, ClosedSessionsAreDead
<1> QED
  BY <1>1, Inductive, PTL

(* No refresh that began after the closing of its session gets a new pair. *)
THEOREM NoLateRotation == Spec => []NoRotationAfterClose
<1>1. DeadInv => NoRotationAfterClose
  BY DEF DeadInv, Serves, NoRotationAfterClose
<1> QED
  BY <1>1, Inductive, PTL

-----------------------------------------------------------------------------
(* The two stores agree, or there is an excuse.  An excuse must outlive the *)
(* step that takes it: a request that ends or dies hands over the sessions  *)
(* it was closing.                                                          *)

Over == {"revoked", "deleted"}

\* A sweep has no ids before it has listed them.
Unlisted(o) == o.pc = "sweep" /\ "list" \in o.todo => o.ids = {}

ExcuseInv == RevokedIsDeadOrExcused /\ \A p \in Procs : Unlisted(op[p])

(* A step of p that ends sessions only with an excuse, and drops no excuse  *)
(* of a session that is still in Redis.                                     *)
LEMMA ExcusesKept ==
    ASSUME TypeInv, ExcuseInv, NEW p \in Procs, NEW new, Goto(p, new),
           Unlisted(new),
           evicted \subseteq evicted', abandoned \subseteq abandoned',
           \A s \in cache' : row'[s] \in Over =>
               \/ s \in cache /\ row[s] \in Over
               \/ s \in evicted' \cup abandoned' \cup Closing(new),
           \A s \in Closing(op[p]) :
               s \in cache' => s \in abandoned' \cup Closing(new)
    PROVE  ExcuseInv'
<1>1. \A q \in Procs : op'[q] = IF q = p THEN new ELSE op[q]
  BY DEF TypeInv, TypeOK, Goto
<1>2. \A q \in Procs : Unlisted(op[q])'
  BY <1>1 DEF ExcuseInv, Unlisted
<1>3. ASSUME NEW s \in cache', row'[s] \in Over,
             s \notin evicted' \cup abandoned'
      PROVE  \E q \in Procs : s \in Closing(op'[q])
  <2>1. CASE s \in Closing(new)
    BY <1>1, <2>1
  <2>2. CASE s \notin Closing(new)
    <3>1. s \in cache /\ row[s] \in Over
      BY <1>3, <2>2
    <3>2. \E q \in Procs : s \in Closing(op[q])
      BY <1>3, <3>1 DEF ExcuseInv, RevokedIsDeadOrExcused, InCloseOf, Over
    <3>3. PICK q \in Procs : s \in Closing(op[q])
      BY <3>2
    <3>4. q # p
      BY <1>3, <2>2, <3>3
    <3> QED
      BY <1>1, <3>3, <3>4
  <2> QED
    BY <2>1, <2>2
<1>4. RevokedIsDeadOrExcused'
  BY <1>3 DEF RevokedIsDeadOrExcused, InCloseOf, Over, Closing
<1> QED
  BY <1>2, <1>4 DEF ExcuseInv

(* Only a closing or a sweep has something to close. *)
LEMMA ClosesNothing ==
    ASSUME NEW o, o.pc \notin {"close", "sweep"}
    PROVE  Closing(o) = {} /\ Unlisted(o)
BY DEF Closing, Unlisted

LEMMA LoginExcused ==
    ASSUME TypeInv, DeadInv, ExcuseInv, NEW p \in Procs,
           Login(p) \/ \E u \in Users, d \in Devices : LoginCount(p, u, d)
    PROVE  ExcuseInv'
<1>0. op[p] \in Op /\ HoldsIds(op[p])
  BY DEF TypeInv, TypeOK
<1>1. PICK new : Goto(p, new) /\ new.pc \in LoginPC \cup {"idle"}
  <2>1. CASE \E u \in Users, d \in Devices : LoginCount(p, u, d)
    <3>1. PICK u \in Users, d \in Devices : LoginCount(p, u, d)
      BY <2>1
    <3> DEFINE o == [Idle EXCEPT !.user = u, !.device = d,
                                 !.pc = IF Full(u) THEN "pick" ELSE "store"]
    <3>2. o.pc \in LoginPC
      BY DEF Idle, LoginPC
    <3>3. Goto(p, o)
      BY <3>1 DEF LoginCount
    <3> QED
      BY <3>2, <3>3
  <2>2. CASE LoginPick(p)
    <3>1. PICK v \in Sessions \cup {NoSession} :
             \/ Goto(p, [op[p] EXCEPT !.pc = "store"])
             \/ Goto(p, [op[p] EXCEPT !.pc = "store", !.victim = v])
      BY <2>2 DEF LoginPick, Active
    <3>2. /\ [op[p] EXCEPT !.pc = "store"].pc \in LoginPC
          /\ [op[p] EXCEPT !.pc = "store", !.victim = v].pc \in LoginPC
      BY <1>0 DEF Op, LoginPC
    <3> QED
      BY <3>1, <3>2
  <2>3. CASE LoginStore(p)
    <3>1. PICK s \in Sessions \cup {NoSession} :
             Goto(p, Idle) \/ Goto(p, [op[p] EXCEPT !.pc = "commit", !.sess = s])
      BY <2>3 DEF LoginStore
    <3>2. /\ Idle.pc = "idle"
          /\ [op[p] EXCEPT !.pc = "commit", !.sess = s].pc \in LoginPC
      BY <1>0 DEF Op, Idle, LoginPC
    <3> QED
      BY <3>1, <3>2
  <2>4. CASE LoginCommit(p)
    BY <2>4 DEF LoginCommit, Idle
  <2> QED
    BY <2>1, <2>2, <2>3, <2>4 DEF Login
<1>2. Unlisted(new)
  BY <1>1, ClosesNothing DEF LoginPC
<1>3. op[p].pc \in LoginPC \cup {"idle"}
  BY DEF Login, LoginCount, LoginPick, LoginStore, LoginCommit, LoginPC
<1>4. Closing(op[p]) = {}
  BY <1>3, ClosesNothing DEF LoginPC
<1>5. evicted \subseteq evicted' /\ abandoned \subseteq abandoned'
  BY DEF Login, LoginCount, LoginPick, LoginStore, LoginCommit, history
<1>6. \A s \in cache' : row'[s] \in Over =>
         (s \in cache /\ row[s] \in Over) \/ s \in evicted'
  <2>1. CASE UNCHANGED <<row, cache>>
    BY <2>1
  <2>2. CASE LoginStore(p) /\ ~UNCHANGED <<row, cache>>
    <3>1. PICK s \in Sessions : /\ row' = [row EXCEPT ![s] = "pending"]
                                /\ cache' = cache \cup {s}
      BY <2>2 DEF LoginStore, db
    <3> QED
      BY <3>1 DEF Over, TypeInv, TypeOK
  <2>3. CASE LoginCommit(p)
    BY <2>3 DEF LoginCommit, Over, TypeInv, TypeOK
  <2> QED
    BY <2>1, <2>2, <2>3 DEF Login, LoginCount, LoginPick, db
<1> QED
  BY <1>1, <1>2, <1>4, <1>5, <1>6, ExcusesKept

LEMMA RefreshExcused ==
    ASSUME TypeInv, DeadInv, ExcuseInv, NEW p \in Procs,
           Refresh(p) \/ \E t \in Tokens : RefreshFind(p, t)
    PROVE  ExcuseInv'
<1>0. op[p] \in Op
  BY DEF TypeInv, TypeOK
<1>1. UNCHANGED <<row, cache, evicted, abandoned>>
  BY DEF Refresh, RefreshFind, RefreshCheck, RefreshRevoke, RefreshCreate,
         db, history
<1>2. op[p].pc \in RefreshPC \cup {"idle"}
  BY DEF Refresh, RefreshFind, RefreshCheck, RefreshRevoke, RefreshCreate,
         RefreshPC
<1>3. Closing(op[p]) = {}
  BY <1>2, ClosesNothing DEF RefreshPC
<1>4. PICK new : Goto(p, new) /\ new.pc \in RefreshPC \cup {"idle", "close"}
  <2>1. CASE \E t \in Tokens : RefreshFind(p, t)
    <3>1. PICK t \in Tokens : RefreshFind(p, t)
      BY <2>1
    <3> DEFINE s   == token[t].session
               chk == [Idle EXCEPT !.pc = "check", !.tok = t, !.sess = s,
                                   !.late = s \in closed]
               cls == [Idle EXCEPT !.pc = "close", !.tok = t, !.sess = s,
                                   !.todo = {"tokens", "cache"}]
    <3>2. chk.pc = "check" /\ cls.pc = "close"
      BY DEF Idle
    <3>3. Goto(p, chk) \/ Goto(p, cls)
      BY <3>1 DEF RefreshFind
    <3> HIDE DEF chk, cls
    <3> QED
      BY <3>2, <3>3 DEF RefreshPC
  <2>2. CASE Refresh(p)
    <3>1. \/ Goto(p, Idle) \/ Goto(p, [op[p] EXCEPT !.pc = "revoke"])
          \/ Goto(p, [op[p] EXCEPT !.pc = "create"])
      BY <2>2 DEF Refresh, RefreshCheck, RefreshRevoke, RefreshCreate
    <3>2. /\ Idle.pc = "idle"
          /\ [op[p] EXCEPT !.pc = "revoke"].pc = "revoke"
          /\ [op[p] EXCEPT !.pc = "create"].pc = "create"
      BY <1>0 DEF Op, Idle
    <3> QED
      BY <3>1, <3>2 DEF RefreshPC
  <2> QED
    BY <2>1, <2>2
<1>5. Unlisted(new)
  BY <1>4 DEF Unlisted, RefreshPC
<1> QED
  BY <1>1, <1>3, <1>4, <1>5, ExcusesKept

LEMMA CloseOneExcused ==
    ASSUME TypeInv, DeadInv, ExcuseInv, NEW p \in Procs,
           \/ CloseOne(p)
           \/ \E s \in Sessions : LogoutBegin(p, s)
           \/ \E c, s \in Sessions : RevokeSessionBegin(p, c, s)
    PROVE  ExcuseInv'
<1>0. op[p] \in Op /\ Serves(op[p], row, cache, closed, abandoned)
  BY DEF TypeInv, TypeOK, DeadInv
<1>1. CASE \/ \E s \in Sessions : LogoutBegin(p, s)
           \/ \E c, s \in Sessions : RevokeSessionBegin(p, c, s)
  <2>1. PICK s \in Sessions : Goto(p, Close(s))
    BY <1>1 DEF LogoutBegin, RevokeSessionBegin
  <2>2. Unlisted(Close(s))
    BY DEF Close, Idle, Unlisted
  <2>3. op[p].pc = "idle" /\ UNCHANGED <<row, cache, evicted, abandoned>>
    BY <1>1 DEF LogoutBegin, RevokeSessionBegin, db, history
  <2>4. Closing(op[p]) = {}
    BY <2>3, ClosesNothing
  <2> QED
    BY <2>1, <2>2, <2>3, <2>4, ExcusesKept
<1>2. ASSUME NEW part \in {"row", "tokens", "cache"}, Returned(p, part),
             cache' \subseteq cache,
             part = "cache" => op[p].sess \notin cache',
             \A s \in cache' : row'[s] \in Over =>
                 row[s] \in Over \/ s = op[p].sess
      PROVE  ExcuseInv'
  <2> DEFINE o == [op[p] EXCEPT !.todo = @ \ {part}]
             s == op[p].sess
  <2>1. o.pc = "close" /\ o.sess = s /\ o.todo = op[p].todo \ {part}
    BY <1>0, <1>2 DEF Op, Returned
  <2>2. op[p].pc = "close" /\ UNCHANGED <<evicted, abandoned>>
    BY <1>2 DEF Returned
  <2>3. s \in cache' => "cache" \in op[p].todo \ {part} \/ s \in abandoned
    BY <1>0, <1>2, <2>2 DEF Serves
  <2>4. PICK new : /\ Goto(p, new) /\ new.pc \in {"idle", "close"}
                   /\ s \in cache' => s \in abandoned \cup Closing(new)
    <3>1. CASE op[p].todo = {part}
      <4>1. Goto(p, Idle) /\ (s \in cache' => s \in abandoned)
        BY <1>2, <2>3, <3>1 DEF Returned
      <4> QED
        BY <4>1 DEF Idle
    <3>2. CASE op[p].todo # {part}
      <4>1. Goto(p, o)
        BY <1>2, <3>2 DEF Returned
      <4> HIDE DEF o
      <4>2. s \in cache' => s \in abandoned \cup Closing(o)
        BY <2>1, <2>3 DEF Closing
      <4> QED
        BY <2>1, <4>1, <4>2
    <3> QED
      BY <3>1, <3>2
  <2>5. Unlisted(new)
    BY <2>4 DEF Unlisted
  <2>6. Closing(op[p]) \subseteq {s}
    BY <2>2 DEF Closing
  <2> HIDE DEF s
  <2> QED
    BY <1>2, <2>2, <2>4, <2>5, <2>6, ExcusesKept DEF s
<1>3. CASE CloseRow(p)
  BY <1>2, <1>3 DEF CloseRow, Over, TypeInv, TypeOK
<1>4. CASE CloseTokens(p)
  BY <1>2, <1>4 DEF CloseTokens
<1>5. CASE CloseCache(p)
  BY <1>2, <1>5 DEF CloseCache
<1> QED
  BY <1>1, <1>3, <1>4, <1>5 DEF CloseOne

LEMMA CloseAllExcused ==
    ASSUME TypeInv, DeadInv, ExcuseInv, NEW p \in Procs,
           CloseAll(p) \/ \E u \in Users : SweepBegin(p, u)
    PROVE  ExcuseInv'
<1>0. /\ op[p] \in Op /\ Unlisted(op[p])
      /\ op[p].pc = "sweep" /\ op[p].failed => op[p].ids \subseteq abandoned
  BY DEF TypeInv, TypeOK, ExcuseInv, DeadInv, Serves
<1>1. ASSUME NEW u \in Users, SweepBegin(p, u) PROVE ExcuseInv'
  <2> DEFINE o == [Idle EXCEPT !.pc = "sweep", !.user = u,
                               !.todo = {"list", "tokens"}]
  <2>1. o.ids = {}
    BY DEF Idle
  <2>2. /\ Goto(p, o) /\ op[p].pc = "idle"
        /\ UNCHANGED <<row, cache, evicted, abandoned>>
    BY <1>1 DEF SweepBegin, db, history
  <2> HIDE DEF o
  <2>3. Unlisted(o)
    BY <2>1 DEF Unlisted
  <2>4. Closing(op[p]) = {}
    BY <2>2, ClosesNothing
  <2> QED
    BY <2>2, <2>3, <2>4, ExcusesKept
\* The request goes on with the ids that are still in Redis.
<1>2. ASSUME NEW o, SweepGoto(p, o), op[p].pc = "sweep", o.pc = "sweep",
             Unlisted(o), evicted' = evicted, abandoned \subseteq abandoned',
             o.failed = op[p].failed, o.failed => o.ids \subseteq abandoned',
             cache' \subseteq cache,
             \A s \in op[p].ids \cap cache' : s \in o.ids,
             \A s \in cache' : row'[s] \in Over => row[s] \in Over \/ s \in o.ids
      PROVE  ExcuseInv'
  <2>1. /\ Closing(op[p]) \subseteq op[p].ids
        /\ o.ids \subseteq abandoned' \cup Closing(o)
        /\ o.failed => Closing(op[p]) = {}
    BY <1>2 DEF Closing
  <2>2. CASE o.todo = {} /\ (o.failed \/ o.ids = {})
    <3>1. Goto(p, Idle) /\ Unlisted(Idle)
      BY <1>2, <2>2 DEF SweepGoto, Idle, Unlisted
    <3> QED
      BY <1>2, <2>1, <2>2, <3>1, ExcusesKept
  <2>3. CASE ~(o.todo = {} /\ (o.failed \/ o.ids = {}))
    <3>1. Goto(p, o)
      BY <1>2, <2>3 DEF SweepGoto
    <3> QED
      BY <1>2, <2>1, <3>1, ExcusesKept
  <2> QED
    BY <2>2, <2>3
<1>3. CASE SweepList(p)
  <2> DEFINE ids  == Active(op[p].user)
             todo == (op[p].todo \ {"list"})
                        \cup (IF ids = {} THEN {} ELSE {"mark"})
             o    == [op[p] EXCEPT !.ids = ids, !.todo = todo]
  <2>1. op[p].pc = "sweep" /\ "list" \in op[p].todo
    BY <1>3 DEF SweepList
  <2>2. "list" \notin todo
    OBVIOUS
  <2>3. /\ SweepGoto(p, o) /\ UNCHANGED <<row, cache, evicted>>
        /\ abandoned \subseteq abandoned'
        /\ op[p].failed => ids \subseteq abandoned'
    BY <1>3 DEF SweepList, db
  <2> HIDE DEF todo
  <2> HIDE DEF ids
  <2>4. /\ o.pc = "sweep" /\ o.todo = todo /\ o.ids = ids
        /\ o.failed = op[p].failed
    BY <1>0, <2>1 DEF Op
  <2> HIDE DEF o
  <2>5. op[p].ids = {} /\ Unlisted(o)
    BY <1>0, <2>1, <2>2, <2>4 DEF Unlisted
  <2> QED
    BY <1>2, <2>1, <2>3, <2>4, <2>5
<1>4. CASE SweepMark(p)
  <2> DEFINE o == [op[p] EXCEPT !.todo = @ \ {"mark"}]
  <2>1. /\ SweepGoto(p, o) /\ op[p].pc = "sweep"
        /\ UNCHANGED <<cache, evicted, abandoned>>
    BY <1>4 DEF SweepMark, history
  <2>2. /\ o.pc = "sweep" /\ o.ids = op[p].ids /\ o.failed = op[p].failed
        /\ o.todo = op[p].todo \ {"mark"}
    BY <1>0, <2>1 DEF Op
  <2> HIDE DEF o
  <2>3. Unlisted(o)
    BY <1>0, <2>1, <2>2 DEF Unlisted
  <2>4. \A s \in cache' : row'[s] \in Over => row[s] \in Over \/ s \in o.ids
    BY <1>4, <2>2 DEF SweepMark, Listed, Over, TypeInv, TypeOK
  <2> QED
    BY <1>0, <1>2, <2>1, <2>2, <2>3, <2>4
<1>5. CASE SweepTokens(p)
  <2> DEFINE o == [op[p] EXCEPT !.todo = @ \ {"tokens"}]
  <2>1. /\ SweepGoto(p, o) /\ op[p].pc = "sweep"
        /\ UNCHANGED <<row, cache, evicted, abandoned>>
    BY <1>5 DEF SweepTokens, history
  <2>2. /\ o.pc = "sweep" /\ o.ids = op[p].ids /\ o.failed = op[p].failed
        /\ o.todo = op[p].todo \ {"tokens"}
    BY <1>0, <2>1 DEF Op
  <2> HIDE DEF o
  <2>3. Unlisted(o)
    BY <1>0, <2>1, <2>2 DEF Unlisted
  <2> QED
    BY <1>0, <1>2, <2>1, <2>2, <2>3
<1>6. ASSUME NEW s \in Sessions, SweepPurge(p, s) PROVE ExcuseInv'
  <2> DEFINE o == [op[p] EXCEPT !.ids = @ \ {s}]
  <2>1. /\ SweepGoto(p, o) /\ op[p].pc = "sweep" /\ op[p].todo = {}
        /\ cache' = cache \ {s} /\ UNCHANGED <<row, evicted, abandoned>>
    BY <1>6 DEF SweepPurge, db
  <2>2. /\ o.pc = "sweep" /\ o.ids = op[p].ids \ {s} /\ o.todo = {}
        /\ o.failed = op[p].failed
    BY <1>0, <2>1 DEF Op
  <2> HIDE DEF o
  <2>3. Unlisted(o)
    BY <2>2 DEF Unlisted
  <2> QED
    BY <1>0, <1>2, <2>1, <2>2, <2>3
<1> QED
  BY <1>1, <1>3, <1>4, <1>5, <1>6 DEF CloseAll

LEMMA EnvironmentExcused ==
    ASSUME TypeInv, DeadInv, ExcuseInv, Environment
    PROVE  ExcuseInv'
<1>1. ASSUME UNCHANGED <<op, evicted, abandoned>>, cache' \subseteq cache,
             \A s \in cache' : row'[s] \in Over => row[s] \in Over
      PROVE  ExcuseInv'
  BY <1>1 DEF ExcuseInv, RevokedIsDeadOrExcused, InCloseOf, Over, Unlisted
<1>2. CASE \E s \in Sessions : CacheExpire(s)
  BY <1>1, <1>2 DEF CacheExpire, db, history
<1>3. CASE \E t \in Tokens : CleanExpiredRefreshTokens(t)
  BY <1>1, <1>3 DEF CleanExpiredRefreshTokens, history
<1>4. CASE CleanOldSessions
  BY <1>1, <1>4 DEF CleanOldSessions, Over, history, TypeInv, TypeOK
<1>5. ASSUME NEW p \in Procs, Fail(p) PROVE ExcuseInv'
  <2>1. /\ Goto(p, Idle) /\ abandoned' = abandoned \cup Closing(op[p])
        /\ UNCHANGED <<cache, evicted>>
    BY <1>5 DEF Fail
  <2>2. Unlisted(Idle)
    BY DEF Idle, Unlisted
  <2>3. \A s \in cache' : row'[s] \in Over => row[s] \in Over
    BY <1>5 DEF Fail, Over, TypeInv, TypeOK
  <2> QED
    BY <2>1, <2>2, <2>3, ExcusesKept
<1>6. ASSUME NEW p \in Procs, Rejection(p) PROVE ExcuseInv'
  <2>1. UNCHANGED <<row, cache, evicted>>
    BY <1>6, RejectLessens
  <2>2. PICK new \in Op : /\ Goto(p, new) /\ Lessened(op[p], new)
                          /\ HandedOver(op[p], new)
    BY <1>6, RejectLessens
  <2>3. Unlisted(op[p])
    BY DEF ExcuseInv
  <2>4. Unlisted(new)
    BY <2>2, <2>3, IdleType DEF Lessened, Unlisted, Idle
  <2> QED
    BY <2>1, <2>2, <2>4, ExcusesKept DEF HandedOver
<1> QED
  BY <1>2, <1>3, <1>4, <1>5, <1>6 DEF Environment

LEMMA ExcuseInit == Init => ExcuseInv
BY DEF Init, ExcuseInv, RevokedIsDeadOrExcused, Unlisted, Idle

LEMMA ExcuseStep == TypeInv /\ DeadInv /\ ExcuseInv /\ [Next]_vars => ExcuseInv'
<1>1. ASSUME TypeInv, DeadInv, ExcuseInv, Next PROVE ExcuseInv'
  BY <1>1, LoginExcused, RefreshExcused, CloseOneExcused, CloseAllExcused,
     EnvironmentExcused
  DEF Next, Begin, Step
<1>2. ASSUME ExcuseInv, UNCHANGED vars PROVE ExcuseInv'
  BY <1>2 DEF vars, ExcuseInv, RevokedIsDeadOrExcused, InCloseOf, Unlisted
<1> QED
  BY <1>1, <1>2

(* A session that is over in PostgreSQL and still accepted by Redis was      *)
(* evicted, is being closed, or was given up by a request: it died, or one   *)
(* of its parallel calls was rejected while the others went on.              *)
THEOREM StoresAgreeOrExcused == Spec => []RevokedIsDeadOrExcused
<1>1. ExcuseInv => RevokedIsDeadOrExcused
  BY DEF ExcuseInv
<1> QED
  BY <1>1, Inductive, ExcuseInit, ExcuseStep, PTL DEF Spec

-----------------------------------------------------------------------------
(* The session store implements SessionAuthority.                          *)

\* A step as SessionAuthority sees it.
AuthorityStep == Authority!AbsNext \/ UNCHANGED <<Used, cache, closed>>

(* Rows may change as long as none is inserted or forgotten. *)
LEMMA UsedSame ==
    ASSUME \A s \in Sessions : row'[s] = "unused" <=> row[s] = "unused"
    PROVE  Used' = Used
BY DEF Used

LEMMA LoginImplements ==
    ASSUME TypeInv, DeadInv, NEW p \in Procs,
           Login(p) \/ \E u \in Users, d \in Devices : LoginCount(p, u, d)
    PROVE  AuthorityStep
<1>1. CASE \E u \in Users, d \in Devices : LoginCount(p, u, d)
  BY <1>1 DEF LoginCount, db, history, Used, AuthorityStep
<1>2. CASE LoginPick(p)
  BY <1>2 DEF LoginPick, db, history, Used, AuthorityStep
<1>3. CASE LoginStore(p)
  <2>1. CASE UNCHANGED <<db, cache>>
    BY <1>3, <2>1 DEF LoginStore, db, history, Used, AuthorityStep
  <2>2. CASE ~UNCHANGED <<db, cache>>
    <3>1. PICK s \in Sessions :
            /\ IsNext(s, Used)
            /\ row' = [row EXCEPT ![s] = "pending"]
            /\ cache' = cache \cup {s}
      BY <1>3, <2>2 DEF LoginStore
    <3>2. closed' = closed
      BY <1>3 DEF LoginStore, history
    <3>3. s \notin Used
      BY <3>1 DEF IsNext
    <3>4. Used' = Used \cup {s}
      BY <3>1 DEF Used, TypeInv, TypeOK
    <3>5. Authority!Open(s)
      BY <3>1, <3>2, <3>3, <3>4 DEF Authority!Open
    <3> QED
      BY <3>5 DEF AuthorityStep, Authority!AbsNext
  <2> QED
    BY <2>1, <2>2
<1>4. CASE LoginCommit(p)
  <2>1. op[p] \in Op /\ HoldsIds(op[p]) /\ Serves(op[p], row, cache, closed, abandoned)
    BY DEF TypeInv, TypeOK, DeadInv
  <2>2. row[op[p].sess] # "unused"
    BY <1>4, <2>1 DEF LoginCommit, Serves
  <2>3. \A v \in EvictedBy(op[p]) : row[v] # "unused"
    BY <1>4, <2>1 DEF LoginCommit, Serves, LoginPC, EvictedBy
  <2>4. Used' = Used
    BY <1>4, <2>2, <2>3, UsedSame DEF LoginCommit
  <2>5. UNCHANGED <<cache, closed>>
    BY <1>4 DEF LoginCommit
  <2> QED
    BY <2>4, <2>5 DEF AuthorityStep
<1> QED
  BY <1>1, <1>2, <1>3, <1>4 DEF Login

LEMMA RefreshImplements ==
    ASSUME NEW p \in Procs, Refresh(p) \/ \E t \in Tokens : RefreshFind(p, t)
    PROVE  AuthorityStep
BY DEF Refresh, RefreshFind, RefreshCheck, RefreshRevoke, RefreshCreate,
       db, history, Used, AuthorityStep

LEMMA CloseOneImplements ==
    ASSUME TypeInv, DeadInv, NEW p \in Procs,
           \/ CloseOne(p)
           \/ \E s \in Sessions : LogoutBegin(p, s)
           \/ \E c, s \in Sessions : RevokeSessionBegin(p, c, s)
    PROVE  AuthorityStep
<1>1. CASE \/ \E s \in Sessions : LogoutBegin(p, s)
           \/ \E c, s \in Sessions : RevokeSessionBegin(p, c, s)
  BY <1>1 DEF LogoutBegin, RevokeSessionBegin, db, history, Used, AuthorityStep
<1>2. CASE CloseOne(p)
  <2> DEFINE s == op[p].sess
  <2>1. op[p].pc = "close"
    BY <1>2 DEF CloseOne, CloseRow, CloseTokens, CloseCache, Returned
  <2>2. s \in Used
    BY <2>1 DEF TypeInv, HoldsIds, DeadInv, Serves, Used
  <2>3. Used' = Used
    BY <1>2, UsedSame DEF CloseOne, CloseRow, CloseTokens, CloseCache, TypeInv, TypeOK
  <2>4. \/ cache' = cache
        \/ cache' = cache \ {s}
    BY <1>2 DEF CloseOne, CloseRow, CloseTokens, CloseCache
  <2>5. closed' = closed \/ closed' = closed \cup {s}
    BY <1>2 DEF CloseOne, CloseRow, CloseTokens, CloseCache, Returned
  <2>6. closed' # closed => s \notin cache'
    <3>1. Serves(op[p], row, cache, closed, abandoned)
      BY DEF DeadInv
    <3>2. closed' # closed => ~op[p].failed
      BY <1>2 DEF CloseOne, CloseRow, CloseTokens, CloseCache, Returned
    <3>3. CASE "cache" \notin op[p].todo
      BY <2>1, <2>4, <3>1, <3>2, <3>3 DEF Serves
    <3>4. CASE "cache" \in op[p].todo
      BY <1>2, <3>4
      DEF CloseOne, CloseRow, CloseTokens, CloseCache, Returned
    <3> QED
      BY <3>3, <3>4
  <2>7. CASE closed' = closed /\ s \notin cache
    BY <2>3, <2>4, <2>7 DEF AuthorityStep
  <2>8. CASE closed' = closed /\ s \in cache
    <3>1. Authority!Lapse(s) \/ UNCHANGED <<Used, cache, closed>>
      BY <2>3, <2>4, <2>8 DEF Authority!Lapse
    <3> QED
      BY <2>2, <3>1 DEF AuthorityStep, Authority!AbsNext, Used
  <2>9. CASE closed' # closed
    <3>1. Authority!Close(s)
      BY <2>2, <2>3, <2>4, <2>5, <2>6, <2>9 DEF Authority!Close
    <3> QED
      BY <2>2, <3>1 DEF AuthorityStep, Authority!AbsNext, Used
  <2> QED
    BY <2>7, <2>8, <2>9
<1> QED
  BY <1>1, <1>2

LEMMA CloseAllImplements ==
    ASSUME TypeInv, DeadInv, NEW p \in Procs,
           CloseAll(p) \/ \E u \in Users : SweepBegin(p, u)
    PROVE  AuthorityStep
<1>1. CASE \/ SweepList(p) \/ SweepTokens(p)
           \/ \E u \in Users : SweepBegin(p, u)
  BY <1>1 DEF SweepList, SweepTokens, SweepBegin, db, history, Used, AuthorityStep
<1>2. CASE SweepMark(p)
  <2>1. Used' = Used
    BY <1>2, UsedSame DEF SweepMark
  <2> QED
    BY <1>2, <2>1 DEF SweepMark, history, AuthorityStep
<1>3. ASSUME NEW s \in Sessions, SweepPurge(p, s) PROVE AuthorityStep
  <2>1. s \in Used
    BY <1>3 DEF SweepPurge, DeadInv, Serves, Used
  <2>2. Used' = Used
    BY <1>3 DEF SweepPurge, db, Used
  <2>3. Authority!Close(s)
    BY <1>3, <2>1, <2>2 DEF SweepPurge, Authority!Close
  <2> QED
    BY <2>3 DEF AuthorityStep, Authority!AbsNext
<1> QED
  BY <1>1, <1>2, <1>3 DEF CloseAll

LEMMA EnvironmentImplements ==
    ASSUME TypeInv, DeadInv, Environment
    PROVE  AuthorityStep
<1>1. ASSUME NEW s \in Sessions, CacheExpire(s) PROVE AuthorityStep
  <2>1. Authority!Lapse(s)
    BY <1>1 DEF CacheExpire, db, history, Used, Authority!Lapse
  <2> QED
    BY <2>1 DEF AuthorityStep, Authority!AbsNext
<1>2. CASE \E t \in Tokens : CleanExpiredRefreshTokens(t)
  BY <1>2 DEF CleanExpiredRefreshTokens, history, Used, AuthorityStep
<1>3. CASE CleanOldSessions
  <2>1. Used' = Used
    BY <1>3, UsedSame DEF CleanOldSessions
  <2> QED
    BY <1>3, <2>1 DEF CleanOldSessions, history, AuthorityStep
<1>4. ASSUME NEW p \in Procs, Fail(p) PROVE AuthorityStep
  <2>1. op[p].pc = "commit" => row[op[p].sess] # "unused"
    BY DEF DeadInv, Serves
  <2>2. Used' = Used
    BY <1>4, <2>1, UsedSame DEF Fail, TypeInv, TypeOK
  <2> QED
    BY <1>4, <2>2 DEF Fail, AuthorityStep
<1>5. ASSUME NEW p \in Procs, Rejection(p) PROVE AuthorityStep
  BY <1>5, RejectLessens DEF AuthorityStep, Used
<1> QED
  BY <1>1, <1>2, <1>3, <1>4, <1>5 DEF Environment

(* Every step of the session store is a step of SessionAuthority or none:   *)
(* an id becomes valid once, at its login, and never again after it ended.  *)
THEOREM Refinement == Spec => AuthoritySpec
<1>1. Init => Authority!AbsInit
  BY DEF Init, Authority!AbsInit, Used
<1>2. TypeInv /\ DeadInv /\ [Next]_vars
          => [Authority!AbsNext]_<<Used, cache, closed>>
  <2>1. ASSUME TypeInv, DeadInv, Next PROVE AuthorityStep
    BY <2>1, LoginImplements, RefreshImplements, CloseOneImplements,
       CloseAllImplements, EnvironmentImplements
    DEF Next, Begin, Step
  <2>2. ASSUME UNCHANGED vars PROVE UNCHANGED <<Used, cache, closed>>
    BY <2>2 DEF vars, Used
  <2> QED
    BY <2>1, <2>2 DEF AuthorityStep
<1> QED
  BY <1>1, <1>2, Inductive, PTL
  DEF Spec, AuthoritySpec, Authority!AbsSpec, Authority!absVars

-----------------------------------------------------------------------------
(* Families.  A token keeps the session, family and parent it was inserted  *)
(* with, and its state only moves towards "deleted"; so what matters is what *)
(* a request knows of the token it presents when it inserts the successor.  *)

\* A token not yet issued is blank, an issued one has a family.
Founded(t) == IF token[t].state = "unused"
              THEN token[t].session = NoSession /\ token[t].parent = NoToken
              ELSE token[t].family \in Tokens

\* What a refresh holds when the table is k.
Presents(o, k) ==
    /\ o.pc \in RefreshPC => /\ k[o.tok].state # "unused"
                             /\ k[o.tok].session = o.sess
    /\ o.pc = "create" => k[o.tok].state # "live"

TokenInv ==
    /\ FamilyOneSession /\ ExchangedTokenIsRetired
    /\ \A t \in Tokens : Founded(t)
    /\ \A t \in Tokens : token[t].parent # NoToken
                            => token[token[t].parent].state # "unused"
    /\ \A p \in Procs : Presents(op[p], token)

\* Tokens only grow old.
Ages(t) == /\ token'[t].session = token[t].session
           /\ token'[t].family  = token[t].family
           /\ token'[t].parent  = token[t].parent
           /\ token'[t].state = "unused" <=> token[t].state = "unused"
           /\ token'[t].state = "live" => token[t].state = "live"

\* Requests stay where they are or hold what they should.
Presenting == \A q \in Procs :
    \/ op'[q] = op[q]
    \/ op'[q].pc \notin RefreshPC
    \/ Presents(op'[q], token')

(* A request that stays put still holds what it should when tokens age. *)
LEMMA StillPresents ==
    ASSUME TypeInv, NEW o \in Op, HoldsIds(o), Presents(o, token),
           \A t \in Tokens : Ages(t)
    PROVE  Presents(o, token')
BY DEF Presents, HoldsIds, Ages, RefreshPC

(* A step in which tokens grow old and none is issued. *)
LEMMA TokensAge ==
    ASSUME TypeInv, TypeInv', TokenInv, \A t \in Tokens : Ages(t), Presenting
    PROVE  TokenInv'
<1>1. \A t \in Tokens : /\ token[t].parent \in Tokens \cup {NoToken}
                        /\ token[t].family \in Tokens \cup {NoToken}
  BY DEF TypeInv, TypeOK, TokenRow
<1>2. \A t \in Tokens : Founded(t)'
  BY DEF TokenInv, Founded, Ages
<1>3. FamilyOneSession'
  BY DEF TokenInv, FamilyOneSession, Founded, Ages
<1>4. ExchangedTokenIsRetired'
  BY <1>1 DEF TokenInv, ExchangedTokenIsRetired, Ages
<1>5. \A t \in Tokens : token'[t].parent # NoToken
                           => token'[token'[t].parent].state # "unused"
  BY <1>1 DEF TokenInv, Ages
<1>6. ASSUME NEW q \in Procs PROVE Presents(op[q], token)'
  <2>1. op[q] \in Op /\ HoldsIds(op[q]) /\ Presents(op[q], token)
    BY DEF TypeInv, TypeOK, TokenInv
  <2>2. CASE op'[q] = op[q]
    BY <2>1, <2>2, StillPresents
  <2>3. CASE op'[q].pc \notin RefreshPC
    BY <2>3 DEF Presents, RefreshPC
  <2> QED
    BY <2>2, <2>3 DEF Presenting
<1> QED
  BY <1>2, <1>3, <1>4, <1>5, <1>6 DEF TokenInv

(* A step that issues token n. *)
LEMMA TokenIssued ==
    ASSUME TypeInv, TypeInv', TokenInv, NEW n \in Tokens, NEW r \in TokenRow,
           token[n].state = "unused", token' = [token EXCEPT ![n] = r],
           r.state = "live",
           \/ r.family = n
           \/ /\ r.family \in Tokens /\ token[r.family].state # "unused"
              /\ token[r.family].session = r.session,
           r.parent = NoToken \/ token[r.parent].state \notin {"unused", "live"},
           \A q \in Procs : op'[q] = op[q] \/ op'[q].pc \notin RefreshPC
    PROVE  TokenInv'
<1>1. \A t \in Tokens : /\ token[t].parent \in Tokens \cup {NoToken}
                        /\ token[t].family \in Tokens \cup {NoToken}
                        /\ token'[t] = IF t = n THEN r ELSE token[t]
  BY DEF TypeInv, TypeOK, TokenRow
<1>2. r.parent \in Tokens \cup {NoToken}
  BY DEF TokenRow
<1>3. \A t \in Tokens : Founded(t)'
  BY <1>1 DEF TokenInv, Founded
<1>4. FamilyOneSession'
  BY <1>1 DEF TokenInv, FamilyOneSession, Founded
<1>5. ASSUME NEW t \in Tokens, token'[t].parent # NoToken
      PROVE  token'[token'[t].parent].state \notin {"unused", "live"}
  <2>1. CASE t = n
    BY <1>1, <1>2, <1>5, <2>1
  <2>2. CASE t # n
    BY <1>1, <1>5, <2>2 DEF TokenInv, ExchangedTokenIsRetired
  <2> QED
    BY <2>1, <2>2
<1>6. ASSUME NEW q \in Procs PROVE Presents(op[q], token)'
  <2>1. op[q] \in Op /\ HoldsIds(op[q]) /\ Presents(op[q], token)
    BY DEF TypeInv, TypeOK, TokenInv
  <2>2. CASE op'[q] = op[q]
    BY <1>1, <2>1, <2>2 DEF Presents, HoldsIds, RefreshPC
  <2>3. CASE op'[q].pc \notin RefreshPC
    BY <2>3 DEF Presents, RefreshPC
  <2> QED
    BY <2>2, <2>3
<1> QED
  BY <1>3, <1>4, <1>5, <1>6 DEF TokenInv, ExchangedTokenIsRetired

(* Revoking tokens lets them age. *)
LEMMA RevokeAges ==
    ASSUME TypeInv, NEW S, Revoke(S)
    PROVE  \A t \in Tokens : Ages(t)
BY DEF TypeInv, TypeOK, Revoke, TokenRow, Ages

(* A request that is at no step of a refresh leaves the others presenting. *)
LEMMA GotoPresents ==
    ASSUME TypeInv, NEW p \in Procs, NEW new, Goto(p, new),
           new.pc \notin RefreshPC \/ Presents(new, token')
    PROVE  Presenting
BY DEF TypeInv, TypeOK, Goto, Presenting

(* The same when it is over. *)
LEMMA IdlePresents ==
    ASSUME TypeInv, NEW p \in Procs, Goto(p, Idle)
    PROVE  Presenting /\ \A q \in Procs : op'[q] = op[q] \/ op'[q].pc = "idle"
BY DEF TypeInv, TypeOK, Goto, Presenting, Idle, RefreshPC

(* A token that no step touches does not age. *)
LEMMA SameAges == ASSUME token' = token PROVE \A t \in Tokens : Ages(t)
BY DEF Ages

LEMMA LoginTokens ==
    ASSUME TypeInv, TypeInv', TokenInv, NEW p \in Procs,
           Login(p) \/ \E u \in Users, d \in Devices : LoginCount(p, u, d)
    PROVE  TokenInv'
<1>0. op[p] \in Op /\ HoldsIds(op[p])
  BY DEF TypeInv, TypeOK
<1>1. ASSUME token' = token, NEW new, Goto(p, new), new.pc \notin RefreshPC
      PROVE  TokenInv'
  BY <1>1, SameAges, GotoPresents, TokensAge
<1>2. ASSUME NEW u \in Users, NEW d \in Devices, LoginCount(p, u, d)
      PROVE  TokenInv'
  <2> DEFINE new == [Idle EXCEPT !.user = u, !.device = d,
                            !.pc = IF Full(u) THEN "pick" ELSE "store"]
  <2>1. new.pc \notin RefreshPC
    BY DEF Idle, RefreshPC
  <2>2. Goto(p, new) /\ token' = token
    BY <1>2 DEF LoginCount, db
  <2> HIDE DEF new
  <2> QED
    BY <1>1, <2>1, <2>2
<1>3. CASE LoginPick(p)
  <2>1. PICK v \in Sessions \cup {NoSession} :
           \/ Goto(p, [op[p] EXCEPT !.pc = "store"])
           \/ Goto(p, [op[p] EXCEPT !.pc = "store", !.victim = v])
    BY <1>3 DEF LoginPick, Active
  <2>2. /\ [op[p] EXCEPT !.pc = "store"].pc \notin RefreshPC
        /\ [op[p] EXCEPT !.pc = "store", !.victim = v].pc \notin RefreshPC
    BY <1>0 DEF Op, RefreshPC
  <2>3. token' = token
    BY <1>3 DEF LoginPick, db
  <2> QED
    BY <1>1, <2>1, <2>2, <2>3
<1>4. CASE LoginStore(p)
  <2>1. PICK s \in Sessions \cup {NoSession} :
           Goto(p, Idle) \/ Goto(p, [op[p] EXCEPT !.pc = "commit", !.sess = s])
    BY <1>4 DEF LoginStore
  <2>2. /\ Idle.pc \notin RefreshPC
        /\ [op[p] EXCEPT !.pc = "commit", !.sess = s].pc \notin RefreshPC
    BY <1>0 DEF Op, Idle, RefreshPC
  <2>3. token' = token
    BY <1>4 DEF LoginStore, db
  <2> QED
    BY <1>1, <2>1, <2>2, <2>3
<1>5. CASE LoginCommit(p)
  <2>1. PICK t \in Tokens :
           /\ IsNext(t, Issued)
           /\ token' = [token EXCEPT ![t] = FirstToken(t, op[p].sess)]
    BY <1>5 DEF LoginCommit
  <2>2. token[t].state = "unused"
    BY <2>1 DEF IsNext, Issued
  <2>3. \A q \in Procs : op'[q] = op[q] \/ op'[q].pc \notin RefreshPC
    BY <1>5, IdlePresents DEF LoginCommit, RefreshPC
  <2> DEFINE r == FirstToken(t, op[p].sess)
  <2>4. /\ r \in TokenRow /\ r.state = "live" /\ r.family = t
        /\ r.parent = NoToken
    BY <1>0, <1>5 DEF FirstToken, TokenRow, TokenState, HoldsIds, LoginCommit
  <2> HIDE DEF r
  <2>5. token' = [token EXCEPT ![t] = r]
    BY <2>1 DEF r
  <2> QED
    BY <2>2, <2>3, <2>4, <2>5, TokenIssued
<1> QED
  BY <1>2, <1>3, <1>4, <1>5 DEF Login

LEMMA RefreshTokens ==
    ASSUME TypeInv, TypeInv', TokenInv, NEW p \in Procs,
           Refresh(p) \/ \E t \in Tokens : RefreshFind(p, t)
    PROVE  TokenInv'
<1>0. op[p] \in Op /\ HoldsIds(op[p]) /\ Presents(op[p], token)
  BY DEF TypeInv, TypeOK, TokenInv
<1>1. ASSUME NEW t \in Tokens, RefreshFind(p, t)
      PROVE  TokenInv'
  <2> DEFINE s   == token[t].session
             chk == [Idle EXCEPT !.pc = "check", !.tok = t, !.sess = s,
                                 !.late = s \in closed]
             cls == [Idle EXCEPT !.pc = "close", !.tok = t, !.sess = s,
                                 !.todo = {"tokens", "cache"}]
  <2>1. chk.pc = "check" /\ chk.tok = t /\ chk.sess = s /\ cls.pc = "close"
    BY DEF Idle
  <2>2. token' = token /\ token[t].state # "unused"
    BY <1>1 DEF RefreshFind, db
  <2>3. Goto(p, chk) \/ Goto(p, cls)
    BY <1>1 DEF RefreshFind
  <2> HIDE DEF chk, cls
  <2>4. Presents(chk, token') /\ cls.pc \notin RefreshPC
    BY <2>1, <2>2 DEF Presents, RefreshPC
  <2>5. Presenting
    BY <2>3, <2>4, GotoPresents
  <2> QED
    BY <2>2, <2>5, SameAges, TokensAge
<1>2. CASE RefreshCheck(p)
  <2> DEFINE new == [op[p] EXCEPT !.pc = "revoke"]
  <2>1. new.pc = "revoke" /\ new.tok = op[p].tok /\ new.sess = op[p].sess
    BY <1>0 DEF Op
  <2>2. /\ token' = token /\ op[p].pc = "check"
        /\ Goto(p, new) \/ Goto(p, Idle)
    BY <1>2 DEF RefreshCheck, db
  <2> HIDE DEF new
  <2>3. Presents(new, token')
    BY <1>0, <2>1, <2>2 DEF Presents, RefreshPC
  <2>4. Presenting
    BY <2>2, <2>3, GotoPresents, IdlePresents
  <2> QED
    BY <2>2, <2>4, SameAges, TokensAge
<1>3. CASE RefreshRevoke(p)
  <2> DEFINE new == [op[p] EXCEPT !.pc = "create"]
  <2>1. new.pc = "create" /\ new.tok = op[p].tok /\ new.sess = op[p].sess
    BY <1>0 DEF Op
  <2>2. /\ op[p].pc = "revoke" /\ Revoke(Presented(op[p]))
        /\ Goto(p, new) \/ Goto(p, Idle)
    BY <1>3 DEF RefreshRevoke
  <2> HIDE DEF new
  <2>3. /\ op[p].tok \in Tokens /\ token[op[p].tok].state # "unused"
        /\ token[op[p].tok].session = op[p].sess
    BY <1>0, <2>2 DEF Presents, RefreshPC, HoldsIds
  <2>4. \A t \in Tokens : Ages(t)
    BY <2>2, RevokeAges
  <2>5. token'[op[p].tok].state # "live"
    BY <2>2, <2>3 DEF Revoke, Presented, TypeInv, TypeOK, TokenRow
  <2>6. Presents(new, token')
    BY <2>1, <2>3, <2>4, <2>5 DEF Presents, Ages
  <2>7. Presenting
    BY <2>2, <2>6, GotoPresents, IdlePresents
  <2> QED
    BY <2>4, <2>7, TokensAge
<1>4. CASE RefreshCreate(p)
  <2> DEFINE t    == op[p].tok
             succ == [state  |-> "live", session |-> op[p].sess,
                      family |-> token[t].family, parent |-> t]
  <2>1. Goto(p, Idle) /\ op[p].pc = "create"
    BY <1>4 DEF RefreshCreate
  <2>2. Presenting /\ \A q \in Procs : op'[q] = op[q] \/ op'[q].pc \notin RefreshPC
    BY <2>1, IdlePresents DEF RefreshPC
  <2>3. CASE token' = token
    BY <2>2, <2>3, SameAges, TokensAge
  <2>4. CASE token' # token
    <3>1. PICK n \in Tokens : /\ IsNext(n, Issued)
                              /\ token' = [token EXCEPT ![n] = succ]
      BY <1>4, <2>4 DEF RefreshCreate
    <3>2. token[n].state = "unused"
      BY <3>1 DEF IsNext, Issued
    <3>3. /\ t \in Tokens /\ op[p].sess \in Sessions
          /\ token[t].state \notin {"unused", "live"}
          /\ token[t].session = op[p].sess
      BY <1>0, <2>1 DEF Presents, HoldsIds, RefreshPC
    <3>4. /\ token[t].family \in Tokens
          /\ token[token[t].family].state # "unused"
          /\ token[token[t].family].session = op[p].sess
      BY <3>3 DEF TokenInv, FamilyOneSession, Founded
    <3>5. succ \in TokenRow
      BY <3>3, <3>4 DEF TokenRow, TokenState
    <3>6. /\ succ.state = "live" /\ succ.session = op[p].sess
          /\ succ.family = token[t].family /\ succ.parent = t
      OBVIOUS
    <3> HIDE DEF succ
    <3> QED
      BY <2>2, <3>1, <3>2, <3>3, <3>4, <3>5, <3>6, TokenIssued
  <2> QED
    BY <2>3, <2>4
<1> QED
  BY <1>1, <1>2, <1>3, <1>4 DEF Refresh

LEMMA CloseTokensOk ==
    ASSUME TypeInv, TypeInv', TokenInv, NEW p \in Procs,
           \/ CloseOne(p) \/ CloseAll(p)
           \/ \E s \in Sessions : LogoutBegin(p, s)
           \/ \E c, s \in Sessions : RevokeSessionBegin(p, c, s)
           \/ \E u \in Users : SweepBegin(p, u)
    PROVE  TokenInv'
<1>0. op[p] \in Op
  BY DEF TypeInv, TypeOK
<1>1. \A t \in Tokens : Ages(t)
  BY RevokeAges, SameAges
  DEF CloseOne, CloseRow, CloseTokens, CloseCache, CloseAll, SweepList,
      SweepMark, SweepTokens, SweepPurge, LogoutBegin, RevokeSessionBegin,
      SweepBegin, db
<1>2. Presenting
  <2>1. ASSUME NEW part, Returned(p, part) PROVE Presenting
    <3> DEFINE new == [op[p] EXCEPT !.todo = @ \ {part}]
    <3>1. new.pc = "close"
      BY <1>0, <2>1 DEF Returned, Op
    <3>2. Goto(p, new) \/ Goto(p, Idle)
      BY <2>1 DEF Returned
    <3> HIDE DEF new
    <3> QED
      BY <3>1, <3>2, GotoPresents, IdlePresents DEF RefreshPC
  <2>2. CASE CloseOne(p)
    BY <2>1, <2>2 DEF CloseOne, CloseRow, CloseTokens, CloseCache
  <2>3. CASE CloseAll(p)
    <3>1. PICK ids, todo :
            \/ SweepGoto(p, [op[p] EXCEPT !.ids = ids, !.todo = todo])
            \/ SweepGoto(p, [op[p] EXCEPT !.todo = todo])
            \/ SweepGoto(p, [op[p] EXCEPT !.ids = ids])
      BY <2>3 DEF CloseAll, SweepList, SweepMark, SweepTokens, SweepPurge
    <3>2. op[p].pc = "sweep"
      BY <2>3 DEF CloseAll, SweepList, SweepMark, SweepTokens, SweepPurge
    <3>3. /\ [op[p] EXCEPT !.ids = ids, !.todo = todo].pc \notin RefreshPC
          /\ [op[p] EXCEPT !.todo = todo].pc \notin RefreshPC
          /\ [op[p] EXCEPT !.ids = ids].pc \notin RefreshPC
      BY <1>0, <3>2 DEF Op, RefreshPC
    <3>4. \A new : SweepGoto(p, new) => Goto(p, new) \/ Goto(p, Idle)
      BY DEF SweepGoto
    <3> QED
      BY <3>1, <3>3, <3>4, GotoPresents, IdlePresents
  <2>4. CASE \/ \E s \in Sessions : LogoutBegin(p, s)
             \/ \E c, s \in Sessions : RevokeSessionBegin(p, c, s)
    <3>1. PICK s \in Sessions : Goto(p, Close(s))
      BY <2>4 DEF LogoutBegin, RevokeSessionBegin
    <3>2. Close(s).pc \notin RefreshPC
      BY DEF Close, Idle, RefreshPC
    <3> QED
      BY <3>1, <3>2, GotoPresents
  <2>5. CASE \E u \in Users : SweepBegin(p, u)
    <3>1. PICK u \in Users : Goto(p, [Idle EXCEPT !.pc = "sweep", !.user = u,
                                         !.todo = {"list", "tokens"}])
      BY <2>5 DEF SweepBegin
    <3>2. [Idle EXCEPT !.pc = "sweep", !.user = u,
                       !.todo = {"list", "tokens"}].pc \notin RefreshPC
      BY DEF Idle, RefreshPC
    <3> QED
      BY <3>1, <3>2, GotoPresents
  <2> QED
    BY <2>2, <2>3, <2>4, <2>5
<1> QED
  BY <1>1, <1>2, TokensAge

LEMMA EnvironmentTokens ==
    ASSUME TypeInv, TypeInv', TokenInv, Environment
    PROVE  TokenInv'
<1>1. \A t \in Tokens : Ages(t)
  <2>1. CASE \E x \in Tokens : CleanExpiredRefreshTokens(x)
    BY <2>1 DEF CleanExpiredRefreshTokens, Ages, TypeInv, TypeOK, TokenRow
  <2>2. CASE CleanOldSessions
    <3>1. \A t \in Tokens : token[t].state = "unused"
                               => token[t].session \notin Sessions
      BY DEF TokenInv, Founded, NoSession, Sessions
    <3> QED
      BY <2>2, <3>1 DEF CleanOldSessions, Ages, TypeInv, TypeOK, TokenRow
  <2>3. CASE \/ \E s \in Sessions : CacheExpire(s)
             \/ \E p \in Procs : Fail(p)
    BY <2>3, SameAges DEF CacheExpire, Fail, db
  <2>4. CASE \E p \in Procs : Rejection(p)
    BY <2>4, SameAges, RejectLessens
  <2> QED
    BY <2>1, <2>2, <2>3, <2>4 DEF Environment
<1>2. Presenting
  <2>1. ASSUME NEW p \in Procs, Fail(p) PROVE Presenting
    BY <2>1, IdlePresents DEF Fail
  <2>2. CASE op' = op
    BY <2>2 DEF Presenting
  <2>3. ASSUME NEW p \in Procs, Rejection(p) PROVE Presenting
    <3>1. PICK new \in Op : Goto(p, new) /\ Lessened(op[p], new)
      BY <2>3, RejectLessens
    <3>2. op[p].pc \in {"close", "sweep"}
      BY <2>3, RejectLessens
    <3>3. new = Idle \/ new.pc \notin RefreshPC
      BY <3>1, <3>2 DEF Lessened, RefreshPC
    <3> QED
      BY <3>1, <3>3, GotoPresents, IdlePresents
  <2> QED
    BY <2>1, <2>2, <2>3
    DEF Environment, CacheExpire, CleanExpiredRefreshTokens, CleanOldSessions
<1> QED
  BY <1>1, <1>2, TokensAge

LEMMA TokenInit == Init => TokenInv
BY DEF Init, TokenInv, FamilyOneSession, ExchangedTokenIsRetired, Founded,
       Presents, FreshToken, Idle, RefreshPC

LEMMA TokenStep == TypeInv /\ TokenInv /\ [Next]_vars => TokenInv'
<1>1. ASSUME TypeInv, TokenInv, TypeInv', Next PROVE TokenInv'
  BY <1>1, LoginTokens, RefreshTokens, CloseTokensOk, EnvironmentTokens
  DEF Next, Begin, Step
<1>2. ASSUME TokenInv, UNCHANGED vars PROVE TokenInv'
  BY <1>2 DEF vars, TokenInv, FamilyOneSession, ExchangedTokenIsRetired,
              Founded, Presents
<1> QED
  BY <1>1, <1>2, TypeStep

LEMMA TokensSound == Spec => []TokenInv
BY TypeInit, TypeStep, TokenInit, TokenStep, PTL DEF Spec

(* The tokens of a family belong to one session, so answering the reuse of  *)
(* a token by revoking its family touches no other session.                 *)
THEOREM OneSessionPerFamily == Spec => []FamilyOneSession
<1>1. TokenInv => FamilyOneSession
  BY DEF TokenInv
<1> QED
  BY <1>1, TokensSound, PTL

(* A token and the one it was exchanged for are never live together, even  *)
(* when two refreshes present it at once.                                   *)
THEOREM ExchangeRetires == Spec => []ExchangedTokenIsRetired
<1>1. TokenInv => ExchangedTokenIsRetired
  BY DEF TokenInv
<1> QED
  BY <1>1, TokensSound, PTL

-----------------------------------------------------------------------------
(* The limit on the sessions of a user who has one device.  The lock on the *)
(* row of the device keeps his logins apart, and between the count and the  *)
(* commit of one of them the other requests only end sessions.              *)

OneDevice == IsFiniteSet(Devices) /\ Cardinality(Devices) = 1

\* Active(u) when the rows are r and their owners w.
ActiveIn(r, w, u) == {s \in Sessions : r[s] = "active" /\ w[s] = u}

\* Once a login o has decided whom to evict, there is room for its session.
HasRoom(o, r, w) ==
    /\ o.pc \in LoginPC => o.user \in Users /\ o.device \in Devices
    /\ o.pc \in {"store", "commit"} =>
          Cardinality(ActiveIn(r, w, o.user) \ {o.victim}) < MaxActive
    /\ o.pc = "commit" => w[o.sess] = o.user

CapInv ==
    /\ \A u \in Users : Cardinality(ActiveIn(row, owner, u)) <= MaxActive
    /\ \A p \in Procs : HasRoom(op[p], row, owner)
    /\ \A p, q \in Procs :
          op[p].pc \in LoginPC /\ op[q].pc \in LoginPC
             /\ op[p].user = op[q].user => p = q

\* User u has no more sessions than before.
NoneAdded(u) == ActiveIn(row', owner', u) \subseteq ActiveIn(row, owner, u)

(* A part of the sessions is no larger than the whole. *)
LEMMA Fewer ==
    ASSUME NEW S \in SUBSET Sessions, NEW T \in SUBSET S
    PROVE  /\ Cardinality(T) <= Cardinality(S)
           /\ Cardinality(S) \in Nat /\ Cardinality(T) \in Nat
           /\ IsFiniteSet(S)
<1>1. IsFiniteSet(Sessions)
  BY FS_Interval DEF Sessions
<1>2. IsFiniteSet(S)
  BY <1>1, FS_Subset
<1>3. IsFiniteSet(T)
  BY <1>2, FS_Subset
<1>4. Cardinality(T) <= Cardinality(S)
  BY <1>2, FS_Subset
<1> QED
  BY <1>2, <1>3, <1>4, FS_CardinalityType

(* A login that stays put keeps its room when no session is added. *)
LEMMA StillRoom ==
    ASSUME NEW o, HasRoom(o, row, owner), NoneAdded(o.user),
           o.pc = "commit" => owner'[o.sess] = owner[o.sess]
    PROVE  HasRoom(o, row', owner')
<1> DEFINE S == ActiveIn(row, owner, o.user) \ {o.victim}
           T == ActiveIn(row', owner', o.user) \ {o.victim}
<1>1. S \in SUBSET Sessions /\ T \in SUBSET S
  BY DEF NoneAdded, ActiveIn
<1>2. Cardinality(T) <= Cardinality(S) /\ Cardinality(S) \in Nat /\ Cardinality(T) \in Nat
  <2> HIDE DEF S, T
  <2> QED
    BY <1>1, Fewer
<1>3. CASE o.pc \in {"store", "commit"}
  <2>1. Cardinality(S) < MaxActive
    BY <1>3 DEF HasRoom
  <2>2. Cardinality(T) < MaxActive
    <3> HIDE DEF S, T
    <3> QED
      BY <1>2, <2>1
  <2> QED
    BY <1>3, <2>2 DEF HasRoom
<1>4. CASE o.pc \notin {"store", "commit"}
  BY <1>4 DEF HasRoom
<1> QED
  BY <1>3, <1>4

(* A user with no more sessions than before is within the limit. *)
LEMMA StillWithin ==
    ASSUME CapInv, NEW u \in Users, NoneAdded(u)
    PROVE  Cardinality(ActiveIn(row', owner', u)) <= MaxActive
<1> DEFINE S == ActiveIn(row, owner, u)
           T == ActiveIn(row', owner', u)
<1>1. S \in SUBSET Sessions /\ T \in SUBSET S
  BY DEF NoneAdded, ActiveIn
<1>2. Cardinality(S) <= MaxActive
  BY DEF CapInv
<1> HIDE DEF S, T
<1>3. Cardinality(T) <= MaxActive
  BY <1>1, <1>2, Fewer
<1> QED
  BY <1>3 DEF T

(* A step that adds neither a session nor a login. *)
LEMMA CapShrinks ==
    ASSUME TypeInv, CapInv, \A u : NoneAdded(u), owner' = owner,
           \A q \in Procs : op'[q] = op[q] \/ op'[q].pc \notin LoginPC
    PROVE  CapInv'
<1>1. \A u \in Users : Cardinality(ActiveIn(row', owner', u)) <= MaxActive
  BY StillWithin
<1>2. ASSUME NEW q \in Procs PROVE HasRoom(op'[q], row', owner')
  <2>1. CASE op'[q] = op[q]
    <3>1. HasRoom(op[q], row, owner)
      BY DEF CapInv
    <3>2. HasRoom(op[q], row', owner')
      BY <3>1, StillRoom
    <3> QED
      BY <2>1, <3>2
  <2>2. CASE op'[q].pc \notin LoginPC
    BY <2>2 DEF HasRoom, LoginPC
  <2> QED
    BY <2>1, <2>2
<1>3. \A p, q \in Procs :
          op'[p].pc \in LoginPC /\ op'[q].pc \in LoginPC
             /\ op'[p].user = op'[q].user => p = q
  BY DEF CapInv
<1> QED
  BY <1>1, <1>2, <1>3 DEF CapInv

(* A step of p that adds no session, in which p goes on with its login. *)
LEMMA CapGoes ==
    ASSUME TypeInv, CapInv, \A u : NoneAdded(u), NEW p \in Procs, NEW new, Goto(p, new),
           HasRoom(new, row', owner'),
           \A q \in Procs : q # p /\ op[q].pc = "commit"
                               => owner'[op[q].sess] = owner[op[q].sess],
           \A q \in Procs : q # p /\ op[q].pc \in LoginPC
                               => op[q].user # new.user
    PROVE  CapInv'
<1>1. \A q \in Procs : op'[q] = IF q = p THEN new ELSE op[q]
  BY DEF TypeInv, TypeOK, Goto
<1>2. \A u \in Users : Cardinality(ActiveIn(row', owner', u)) <= MaxActive
  BY StillWithin
<1>3. ASSUME NEW q \in Procs PROVE HasRoom(op'[q], row', owner')
  <2>1. CASE q # p
    <3>1. HasRoom(op[q], row, owner)
      BY DEF CapInv
    <3>2. HasRoom(op[q], row', owner')
      BY <2>1, <3>1, StillRoom
    <3> QED
      BY <1>1, <2>1, <3>2
  <2> QED
    BY <1>1, <2>1
<1>4. \A q, x \in Procs :
          op'[q].pc \in LoginPC /\ op'[x].pc \in LoginPC
             /\ op'[q].user = op'[x].user => q = x
  BY <1>1 DEF CapInv
<1> QED
  BY <1>2, <1>3, <1>4 DEF CapInv

(* With one device a login that holds its lock is the only one of its user. *)
LEMMA TheDevice ==
    ASSUME OneDevice, NEW d \in Devices, NEW e \in Devices
    PROVE  d = e
<1>1. PICK x : Devices = {x}
  BY FS_Singleton DEF OneDevice
<1> QED
  BY <1>1

LEMMA LoginCap ==
    ASSUME TypeInv, DeadInv, CapInv, OneDevice, NEW p \in Procs,
           Login(p) \/ \E u \in Users, d \in Devices : LoginCount(p, u, d)
    PROVE  CapInv'
<1>0. /\ op[p] \in Op /\ HoldsIds(op[p])
      /\ HasRoom(op[p], row, owner)
  BY DEF TypeInv, TypeOK, CapInv
<1>1. ASSUME NEW u \in Users, NEW d \in Devices, LoginCount(p, u, d)
      PROVE  CapInv'
  <2> DEFINE new == [Idle EXCEPT !.user = u, !.device = d,
                            !.pc = IF Full(u) THEN "pick" ELSE "store"]
  <2>1. /\ new.user = u /\ new.device = d /\ new.victim = NoSession
        /\ new.pc = IF Full(u) THEN "pick" ELSE "store"
    BY DEF Idle
  <2>2. Goto(p, new) /\ UNCHANGED <<row, owner>> /\ ~LockedDevice(u, d)
    BY <1>1 DEF LoginCount, db
  <2> HIDE DEF new
  <2>3. \A q \in Procs : op[q].pc \in LoginPC => op[q].user # u
    <3> SUFFICES ASSUME NEW q \in Procs, op[q].pc \in LoginPC, op[q].user = u
                 PROVE  FALSE
      OBVIOUS
    <3>1. op[q].device \in Devices
      BY DEF CapInv, HasRoom
    <3>2. op[q].device = d
      BY <3>1, TheDevice
    <3> QED
      BY <2>2, <3>2 DEF LockedDevice
  <2>4. ~Full(u) => Cardinality(ActiveIn(row, owner, u) \ {NoSession}) < MaxActive
    <3> DEFINE S == ActiveIn(row, owner, u)
    <3>1. S \ {NoSession} = S /\ S = Active(u) /\ S \in SUBSET Sessions
      BY DEF ActiveIn, Active, Sessions, NoSession
    <3> HIDE DEF S
    <3>2. Cardinality(S) \in Nat
      BY <3>1, Fewer
    <3>3. ~Full(u) => Cardinality(S) < MaxActive
      BY <3>1, <3>2 DEF Full
    <3> QED
      BY <3>1, <3>3 DEF S
  <2>5. HasRoom(new, row', owner')
    BY <2>1, <2>2, <2>4 DEF HasRoom, LoginPC
  <2> QED
    BY <2>1, <2>2, <2>3, <2>5, CapGoes DEF NoneAdded
<1>2. CASE LoginPick(p)
  <2> DEFINE u     == op[p].user
             S     == ActiveIn(row, owner, u)
             plain == [op[p] EXCEPT !.pc = "store"]
  <2>1. op[p].pc = "pick" /\ UNCHANGED <<row, owner>> /\ u \in Users /\ S = Active(u)
    BY <1>0, <1>2 DEF LoginPick, db, HasRoom, LoginPC, ActiveIn, Active
  <2>2. \A q \in Procs : q # p /\ op[q].pc \in LoginPC => op[q].user # u
    BY <2>1 DEF CapInv, LoginPC
  <2>3. CASE S = {} /\ Goto(p, plain)
    <3>1. plain.pc = "store" /\ plain.user = u /\ plain.device = op[p].device
      BY <1>0 DEF Op
    <3>2. S \ {plain.victim} = {}
      BY <2>3
    <3>3. Cardinality(S \ {plain.victim}) < MaxActive
      BY <3>2, FS_EmptySet
    <3>4. HasRoom(plain, row', owner')
      BY <1>0, <2>1, <3>1, <3>3 DEF HasRoom, LoginPC
    <3> HIDE DEF plain
    <3> QED
      BY <2>1, <2>2, <2>3, <3>1, <3>4, CapGoes DEF NoneAdded
  <2>4. ASSUME NEW v \in S,
               Goto(p, [op[p] EXCEPT !.pc = "store", !.victim = v])
        PROVE  CapInv'
    <3> DEFINE new == [op[p] EXCEPT !.pc = "store", !.victim = v]
    <3>1. /\ new.pc = "store" /\ new.user = u /\ new.device = op[p].device
          /\ new.victim = v
      BY <1>0 DEF Op
    <3>2. Cardinality(S \ {v}) < MaxActive
      <4>1. S \in SUBSET Sessions /\ Cardinality(S) <= MaxActive
        BY <2>1 DEF CapInv, ActiveIn
      <4> HIDE DEF S
      <4>2. IsFiniteSet(S) /\ Cardinality(S) \in Nat
        BY <4>1, Fewer
      <4>3. Cardinality(S \ {v}) = Cardinality(S) - 1
        BY <2>4, <4>2, FS_RemoveElement
      <4> QED
        BY <4>1, <4>2, <4>3
    <3>3. HasRoom(new, row', owner')
      BY <1>0, <2>1, <3>1, <3>2 DEF HasRoom, LoginPC
    <3>4. Goto(p, new)
      BY <2>4
    <3> HIDE DEF new
    <3> QED
      BY <2>1, <2>2, <3>1, <3>3, <3>4, CapGoes DEF NoneAdded
  <2> QED
    BY <1>2, <2>1, <2>3, <2>4 DEF LoginPick
<1>3. CASE LoginStore(p)
  <2>1. CASE Goto(p, Idle) /\ UNCHANGED <<row, owner>>
    <3>1. \A q \in Procs : op'[q] = op[q] \/ op'[q].pc \notin LoginPC
      BY <2>1, IdlePresents DEF LoginPC
    <3> QED
      BY <2>1, <3>1, CapShrinks DEF NoneAdded
  <2>2. ASSUME NEW s \in Sessions, IsNext(s, Used),
               row'   = [row EXCEPT ![s] = "pending"],
               owner' = [owner EXCEPT ![s] = op[p].user],
               Goto(p, [op[p] EXCEPT !.pc = "commit", !.sess = s]),
               op[p].pc = "store"
        PROVE  CapInv'
    <3> DEFINE new == [op[p] EXCEPT !.pc = "commit", !.sess = s]
    <3>1. /\ new.pc = "commit" /\ new.user = op[p].user /\ new.sess = s
          /\ new.device = op[p].device /\ new.victim = op[p].victim
      BY <1>0 DEF Op
    <3>2. Goto(p, new)
      BY <2>2
    <3> HIDE DEF new
    <3>3. row[s] = "unused"
      BY <2>2 DEF IsNext, Used
    <3>4. \A u : NoneAdded(u)
      BY <2>2, <3>3 DEF NoneAdded, ActiveIn, TypeInv, TypeOK
    <3>5. HasRoom(op[p], row, owner) /\ owner'[s] = op[p].user
      BY <1>0, <2>2 DEF TypeInv, TypeOK
    <3>6. HasRoom(op[p], row', owner')
      BY <2>2, <3>4, <3>5, StillRoom
    <3>7. HasRoom(new, row', owner')
      BY <2>2, <3>1, <3>5, <3>6 DEF HasRoom, LoginPC
    <3>8. ASSUME NEW q \in Procs, op[q].pc = "commit"
          PROVE  owner'[op[q].sess] = owner[op[q].sess]
      <4>1. row[op[q].sess] # "unused" /\ op[q].sess \in Sessions
        BY <3>8 DEF DeadInv, Serves, TypeInv, HoldsIds
      <4> QED
        BY <2>2, <3>3, <4>1 DEF TypeInv, TypeOK
    <3>9. \A q \in Procs : q # p /\ op[q].pc \in LoginPC
                              => op[q].user # op[p].user
      BY <2>2 DEF CapInv, LoginPC
    <3> QED
      BY <3>1, <3>2, <3>4, <3>7, <3>8, <3>9, CapGoes
  <2> QED
    BY <1>3, <2>1, <2>2 DEF LoginStore, db
<1>4. CASE LoginCommit(p)
  <2> DEFINE u == op[p].user
             v == op[p].victim
             s == op[p].sess
             S == ActiveIn(row, owner, u) \ {v}
  <2>1. /\ op[p].pc = "commit" /\ owner' = owner /\ Goto(p, Idle)
        /\ row' = [x \in Sessions |-> IF x = s THEN "active"
                                      ELSE IF x \in EvictedBy(op[p])
                                           THEN "revoked" ELSE row[x]]
    BY <1>4 DEF LoginCommit
  <2>2. u \in Users /\ owner[s] = u /\ s \in Sessions /\ Cardinality(S) < MaxActive
    BY <1>0, <2>1 DEF HasRoom, HoldsIds, LoginPC
  <2>3. ActiveIn(row', owner', u) \subseteq S \cup {s}
    <3>1. \A x \in Sessions : x # s /\ row'[x] = "active"
                                 => row[x] = "active" /\ x # v
      BY <2>1 DEF EvictedBy, Sessions, NoSession
    <3> QED
      BY <2>1, <3>1 DEF ActiveIn
  <2>4. \A x : x # u => NoneAdded(x)
    BY <2>1, <2>2 DEF NoneAdded, ActiveIn
  <2>5. Cardinality(ActiveIn(row', owner', u)) <= MaxActive
    <3>1. S \in SUBSET Sessions
      BY DEF ActiveIn
    <3> DEFINE A == ActiveIn(row', owner', u)
    <3>2. A \in SUBSET (S \cup {s})
      BY <2>3
    <3> HIDE DEF S, A
    <3>3. IsFiniteSet(S) /\ Cardinality(S) \in Nat
      BY <3>1, Fewer
    <3>4. Cardinality(S \cup {s}) <= Cardinality(S) + 1
      BY <3>3, FS_AddElement
    <3>5. S \cup {s} \in SUBSET Sessions
      BY <2>2, <3>1
    <3>6. /\ Cardinality(A) <= Cardinality(S \cup {s})
          /\ Cardinality(A) \in Nat /\ Cardinality(S \cup {s}) \in Nat
      BY <3>2, <3>5, Fewer
    <3>7. Cardinality(A) <= MaxActive
      BY <2>2, <3>3, <3>4, <3>6
    <3> QED
      BY <3>7 DEF A
  <2>6. \A x \in Users : Cardinality(ActiveIn(row', owner', x)) <= MaxActive
    BY <2>4, <2>5, StillWithin
  <2>7. \A q \in Procs : op'[q] = op[q] \/ op'[q].pc = "idle"
    BY <2>1, IdlePresents
  <2>8. op'[p].pc = "idle"
    BY <2>1 DEF Goto, Idle, TypeInv, TypeOK
  <2>9. ASSUME NEW q \in Procs PROVE HasRoom(op'[q], row', owner')
    <3>1. CASE op'[q].pc = "idle"
      BY <3>1 DEF HasRoom, LoginPC
    <3>2. CASE op'[q] = op[q] /\ op[q].pc \in LoginPC
      <4>1. q # p
        BY <2>8, <3>2 DEF LoginPC
      <4>2. op[q].user # u
        BY <2>1, <3>2, <4>1 DEF CapInv, LoginPC
      <4>3. HasRoom(op[q], row, owner)
        BY DEF CapInv
      <4>4. HasRoom(op[q], row', owner')
        BY <2>1, <2>4, <4>2, <4>3, StillRoom
      <4> QED
        BY <3>2, <4>4
    <3>3. CASE op'[q].pc \notin LoginPC
      BY <3>3 DEF HasRoom, LoginPC
    <3> QED
      BY <2>7, <3>1, <3>2, <3>3
  <2>10. \A q, x \in Procs :
            op'[q].pc \in LoginPC /\ op'[x].pc \in LoginPC
               /\ op'[q].user = op'[x].user => q = x
    BY <2>7 DEF CapInv, LoginPC
  <2> QED
    BY <2>6, <2>9, <2>10 DEF CapInv
<1> QED
  BY <1>1, <1>2, <1>3, <1>4 DEF Login

(* The other requests and the jobs only end sessions, *)
LEMMA OthersCap ==
    ASSUME TypeInv, CapInv, NEW p \in Procs,
           \/ Refresh(p) \/ CloseOne(p) \/ CloseAll(p) \/ Fail(p) \/ Rejection(p)
           \/ \E t \in Tokens : RefreshFind(p, t)
           \/ \E s \in Sessions : LogoutBegin(p, s)
           \/ \E c, s \in Sessions : RevokeSessionBegin(p, c, s)
           \/ \E u \in Users : SweepBegin(p, u)
    PROVE  CapInv'
<1>0. op[p] \in Op
  BY DEF TypeInv, TypeOK
<1>1. owner' = owner
  BY RejectLessens DEF Refresh, RefreshFind, RefreshCheck, RefreshRevoke, RefreshCreate,
         CloseOne, CloseRow, CloseTokens, CloseCache, Returned, CloseAll,
         SweepList, SweepMark, SweepTokens, SweepPurge, Fail, LogoutBegin,
         RevokeSessionBegin, SweepBegin, db
<1>2. \A s \in Sessions : row'[s] = "active" => row[s] = "active"
  BY RejectLessens DEF Refresh, RefreshFind, RefreshCheck, RefreshRevoke, RefreshCreate,
         CloseOne, CloseRow, CloseTokens, CloseCache, CloseAll,
         SweepList, SweepMark, SweepTokens, SweepPurge, Fail, LogoutBegin,
         RevokeSessionBegin, SweepBegin, db, TypeInv, TypeOK
<1>3. \A u : NoneAdded(u)
  BY <1>1, <1>2 DEF NoneAdded, ActiveIn
<1>4. \A new : Goto(p, new) /\ new.pc \notin LoginPC =>
         \A q \in Procs : op'[q] = op[q] \/ op'[q].pc \notin LoginPC
  BY DEF Goto, TypeInv, TypeOK
<1>5. \E new : Goto(p, new) /\ new.pc \notin LoginPC
  <2>1. Idle.pc \notin LoginPC
    BY DEF Idle, LoginPC
  <2>2. CASE Refresh(p)
    <3>1. \/ Goto(p, Idle) \/ Goto(p, [op[p] EXCEPT !.pc = "revoke"])
          \/ Goto(p, [op[p] EXCEPT !.pc = "create"])
      BY <2>2 DEF Refresh, RefreshCheck, RefreshRevoke, RefreshCreate
    <3>2. /\ [op[p] EXCEPT !.pc = "revoke"].pc \notin LoginPC
          /\ [op[p] EXCEPT !.pc = "create"].pc \notin LoginPC
      BY <1>0 DEF Op, LoginPC
    <3> QED
      BY <2>1, <3>1, <3>2
  <2>3. ASSUME NEW part, Returned(p, part)
        PROVE  \E new : Goto(p, new) /\ new.pc \notin LoginPC
    <3>1. [op[p] EXCEPT !.todo = @ \ {part}].pc \notin LoginPC
      BY <1>0, <2>3 DEF Returned, Op, LoginPC
    <3>2. \/ Goto(p, Idle) \/ Goto(p, [op[p] EXCEPT !.todo = @ \ {part}])
      BY <2>3 DEF Returned
    <3> QED
      BY <2>1, <3>1, <3>2
  <2>4. CASE CloseOne(p)
    BY <2>3, <2>4 DEF CloseOne, CloseRow, CloseTokens, CloseCache
  <2>5. CASE CloseAll(p)
    <3>1. PICK ids, todo :
            \/ SweepGoto(p, [op[p] EXCEPT !.ids = ids, !.todo = todo])
            \/ SweepGoto(p, [op[p] EXCEPT !.todo = todo])
            \/ SweepGoto(p, [op[p] EXCEPT !.ids = ids])
      BY <2>5 DEF CloseAll, SweepList, SweepMark, SweepTokens, SweepPurge
    <3>2. op[p].pc = "sweep"
      BY <2>5 DEF CloseAll, SweepList, SweepMark, SweepTokens, SweepPurge
    <3>3. /\ [op[p] EXCEPT !.ids = ids, !.todo = todo].pc \notin LoginPC
          /\ [op[p] EXCEPT !.todo = todo].pc \notin LoginPC
          /\ [op[p] EXCEPT !.ids = ids].pc \notin LoginPC
      BY <1>0, <3>2 DEF Op, LoginPC
    <3>4. \A new : SweepGoto(p, new) => Goto(p, new) \/ Goto(p, Idle)
      BY DEF SweepGoto
    <3> QED
      BY <2>1, <3>1, <3>3, <3>4
  <2>6. CASE Fail(p)
    BY <2>1, <2>6 DEF Fail
  <2>7. ASSUME NEW t \in Tokens, RefreshFind(p, t)
        PROVE  \E new : Goto(p, new) /\ new.pc \notin LoginPC
    <3> DEFINE s   == token[t].session
               chk == [Idle EXCEPT !.pc = "check", !.tok = t, !.sess = s,
                                   !.late = s \in closed]
               cls == [Idle EXCEPT !.pc = "close", !.tok = t, !.sess = s,
                                   !.todo = {"tokens", "cache"}]
    <3>1. chk.pc = "check" /\ cls.pc = "close"
      BY DEF Idle
    <3>2. Goto(p, chk) \/ Goto(p, cls)
      BY <2>7 DEF RefreshFind
    <3> HIDE DEF chk, cls
    <3> QED
      BY <3>1, <3>2 DEF LoginPC
  <2>8. CASE \/ \E s \in Sessions : LogoutBegin(p, s)
             \/ \E c, s \in Sessions : RevokeSessionBegin(p, c, s)
    <3>1. PICK s \in Sessions : Goto(p, Close(s))
      BY <2>8 DEF LogoutBegin, RevokeSessionBegin
    <3>2. Close(s).pc \notin LoginPC
      BY DEF Close, Idle, LoginPC
    <3> QED
      BY <3>1, <3>2
  <2>9. CASE \E u \in Users : SweepBegin(p, u)
    <3>1. PICK u \in Users : Goto(p, [Idle EXCEPT !.pc = "sweep", !.user = u,
                                         !.todo = {"list", "tokens"}])
      BY <2>9 DEF SweepBegin
    <3>2. [Idle EXCEPT !.pc = "sweep", !.user = u,
                       !.todo = {"list", "tokens"}].pc \notin LoginPC
      BY DEF Idle, LoginPC
    <3> QED
      BY <3>1, <3>2
  <2>10. CASE Rejection(p)
    <3>1. op[p].pc \in {"close", "sweep"}
      BY <2>10, RejectLessens
    <3>2. PICK new \in Op : Goto(p, new) /\ Lessened(op[p], new)
      BY <2>10, RejectLessens
    <3> QED
      BY <2>1, <3>1, <3>2 DEF Lessened, LoginPC
  <2> QED
    BY <2>2, <2>4, <2>5, <2>6, <2>7, <2>8, <2>9, <2>10
<1>6. \A q \in Procs : op'[q] = op[q] \/ op'[q].pc \notin LoginPC
  BY <1>4, <1>5
<1> QED
  BY <1>1, <1>3, <1>6, CapShrinks

(* and so does time. *)
LEMMA TimeCap ==
    ASSUME TypeInv, CapInv,
           \/ \E s \in Sessions : CacheExpire(s)
           \/ \E t \in Tokens : CleanExpiredRefreshTokens(t)
           \/ CleanOldSessions
    PROVE  CapInv'
<1>1. owner' = owner /\ op' = op
  BY DEF CacheExpire, CleanExpiredRefreshTokens, CleanOldSessions, db
<1>2. \A s \in Sessions : row'[s] = "active" => row[s] = "active"
  BY DEF CacheExpire, CleanExpiredRefreshTokens, CleanOldSessions, db
<1>3. \A u : NoneAdded(u)
  BY <1>1, <1>2 DEF NoneAdded, ActiveIn
<1> QED
  BY <1>1, <1>3, CapShrinks

LEMMA CapInit == Init => CapInv
<1> SUFFICES ASSUME Init PROVE CapInv
  OBVIOUS
<1>1. \A u : ActiveIn(row, owner, u) = {}
  BY DEF Init, ActiveIn
<1>2. \A u \in Users : Cardinality(ActiveIn(row, owner, u)) <= MaxActive
  BY <1>1, FS_EmptySet
<1>3. \A p \in Procs : op[p].pc = "idle"
  BY DEF Init, Idle
<1> QED
  BY <1>2, <1>3 DEF CapInv, HasRoom, LoginPC

LEMMA CapStep ==
    OneDevice /\ TypeInv /\ DeadInv /\ CapInv /\ [Next]_vars => CapInv'
<1>1. ASSUME OneDevice, TypeInv, DeadInv, CapInv, Next PROVE CapInv'
  BY <1>1, LoginCap, OthersCap, TimeCap DEF Next, Begin, Step, Environment
<1>2. ASSUME CapInv, UNCHANGED vars PROVE CapInv'
  BY <1>2 DEF vars, CapInv
<1> QED
  BY <1>1, <1>2

(* A user with one device never has more active sessions than the limit, *)
(* however many of his logins overlap.                                   *)
THEOREM CapHolds == IsFiniteSet(Devices) => (Spec => []SessionCap)
<1>1. CASE OneDevice
  <2>1. CapInv => SessionCap
    <3>1. \A u : Active(u) = ActiveIn(row, owner, u)
      BY DEF Active, ActiveIn
    <3> QED
      BY <3>1 DEF CapInv, SessionCap
  <2>2. TypeInv /\ DeadInv /\ CapInv /\ [Next]_vars => CapInv'
    BY <1>1, CapStep
  <2> QED
    BY <2>1, <2>2, CapInit, Inductive, PTL DEF Spec
<1>2. CASE IsFiniteSet(Devices) /\ ~OneDevice
  <2>1. SessionCap
    BY <1>2 DEF OneDevice, SessionCap
  <2> QED
    BY <2>1, PTL
<1> QED
  BY <1>1, <1>2

-----------------------------------------------------------------------------
(* What the platform may rely on.                                           *)

NeverReopened == \A s \in Used \ cache : s \notin cache'

(* A session that has left Redis never comes back, whoever closed it and    *)
(* whatever refreshes and logins are under way: the guard of the gateway,   *)
(* which has seen a session closed, sees it closed for good.                *)
THEOREM ClosedForGood == Spec => [][NeverReopened]_vars
<1>1. TypeInv /\ DeadInv /\ [Next]_vars => [NeverReopened]_vars
  <2>1. ASSUME TypeInv, DeadInv, Next PROVE AuthorityStep
    BY <2>1, LoginImplements, RefreshImplements, CloseOneImplements,
       CloseAllImplements, EnvironmentImplements
    DEF Next, Begin, Step
  <2>2. ASSUME AuthorityStep PROVE NeverReopened
    BY <2>2 DEF AuthorityStep, NeverReopened, Authority!AbsNext,
                Authority!Open, Authority!Lapse, Authority!Close
  <2> QED
    BY <2>1, <2>2
<1> QED
  BY <1>1, Inductive, PTL DEF Spec

-----------------------------------------------------------------------------
(* Every request ends: what can be said of it without fairness.  Left is    *)
(* how many steps a request has still to take, at most.  Each step of its   *)
(* own makes it less, no step of another makes it more, and as long as it   *)
(* is not 0 the request can take a step, or waits for the row lock of a     *)
(* login that can.                                                          *)

\* The ids are listed once, and then there is one call for each of them.
SweepLeft(o) ==
    (IF "list" \in o.todo THEN MaxSessions + 2
     ELSE Cardinality(o.ids) + IF "mark" \in o.todo THEN 1 ELSE 0)
    + IF "tokens" \in o.todo THEN 1 ELSE 0

Left(o) == CASE o.pc \in {"pick", "check"}    -> 3
             [] o.pc \in {"store", "revoke"}  -> 2
             [] o.pc \in {"commit", "create"} -> 1
             [] o.pc = "close"                -> Cardinality(o.todo)
             [] o.pc = "sweep"                -> SweepLeft(o)
             [] OTHER                         -> 0

CountsDown ==
    \A p \in Procs :
        /\ Left(op[p]) \in Nat /\ Left(op'[p]) \in Nat
        /\ op[p].pc # "idle" => Left(op'[p]) <= Left(op[p])
        /\ Step(p) => Left(op'[p]) < Left(op[p])

\* One of the actions of Step(p) has its guard true.
MayStep(p) ==
    LET o == op[p] IN
    \/ o.pc \in {"check", "revoke"}
    \/ /\ o.pc = "pick"
       /\ \/ Active(o.user) = {}
          \/ \E v \in Active(o.user) : \A s \in Active(o.user) : v <= s
    \/ /\ o.pc = "store" /\ ~LockedRow(o.victim)
       /\ \E s \in Sessions : IsNext(s, Used)
    \/ o.pc \in {"commit", "create"} /\ \E t \in Tokens : IsNext(t, Issued)
    \/ /\ o.pc = "close"
       /\ \/ o.todo \cap {"tokens", "cache"} # {}
          \/ "row" \in o.todo /\ ~LockedRow(o.sess)
    \/ /\ o.pc = "sweep"
       /\ \/ o.todo \cap {"list", "tokens"} # {}
          \/ "mark" \in o.todo /\ \A s \in Listed(o) : ~LockedRow(s)
          \/ o.todo = {} /\ o.ids # {}

\* The login of q holds the lock of a row that the request of p wants.
Holds(q, p) ==
    /\ op[q].pc = "commit" /\ op[q].victim # NoSession
    /\ op[q].victim \in {op[p].victim, op[p].sess} \cup op[p].ids

NeverStuck ==
    \A p \in Procs :
        IF op[p].pc = "idle" THEN Left(op[p]) = 0
        ELSE /\ Left(op[p]) > 0
             /\ MayStep(p) \/ \E q \in Procs : Holds(q, p) /\ MayStep(q)

\* What a request has undertaken to take out of Redis it takes out or gives up
\* in a failure, and then its id is known as given up.
UndertakingsKept ==
    \A p \in Procs : \A s \in Closing(op[p]) :
        \/ s \in Closing(op'[p]) \/ s \notin cache'
        \/ s \in abandoned' /\ (Fail(p) \/ Rejection(p))

\* A request that closes something has a call left to make.
Busy(o) ==
    /\ o.pc = "close" => o.todo # {} /\ o.todo \subseteq {"row", "tokens", "cache"}
    /\ o.pc = "sweep" => /\ o.todo # {} \/ o.ids # {}
                         /\ o.todo \subseteq {"list", "tokens", "mark"}
                         /\ "list" \in o.todo =>
                              o.ids = {} /\ "mark" \notin o.todo

BusyInv == \A p \in Procs : Busy(op[p])

LEMMA FiniteParts ==
    ASSUME NEW o \in Op
    PROVE  /\ IsFiniteSet(o.todo) /\ Cardinality(o.todo) \in Nat
           /\ IsFiniteSet(o.ids) /\ Cardinality(o.ids) \in Nat
           /\ Cardinality(o.ids) <= MaxSessions
<1>1. o.todo \subseteq Parts /\ o.ids \subseteq Sessions
  BY DEF Op
<1>2. IsFiniteSet(Parts)
  <2>1. IsFiniteSet({"row", "tokens", "cache", "list"})
    <3>1. IsFiniteSet({}) /\ IsFiniteSet({"row"})
      BY FS_EmptySet, FS_Singleton
    <3>2. IsFiniteSet({"row"} \cup {"tokens"})
      BY <3>1, FS_AddElement
    <3>3. IsFiniteSet(({"row"} \cup {"tokens"}) \cup {"cache"})
      BY <3>2, FS_AddElement
    <3>4. IsFiniteSet((({"row"} \cup {"tokens"}) \cup {"cache"}) \cup {"list"})
      BY <3>3, FS_AddElement
    <3>5. (({"row"} \cup {"tokens"}) \cup {"cache"}) \cup {"list"}
            = {"row", "tokens", "cache", "list"}
      OBVIOUS
    <3> QED
      BY <3>4, <3>5
  <2>2. IsFiniteSet({"row", "tokens", "cache", "list"} \cup {"mark"})
    BY <2>1, FS_AddElement
  <2>3. {"row", "tokens", "cache", "list"} \cup {"mark"} = Parts
    BY DEF Parts
  <2> QED
    BY <2>2, <2>3
<1>3. IsFiniteSet(Sessions) /\ Cardinality(Sessions) = MaxSessions
  BY FS_Interval DEF Sessions
<1> QED
  BY <1>1, <1>2, <1>3, FS_Subset, FS_CardinalityType

\* A call that has returned is one call fewer to wait for.
LEMMA OneFewer ==
    ASSUME NEW S, NEW x \in S, IsFiniteSet(S)
    PROVE  Cardinality(S \ {x}) = Cardinality(S) - 1
BY FS_RemoveElement, FS_CardinalityType

LEMMA LeftIsNat == ASSUME NEW o \in Op PROVE Left(o) \in Nat /\ SweepLeft(o) \in Nat
<1>1. SweepLeft(o) \in Nat
  BY FiniteParts DEF SweepLeft
<1>2. o.pc \in {"pick", "check", "store", "revoke", "commit", "create",
               "close", "sweep", "idle"}
  BY DEF Op, LoginPC, RefreshPC
<1>3. CASE o.pc = "close"
  <2>1. Left(o) = Cardinality(o.todo)
    BY <1>3 DEF Left
  <2> QED
    BY <1>1, <2>1, FiniteParts
<1>4. CASE o.pc = "sweep"
  <2>1. Left(o) = SweepLeft(o)
    BY <1>4 DEF Left
  <2> QED
    BY <1>1, <2>1
<1>5. CASE o.pc \notin {"close", "sweep"}
  BY <1>1, <1>2, <1>5 DEF Left
<1> QED
  BY <1>3, <1>4, <1>5

LEMMA IdleLeft == Idle.pc = "idle" /\ Left(Idle) = 0 /\ Busy(Idle) /\ Closing(Idle) = {}
BY DEF Idle, Left, Busy, Closing

\* As long as a request closes something there is a call left.
LEMMA BusyLeft ==
    ASSUME NEW o \in Op, Busy(o), o.pc # "idle" PROVE Left(o) > 0
<1>1. o.pc \in {"pick", "check", "store", "revoke", "commit", "create",
               "close", "sweep"}
  BY DEF Op, LoginPC, RefreshPC
<1>2. CASE o.pc = "close"
  <2>1. Left(o) = Cardinality(o.todo) /\ o.todo # {}
    BY <1>2 DEF Left, Busy
  <2>2. Cardinality(o.todo) # 0
    BY <2>1, FiniteParts, FS_EmptySet
  <2> QED
    BY <2>1, <2>2, FiniteParts
<1>3. CASE o.pc = "sweep"
  <2>1. Left(o) = SweepLeft(o)
    BY <1>3 DEF Left
  <2>2. CASE o.todo = {}
    <3>1. o.ids # {}
      BY <1>3, <2>2 DEF Busy
    <3>2. Cardinality(o.ids) # 0
      BY <3>1, FiniteParts, FS_EmptySet
    <3> QED
      BY <2>1, <2>2, <3>2, FiniteParts DEF SweepLeft
  <2>3. CASE o.todo # {}
    <3>1. "list" \in o.todo \/ "tokens" \in o.todo \/ "mark" \in o.todo
      BY <1>3, <2>3 DEF Busy
    <3> QED
      BY <2>1, <3>1, FiniteParts DEF SweepLeft
  <2> QED
    BY <2>2, <2>3
<1>4. CASE o.pc \notin {"close", "sweep"}
  BY <1>1, <1>4 DEF Left
<1> QED
  BY <1>2, <1>3, <1>4

\* A request takes a step of its own, and only that request moves on.
Advances(p, new) ==
    /\ Goto(p, new) /\ Busy(new) /\ Left(new) < Left(op[p])
    /\ \A s \in Closing(op[p]) : s \in Closing(new) \/ s \notin cache'

LEMMA LoginAdvances ==
    ASSUME TypeInv, NEW p \in Procs, Login(p) PROVE \E new : Advances(p, new)
<1> DEFINE o == op[p]
<1>1. o \in Op
  BY DEF TypeInv, TypeOK
<1>2. o.pc \in LoginPC /\ Closing(o) = {}
  BY DEF Login, LoginPick, LoginStore, LoginCommit, LoginPC, Closing
<1>3. Left(o) > 0
  BY <1>2 DEF Left, LoginPC
<1>4. Goto(p, Idle) => Advances(p, Idle)
  BY <1>2, <1>3, IdleLeft DEF Advances
<1>5. CASE LoginPick(p)
  <2>1. PICK new : /\ Goto(p, new) /\ new.pc = "store"
    <3>1. PICK v \in Sessions \cup {NoSession} :
             \/ Goto(p, [o EXCEPT !.pc = "store"])
             \/ Goto(p, [o EXCEPT !.pc = "store", !.victim = v])
      BY <1>5 DEF LoginPick, Active
    <3>2. /\ [o EXCEPT !.pc = "store"].pc = "store"
          /\ [o EXCEPT !.pc = "store", !.victim = v].pc = "store"
      BY <1>1 DEF Op
    <3> QED
      BY <3>1, <3>2
  <2>2. Left(new) = 2 /\ Left(o) = 3
    BY <1>5, <2>1 DEF Left, LoginPick
  <2> QED
    BY <1>2, <2>1, <2>2 DEF Advances, Busy
<1>6. CASE LoginStore(p)
  <2>1. CASE Goto(p, Idle)
    BY <1>4, <2>1
  <2>2. CASE ~Goto(p, Idle)
    <3>1. PICK s \in Sessions : Goto(p, [o EXCEPT !.pc = "commit", !.sess = s])
      BY <1>6, <2>2 DEF LoginStore
    <3> DEFINE new == [o EXCEPT !.pc = "commit", !.sess = s]
    <3>2. new.pc = "commit"
      BY <1>1 DEF Op
    <3>3. Goto(p, new)
      BY <3>1
    <3> HIDE DEF new
    <3>4. Left(new) = 1 /\ Left(o) = 2
      BY <1>6, <3>2 DEF Left, LoginStore
    <3> QED
      BY <1>2, <3>2, <3>3, <3>4 DEF Advances, Busy
  <2> QED
    BY <2>1, <2>2
<1>7. CASE LoginCommit(p)
  BY <1>4, <1>7 DEF LoginCommit
<1> QED
  BY <1>5, <1>6, <1>7 DEF Login

LEMMA RefreshAdvances ==
    ASSUME TypeInv, NEW p \in Procs, Refresh(p) PROVE \E new : Advances(p, new)
<1> DEFINE o == op[p]
<1>1. o \in Op
  BY DEF TypeInv, TypeOK
<1>2. o.pc \in RefreshPC /\ Closing(o) = {}
  BY DEF Refresh, RefreshCheck, RefreshRevoke, RefreshCreate, RefreshPC, Closing
<1>3. Left(o) > 0
  BY <1>2 DEF Left, RefreshPC
<1>4. Goto(p, Idle) => Advances(p, Idle)
  BY <1>2, <1>3, IdleLeft DEF Advances
<1>5. CASE RefreshCheck(p)
  <2> DEFINE new == [o EXCEPT !.pc = "revoke"]
  <2>1. Goto(p, new) \/ Goto(p, Idle)
    BY <1>5 DEF RefreshCheck
  <2>2. new.pc = "revoke"
    BY <1>1 DEF Op
  <2> HIDE DEF new
  <2>3. Left(new) = 2 /\ Left(o) = 3
    BY <1>5, <2>2 DEF Left, RefreshCheck
  <2> QED
    BY <1>2, <1>4, <2>1, <2>2, <2>3 DEF Advances, Busy
<1>6. CASE RefreshRevoke(p)
  <2> DEFINE new == [o EXCEPT !.pc = "create"]
  <2>1. Goto(p, new) \/ Goto(p, Idle)
    BY <1>6 DEF RefreshRevoke
  <2>2. new.pc = "create"
    BY <1>1 DEF Op
  <2> HIDE DEF new
  <2>3. Left(new) = 1 /\ Left(o) = 2
    BY <1>6, <2>2 DEF Left, RefreshRevoke
  <2> QED
    BY <1>2, <1>4, <2>1, <2>2, <2>3 DEF Advances, Busy
<1>7. CASE RefreshCreate(p)
  BY <1>4, <1>7 DEF RefreshCreate
<1> QED
  BY <1>5, <1>6, <1>7 DEF Refresh

\* A rejected call leaves fewer calls to wait for.
LEMMA RejectCounts ==
    ASSUME NEW o \in Op, NEW new \in Op, Busy(o), o.pc \in {"close", "sweep"},
           Lessened(o, new)
    PROVE  Busy(new) /\ Left(new) <= Left(o)
<1>1. Left(o) \in Nat /\ Left(o) > 0
  BY LeftIsNat, BusyLeft
<1>2. CASE new = Idle
  BY <1>1, <1>2, IdleLeft
<1>3. CASE new # Idle
  <2>1. /\ new.pc = o.pc /\ new.todo \subseteq o.todo /\ new.ids \subseteq o.ids
        /\ new.todo # {} \/ (new.ids # {} /\ o.todo = {})
        /\ new.ids = o.ids \/ o.todo = {}
    <3>1. \/ /\ new.pc = o.pc /\ new.ids = o.ids
             /\ new.todo # {} /\ new.todo \subseteq o.todo
          \/ /\ new.pc = o.pc /\ new.todo = {} /\ o.todo = {}
             /\ new.ids # {} /\ new.ids \subseteq o.ids
      BY <1>3, Zenon DEF Lessened
    <3> QED
      BY <3>1
  <2>2. /\ Cardinality(new.todo) \in Nat /\ Cardinality(o.todo) \in Nat
        /\ Cardinality(new.ids) \in Nat /\ Cardinality(o.ids) \in Nat
        /\ Cardinality(o.ids) <= MaxSessions
    BY FiniteParts
  <2>3. /\ Cardinality(new.todo) <= Cardinality(o.todo)
        /\ Cardinality(new.ids) <= Cardinality(o.ids)
    BY <2>1, FiniteParts, FS_Subset
  <2>4. CASE o.pc = "close"
    <3>1. Left(new) = Cardinality(new.todo) /\ Left(o) = Cardinality(o.todo)
      BY <2>1, <2>4 DEF Left
    <3>2. new.todo # {}
      BY <2>1, <2>4 DEF Busy
    <3> QED
      BY <2>1, <2>3, <2>4, <3>1, <3>2 DEF Busy
  <2>5. CASE o.pc = "sweep"
    <3>1. Left(new) = SweepLeft(new) /\ Left(o) = SweepLeft(o)
      BY <2>1, <2>5 DEF Left
    <3>2. Busy(new)
      BY <2>1, <2>5 DEF Busy
    <3>3. "list" \in o.todo => o.ids = {} /\ "mark" \notin o.todo
      BY <2>5 DEF Busy
    <3>4. SweepLeft(new) <= SweepLeft(o)
      BY <2>1, <2>2, <2>3, <3>3 DEF SweepLeft
    <3> QED
      BY <3>1, <3>2, <3>4
  <2> QED
    BY <2>4, <2>5
<1> QED
  BY <1>2, <1>3

LEMMA CloseOneAdvances ==
    ASSUME TypeInv, BusyInv, NEW p \in Procs, CloseOne(p)
    PROVE  \E new : Advances(p, new)
<1> DEFINE o == op[p]
<1>1. o \in Op /\ Busy(o)
  BY DEF TypeInv, TypeOK, BusyInv
<1>2. PICK part \in {"row", "tokens", "cache"} :
        /\ Returned(p, part)
        /\ part = "cache" => cache' = cache \ {o.sess}
  BY DEF CloseOne, CloseRow, CloseTokens, CloseCache
<1>3. o.pc = "close" /\ part \in o.todo /\ Left(o) = Cardinality(o.todo)
  BY <1>2 DEF Returned, Left
<1>4. Left(o) > 0
  BY <1>1, <1>3, BusyLeft
<1>5. CASE o.todo = {part}
  <2>1. Goto(p, Idle)
    BY <1>2, <1>5 DEF Returned
  <2>2. \A s \in Closing(o) : s \notin cache'
    BY <1>2, <1>3, <1>5 DEF Closing
  <2> QED
    BY <1>4, <2>1, <2>2, IdleLeft DEF Advances
<1>6. CASE o.todo # {part}
  <2> DEFINE new == [o EXCEPT !.todo = o.todo \ {part}]
  <2>1. Goto(p, new)
    BY <1>2, <1>6 DEF Returned
  <2>2. new.pc = "close" /\ new.todo = o.todo \ {part} /\ new.sess = o.sess
    BY <1>1, <1>3 DEF Op
  <2> HIDE DEF new
  <2>3. Cardinality(new.todo) = Cardinality(o.todo) - 1
    BY <1>1, <1>3, <2>2, FiniteParts, OneFewer
  <2>4. Left(new) < Left(o)
    BY <1>1, <1>3, <2>2, <2>3, FiniteParts DEF Left
  <2>5. Busy(new)
    BY <1>1, <1>3, <1>6, <2>2 DEF Busy
  <2>6. \A s \in Closing(o) : s \in Closing(new) \/ s \notin cache'
    BY <1>2, <1>3, <2>2 DEF Closing
  <2> QED
    BY <2>1, <2>4, <2>5, <2>6 DEF Advances
<1> QED
  BY <1>5, <1>6

\* A sweep goes on, or answers if there is nothing left to do.
LEMMA SweepAdvances ==
    ASSUME NEW p \in Procs, NEW new \in Op, op[p] \in Op, op[p].pc = "sweep",
           Busy(op[p]), SweepGoto(p, new), new.pc = "sweep",
           new.todo \subseteq {"list", "tokens", "mark"},
           "list" \in new.todo => new.ids = {} /\ "mark" \notin new.todo,
           SweepLeft(new) < SweepLeft(op[p]), new.failed = op[p].failed,
           \A s \in op[p].ids : s \in new.ids \/ s \notin cache'
    PROVE  \E n : Advances(p, n)
<1>1. Left(op[p]) = SweepLeft(op[p]) /\ Left(new) = SweepLeft(new)
  BY DEF Left
<1>2. /\ new.failed => Closing(op[p]) = {}
      /\ ~new.failed => Closing(op[p]) = op[p].ids /\ Closing(new) = new.ids
  BY DEF Closing
<1>3. CASE new.todo = {} /\ (new.failed \/ new.ids = {})
  <2>1. Goto(p, Idle)
    BY <1>3 DEF SweepGoto
  <2>2. Left(op[p]) > 0
    BY BusyLeft
  <2> QED
    BY <1>1, <1>2, <1>3, <2>1, <2>2, IdleLeft DEF Advances
<1>4. CASE ~(new.todo = {} /\ (new.failed \/ new.ids = {}))
  <2>1. Goto(p, new)
    BY <1>4 DEF SweepGoto
  <2>2. Busy(new)
    BY <1>4 DEF Busy
  <2> QED
    BY <1>1, <1>2, <2>1, <2>2 DEF Advances
<1> QED
  BY <1>3, <1>4

LEMMA CloseAllAdvances ==
    ASSUME TypeInv, BusyInv, NEW p \in Procs, CloseAll(p)
    PROVE  \E new : Advances(p, new)
<1> DEFINE o == op[p]
<1>1. o \in Op /\ Busy(o)
  BY DEF TypeInv, TypeOK, BusyInv
<1>2. /\ o.pc = "sweep" /\ o.todo \subseteq {"list", "tokens", "mark"}
      /\ Cardinality(o.ids) \in Nat
      /\ "list" \in o.todo => o.ids = {} /\ "mark" \notin o.todo
  BY <1>1, FiniteParts
  DEF CloseAll, SweepList, SweepMark, SweepTokens, SweepPurge, Busy
<1>3. CASE SweepList(p)
  <2> DEFINE ids  == Active(o.user)
             todo == (o.todo \ {"list"}) \cup (IF ids = {} THEN {} ELSE {"mark"})
             new  == [o EXCEPT !.ids = ids, !.todo = todo]
  <2>1. SweepGoto(p, new) /\ "list" \in o.todo
    BY <1>3 DEF SweepList
  <2>2. ids \subseteq Sessions /\ todo \subseteq {"tokens", "mark"}
    BY <1>2 DEF Active
  <2>3. "tokens" \in todo <=> "tokens" \in o.todo
    OBVIOUS
  <2> HIDE DEF ids, todo
  <2>4. /\ new \in Op /\ new.pc = "sweep" /\ new.todo = todo /\ new.ids = ids
        /\ new.failed = o.failed
    BY <1>1, <1>2, <2>2 DEF Op, Parts
  <2> HIDE DEF new
  <2>5. Cardinality(new.ids) \in Nat /\ Cardinality(new.ids) <= MaxSessions
    BY <2>4, FiniteParts
  <2>6. SweepLeft(new) < SweepLeft(o)
    BY <2>1, <2>2, <2>3, <2>4, <2>5 DEF SweepLeft
  <2> QED
    BY <1>1, <1>2, <2>1, <2>2, <2>4, <2>6, SweepAdvances
<1>4. CASE SweepMark(p) \/ SweepTokens(p)
  <2>1. PICK x \in {"mark", "tokens"} :
          x \in o.todo /\ SweepGoto(p, [o EXCEPT !.todo = o.todo \ {x}])
    BY <1>4 DEF SweepMark, SweepTokens
  <2> DEFINE new == [o EXCEPT !.todo = o.todo \ {x}]
  <2>2. /\ new \in Op /\ new.pc = "sweep" /\ new.todo = o.todo \ {x}
        /\ new.ids = o.ids /\ new.failed = o.failed
    BY <1>1, <1>2 DEF Op
  <2>3. SweepGoto(p, new)
    BY <2>1
  <2> HIDE DEF new
  <2>4. SweepLeft(new) < SweepLeft(o)
    <3>1. CASE x = "tokens"
      BY <1>2, <2>1, <2>2, <3>1 DEF SweepLeft
    <3>2. CASE x = "mark" /\ "list" \notin o.todo
      BY <1>2, <2>1, <2>2, <3>2 DEF SweepLeft
    <3> QED
      BY <1>2, <2>1, <3>1, <3>2
  <2> QED
    BY <1>1, <1>2, <2>2, <2>3, <2>4, SweepAdvances
<1>5. ASSUME NEW s \in Sessions, SweepPurge(p, s) PROVE \E new : Advances(p, new)
  <2> DEFINE new == [o EXCEPT !.ids = o.ids \ {s}]
  <2>1. /\ SweepGoto(p, new) /\ o.todo = {} /\ s \in o.ids
        /\ cache' = cache \ {s}
    BY <1>5 DEF SweepPurge
  <2>2. /\ new \in Op /\ new.pc = "sweep" /\ new.todo = {}
        /\ new.ids = o.ids \ {s} /\ new.failed = o.failed
    BY <1>1, <1>2, <2>1 DEF Op
  <2> HIDE DEF new
  <2>3. Cardinality(new.ids) = Cardinality(o.ids) - 1
    BY <1>1, <2>1, <2>2, FiniteParts, OneFewer
  <2>4. SweepLeft(new) < SweepLeft(o)
    BY <1>2, <2>1, <2>2, <2>3 DEF SweepLeft
  <2> QED
    BY <1>1, <1>2, <2>1, <2>2, <2>4, SweepAdvances
<1> QED
  BY <1>3, <1>4, <1>5 DEF CloseAll

LEMMA StepAdvances ==
    ASSUME TypeInv, BusyInv, NEW p \in Procs, Step(p)
    PROVE  \E new : Advances(p, new)
BY LoginAdvances, RefreshAdvances, CloseOneAdvances, CloseAllAdvances DEF Step

\* A request that begins to close something has calls to make.
LEMMA BeginBusy ==
    ASSUME NEW p \in Procs, Begin(p)
    PROVE  op[p].pc = "idle" /\ \E new : Goto(p, new) /\ Busy(new)
<1>1. ASSUME NEW u \in Users, NEW d \in Devices, LoginCount(p, u, d)
      PROVE  op[p].pc = "idle" /\ \E new : Goto(p, new) /\ Busy(new)
  <2> DEFINE new == [Idle EXCEPT !.user = u, !.device = d,
                            !.pc = IF Full(u) THEN "pick" ELSE "store"]
  <2>1. new.pc \in {"pick", "store"}
    BY DEF Idle
  <2>2. op[p].pc = "idle" /\ Goto(p, new)
    BY <1>1 DEF LoginCount
  <2> HIDE DEF new
  <2> QED
    BY <2>1, <2>2 DEF Busy
<1>2. ASSUME NEW t \in Tokens, RefreshFind(p, t)
      PROVE  op[p].pc = "idle" /\ \E new : Goto(p, new) /\ Busy(new)
  <2> DEFINE s   == token[t].session
             chk == [Idle EXCEPT !.pc = "check", !.tok = t, !.sess = s,
                                 !.late = s \in closed]
             cls == [Idle EXCEPT !.pc = "close", !.tok = t, !.sess = s,
                                 !.todo = {"tokens", "cache"}]
  <2>1. chk.pc = "check" /\ cls.pc = "close" /\ cls.todo = {"tokens", "cache"}
    BY DEF Idle
  <2>2. op[p].pc = "idle" /\ (Goto(p, chk) \/ Goto(p, cls))
    BY <1>2 DEF RefreshFind
  <2> HIDE DEF chk, cls
  <2>3. Busy(chk) /\ Busy(cls)
    BY <2>1 DEF Busy
  <2> QED
    BY <2>2, <2>3
<1>3. ASSUME NEW s \in Sessions,
             \/ LogoutBegin(p, s)
             \/ \E c \in Sessions : RevokeSessionBegin(p, c, s)
      PROVE  op[p].pc = "idle" /\ \E new : Goto(p, new) /\ Busy(new)
  <2>1. op[p].pc = "idle" /\ Goto(p, Close(s))
    BY <1>3 DEF LogoutBegin, RevokeSessionBegin
  <2>2. Close(s).pc = "close" /\ Close(s).todo = {"row", "tokens", "cache"}
    BY DEF Close, Idle
  <2>3. Busy(Close(s))
    BY <2>2 DEF Busy
  <2> QED
    BY <2>1, <2>3
<1>4. ASSUME NEW u \in Users, SweepBegin(p, u)
      PROVE  op[p].pc = "idle" /\ \E new : Goto(p, new) /\ Busy(new)
  <2> DEFINE new == [Idle EXCEPT !.pc = "sweep", !.user = u,
                            !.todo = {"list", "tokens"}]
  <2>1. /\ new.pc = "sweep" /\ new.todo = {"list", "tokens"} /\ new.ids = {}
    BY DEF Idle
  <2>2. op[p].pc = "idle" /\ Goto(p, new)
    BY <1>4 DEF SweepBegin
  <2> HIDE DEF new
  <2> QED
    BY <2>1, <2>2 DEF Busy
<1> QED
  BY <1>1, <1>2, <1>3, <1>4 DEF Begin

LEMMA BusyInit == Init => BusyInv
BY IdleLeft DEF Init, BusyInv

\* What every step does to every request.
LEMMA DownStep ==
    TypeInv /\ TypeInv' /\ BusyInv /\ [Next]_vars
        => BusyInv' /\ [CountsDown]_vars /\ [UndertakingsKept]_vars
<1> SUFFICES ASSUME TypeInv, TypeInv', BusyInv, [Next]_vars
             PROVE  BusyInv' /\ [CountsDown]_vars /\ [UndertakingsKept]_vars
  OBVIOUS
<1>1. CASE UNCHANGED vars
  <2>1. op' = op
    BY <1>1 DEF vars
  <2> QED
    BY <1>1, <2>1 DEF BusyInv
<1>2. CASE Next
  <2>1. op \in [Procs -> Op] /\ op' \in [Procs -> Op]
    BY DEF TypeInv, TypeOK
  <2>2. ASSUME NEW q \in Procs
        PROVE  /\ Busy(op'[q])
               /\ op[q].pc # "idle" => Left(op'[q]) <= Left(op[q])
               /\ \A s \in Closing(op[q]) :
                    \/ s \in Closing(op'[q]) \/ s \notin cache'
                    \/ s \in abandoned' /\ (Fail(q) \/ Rejection(q))
    <3>1. Busy(op[q]) /\ Left(op[q]) \in Nat /\ Left(op'[q]) \in Nat
      BY <2>1, LeftIsNat DEF BusyInv
    <3>2. CASE op'[q] = op[q]
      BY <3>1, <3>2
    <3>3. CASE Begin(q)
      <4>1. op[q].pc = "idle" /\ Busy(op'[q])
        BY <2>1, <3>3, BeginBusy DEF Goto
      <4>2. Closing(op[q]) = {}
        BY <4>1 DEF Closing
      <4> QED
        BY <4>1, <4>2
    <3>4. CASE Step(q)
      <4>1. PICK new : Advances(q, new)
        BY <3>4, StepAdvances
      <4>2. op'[q] = new
        BY <2>1, <4>1 DEF Advances, Goto
      <4>3. /\ Busy(new) /\ Left(new) < Left(op[q])
            /\ \A s \in Closing(op[q]) : s \in Closing(new) \/ s \notin cache'
        BY <4>1 DEF Advances
      <4> QED
        BY <3>1, <4>2, <4>3
    <3>5. CASE Fail(q)
      <4>1. op'[q] = Idle
        BY <2>1, <3>5 DEF Fail, Goto
      <4>2. Closing(op[q]) \subseteq abandoned'
        BY <3>5 DEF Fail
      <4> QED
        BY <3>1, <3>5, <4>1, <4>2, IdleLeft
    <3>7. CASE Rejection(q)
      <4>1. PICK new \in Op : /\ Goto(q, new) /\ Lessened(op[q], new)
                              /\ HandedOver(op[q], new)
        BY <3>7, RejectLessens
      <4>2. op'[q] = new
        BY <2>1, <4>1 DEF Goto
      <4>3. Busy(new) /\ Left(new) <= Left(op[q])
        BY <2>1, <3>1, <3>7, <4>1, RejectLessens, RejectCounts
      <4> QED
        BY <3>7, <4>1, <4>2, <4>3 DEF HandedOver
    <3>6. \/ op'[q] = op[q] \/ Begin(q) \/ Step(q)
          \/ Fail(q) \/ Rejection(q)
      <4>1. ASSUME NEW p \in Procs, p # q,
                   Begin(p) \/ Step(p) \/ Fail(p) \/ Rejection(p)
            PROVE  op'[q] = op[q]
        <5>1. PICK new : Goto(p, new)
          BY <4>1, BeginBusy, StepAdvances, RejectLessens DEF Advances, Fail
        <5> QED
          BY <2>1, <4>1, <5>1 DEF Goto
      <4>2. CASE \E p \in Procs : Begin(p) \/ Step(p) \/ Fail(p)
                                           \/ Rejection(p)
        BY <4>1, <4>2
      <4>3. CASE ~\E p \in Procs : Begin(p) \/ Step(p) \/ Fail(p)
                                           \/ Rejection(p)
        <5>1. op' = op
          BY <1>2, <4>3 DEF Next, Environment, CacheExpire,
             CleanExpiredRefreshTokens, CleanOldSessions
        <5> QED
          BY <5>1
      <4> QED
        BY <4>2, <4>3
    <3> QED
      BY <3>2, <3>3, <3>4, <3>5, <3>6, <3>7
  <2>3. ASSUME NEW q \in Procs, Step(q) PROVE Left(op'[q]) < Left(op[q])
    <3>1. PICK new : Advances(q, new)
      BY <2>3, StepAdvances
    <3>2. op'[q] = new
      BY <2>1, <3>1 DEF Advances, Goto
    <3> QED
      BY <3>1, <3>2 DEF Advances
  <2>4. CountsDown
    BY <2>1, <2>2, <2>3, LeftIsNat DEF CountsDown
  <2>5. UndertakingsKept
    BY <2>2 DEF UndertakingsKept
  <2>6. BusyInv'
    BY <2>2 DEF BusyInv
  <2> QED
    BY <2>4, <2>5, <2>6
<1> QED
  BY <1>1, <1>2

LEMMA BusyAlways == Spec => []BusyInv
BY BusyInit, DownStep, Inductive, PTL DEF Spec

(* A login, a refresh, a logout and a "close everything" have a bounded     *)
(* number of awaits ahead of them: each continuation that runs makes the    *)
(* bound smaller, and no other request and no job makes it larger again.    *)
THEOREM RequestsCountDown == Spec => [][CountsDown]_vars
BY DownStep, BusyAlways, Inductive, PTL DEF Spec

(* A request that has undertaken to remove the key of a session holds on to *)
(* it: no interleaving lets it forget the id, so the key goes, or the       *)
(* request dies or has a parallel call rejected, and the id is among those  *)
(* given up.                                                                *)
THEOREM UndertakingsAreKept == Spec => [][UndertakingsKept]_vars
BY DownStep, BusyAlways, Inductive, PTL DEF Spec

-----------------------------------------------------------------------------
(* No request waits for an id.  The bounds of the model say when a login or *)
(* a refresh may begin; what remains to be seen is that an id reserved so   *)
(* is still there when the row is inserted, whatever ran in between.        *)

Holding(PC) == {p \in Procs : op[p].pc \in PC}

\* Every request that will insert a row has an id left for it.
SpareInv ==
    /\ Cardinality(Used) + Cardinality(Holding({"pick", "store"}))
         <= MaxSessions
    /\ Cardinality(Issued) + Cardinality(Holding(LoginPC \cup RefreshPC))
         <= MaxTokens

\* Nobody inserts, or begins; somebody begins; somebody inserts his row.
SessionsStep ==
    \/ Used' \subseteq Used /\ Holding({"pick", "store"})'
                                \subseteq Holding({"pick", "store"})
    \/ /\ Used' \subseteq Used /\ SessionsToSpare
       /\ \E p \in Procs : Holding({"pick", "store"})'
                             \subseteq Holding({"pick", "store"}) \cup {p}
    \/ \E p \in Holding({"pick", "store"}), s \in Sessions :
          /\ Used' \subseteq Used \cup {s}
          /\ Holding({"pick", "store"})'
                \subseteq Holding({"pick", "store"}) \ {p}

TokensStep ==
    \/ Issued' \subseteq Issued /\ Holding(LoginPC \cup RefreshPC)'
                                    \subseteq Holding(LoginPC \cup RefreshPC)
    \/ /\ Issued' \subseteq Issued /\ TokensToSpare
       /\ \E p \in Procs : Holding(LoginPC \cup RefreshPC)'
                             \subseteq Holding(LoginPC \cup RefreshPC) \cup {p}
    \/ \E p \in Holding(LoginPC \cup RefreshPC), t \in Tokens :
          /\ Issued' \subseteq Issued \cup {t}
          /\ Holding(LoginPC \cup RefreshPC)'
                \subseteq Holding(LoginPC \cup RefreshPC) \ {p}

\* A set of rows and a set of requests, before and after such a step.
LEMMA Reserved ==
    ASSUME NEW N \in Nat, NEW A, NEW B, NEW R, NEW Q,
           IsFiniteSet(A), IsFiniteSet(R), Cardinality(A) + Cardinality(R) <= N,
           \/ B \subseteq A /\ Q \subseteq R
           \/ /\ B \subseteq A /\ Cardinality(A) + Cardinality(R) < N
              /\ \E p : Q \subseteq R \cup {p}
           \/ \E p \in R : \E s : B \subseteq A \cup {s} /\ Q \subseteq R \ {p}
    PROVE  Cardinality(B) + Cardinality(Q) <= N
<1>1. Cardinality(A) \in Nat /\ Cardinality(R) \in Nat
  BY FS_CardinalityType
<1>2. ASSUME NEW X, NEW Y, IsFiniteSet(Y), X \subseteq Y
      PROVE  Cardinality(X) \in Nat /\ Cardinality(X) <= Cardinality(Y)
  BY <1>2, FS_Subset, FS_CardinalityType
<1>3. ASSUME NEW Y, IsFiniteSet(Y), NEW x
      PROVE  /\ IsFiniteSet(Y \cup {x}) /\ Cardinality(Y \cup {x}) \in Nat
             /\ Cardinality(Y \cup {x}) <= Cardinality(Y) + 1
  <2>1. /\ IsFiniteSet(Y \cup {x})
        /\ Cardinality(Y \cup {x})
             = IF x \in Y THEN Cardinality(Y) ELSE Cardinality(Y) + 1
    BY <1>3, FS_AddElement
  <2>2. Cardinality(Y) \in Nat
    BY <1>3, FS_CardinalityType
  <2> QED
    BY <2>1, <2>2
<1>4. CASE B \subseteq A /\ Q \subseteq R
  <2>1. /\ Cardinality(B) \in Nat /\ Cardinality(B) <= Cardinality(A)
        /\ Cardinality(Q) \in Nat /\ Cardinality(Q) <= Cardinality(R)
    BY <1>2, <1>4
  <2> QED
    BY <1>1, <2>1
<1>5. ASSUME NEW p, B \subseteq A, Cardinality(A) + Cardinality(R) < N,
             Q \subseteq R \cup {p}
      PROVE  Cardinality(B) + Cardinality(Q) <= N
  <2>1. Cardinality(B) \in Nat /\ Cardinality(B) <= Cardinality(A)
    BY <1>2, <1>5
  <2>2. /\ IsFiniteSet(R \cup {p}) /\ Cardinality(R \cup {p}) \in Nat
        /\ Cardinality(R \cup {p}) <= Cardinality(R) + 1
    BY <1>3
  <2>3. Cardinality(Q) \in Nat /\ Cardinality(Q) <= Cardinality(R \cup {p})
    BY <1>2, <1>5, <2>2
  <2> QED
    BY <1>1, <1>5, <2>1, <2>2, <2>3
<1>6. ASSUME NEW p \in R, NEW s, B \subseteq A \cup {s}, Q \subseteq R \ {p}
      PROVE  Cardinality(B) + Cardinality(Q) <= N
  <2>1. Cardinality(R \ {p}) = Cardinality(R) - 1 /\ IsFiniteSet(R \ {p})
    BY OneFewer, FS_RemoveElement
  <2>2. Cardinality(Q) \in Nat /\ Cardinality(Q) <= Cardinality(R \ {p})
    BY <1>2, <1>6, <2>1
  <2>3. /\ IsFiniteSet(A \cup {s}) /\ Cardinality(A \cup {s}) \in Nat
        /\ Cardinality(A \cup {s}) <= Cardinality(A) + 1
    BY <1>3
  <2>4. Cardinality(B) \in Nat /\ Cardinality(B) <= Cardinality(A \cup {s})
    BY <1>2, <1>6, <2>3
  <2> QED
    BY <1>1, <2>1, <2>2, <2>3, <2>4
<1> QED
  BY <1>4, <1>5, <1>6

LEMMA UsedFinite ==
    /\ IsFiniteSet(Used) /\ Cardinality(Used) \in Nat
    /\ IsFiniteSet(Issued) /\ Cardinality(Issued) \in Nat
<1>1. IsFiniteSet(Sessions) /\ IsFiniteSet(Tokens)
  BY FS_Interval DEF Sessions, Tokens
<1>2. Used \subseteq Sessions /\ Issued \subseteq Tokens
  BY DEF Used, Issued
<1> QED
  BY <1>1, <1>2, FS_Subset, FS_CardinalityType

LEMMA SpareStep ==
    ASSUME IsFiniteSet(Procs), SpareInv, SessionsStep, TokensStep
    PROVE  SpareInv'
<1> DEFINE PS == {"pick", "store"}
           PT == LoginPC \cup RefreshPC
<1>1. IsFiniteSet(Holding(PS)) /\ IsFiniteSet(Holding(PT))
  <2>1. Holding(PS) \subseteq Procs /\ Holding(PT) \subseteq Procs
    BY DEF Holding
  <2> QED
    BY <2>1, FS_Subset
<1>2. Cardinality(Used') + Cardinality(Holding(PS)') <= MaxSessions
  <2> DEFINE R == Holding(PS)
             Q == Holding(PS)'
  <2>1. /\ Cardinality(Used) + Cardinality(R) <= MaxSessions
        /\ SessionsToSpare => Cardinality(Used) + Cardinality(R) < MaxSessions
    BY DEF SpareInv, SessionsToSpare, Holding
  <2>2. \/ Used' \subseteq Used /\ Q \subseteq R
        \/ /\ Used' \subseteq Used
           /\ Cardinality(Used) + Cardinality(R) < MaxSessions
           /\ \E p : Q \subseteq R \cup {p}
        \/ \E p \in R : \E s : Used' \subseteq Used \cup {s} /\ Q \subseteq R \ {p}
    BY <2>1 DEF SessionsStep
  <2> HIDE DEF R, Q
  <2>3. IsFiniteSet(R)
    BY <1>1 DEF R
  <2>4. Cardinality(Used') + Cardinality(Q) <= MaxSessions
    BY <2>1, <2>2, <2>3, UsedFinite, Reserved
  <2> QED
    BY <2>4 DEF Q
<1>3. Cardinality(Issued') + Cardinality(Holding(PT)') <= MaxTokens
  <2> DEFINE R == Holding(PT)
             Q == Holding(PT)'
  <2>1. /\ Cardinality(Issued) + Cardinality(R) <= MaxTokens
        /\ TokensToSpare => Cardinality(Issued) + Cardinality(R) < MaxTokens
    BY DEF SpareInv, TokensToSpare, Holding
  <2>2. \/ Issued' \subseteq Issued /\ Q \subseteq R
        \/ /\ Issued' \subseteq Issued
           /\ Cardinality(Issued) + Cardinality(R) < MaxTokens
           /\ \E p : Q \subseteq R \cup {p}
        \/ \E p \in R : \E s : Issued' \subseteq Issued \cup {s} /\ Q \subseteq R \ {p}
    BY <2>1 DEF TokensStep
  <2> HIDE DEF R, Q
  <2>3. IsFiniteSet(R)
    BY <1>1 DEF R
  <2>4. Cardinality(Issued') + Cardinality(Q) <= MaxTokens
    BY <2>1, <2>2, <2>3, UsedFinite, Reserved
  <2> QED
    BY <2>4 DEF Q
<1> QED
  BY <1>2, <1>3 DEF SpareInv

LEMMA HeldLess ==
    ASSUME TypeInv, NEW p \in Procs, NEW new, Goto(p, new), NEW PC
    PROVE  /\ Holding(PC)' \subseteq Holding(PC) \cup {p}
           /\ op[p].pc \in PC => Holding(PC)' \subseteq Holding(PC)
           /\ new.pc \notin PC => Holding(PC)' \subseteq Holding(PC) \ {p}
BY DEF TypeInv, TypeOK, Goto, Holding

\* Inserted rows only change their state.
LEMMA UsedLess ==
    ASSUME \A s \in Sessions : row'[s] # "unused" => row[s] # "unused"
    PROVE  Used' \subseteq Used
BY DEF Used

LEMMA IssuedLess ==
    ASSUME \A t \in Tokens : token'[t].state # "unused" => token[t].state # "unused"
    PROVE  Issued' \subseteq Issued
BY DEF Issued

LEMMA RevokeIssues ==
    ASSUME TypeInv, NEW S, Revoke(S) PROVE Issued' \subseteq Issued
BY RevokeAges, IssuedLess DEF Ages

LEMMA LoginSpares ==
    ASSUME TypeInv, DeadInv, NEW p \in Procs,
           Login(p) \/ \E u \in Users, d \in Devices : LoginCount(p, u, d)
    PROVE  SessionsStep /\ TokensStep
<1> DEFINE o == op[p]
<1>1. o \in Op
  BY DEF TypeInv, TypeOK
<1>2. ASSUME NEW u \in Users, NEW d \in Devices, LoginCount(p, u, d)
      PROVE  SessionsStep /\ TokensStep
  <2>1. Used' = Used /\ Issued' = Issued
    BY <1>2 DEF LoginCount, db, Used, Issued
  <2>2. \E new : Goto(p, new)
    BY <1>2 DEF LoginCount
  <2>3. SessionsToSpare /\ TokensToSpare
    BY <1>2 DEF LoginCount
  <2> QED
    BY <2>1, <2>2, <2>3, HeldLess DEF SessionsStep, TokensStep
<1>3. CASE LoginPick(p)
  <2>1. Used' = Used /\ Issued' = Issued
    BY <1>3 DEF LoginPick, db, Used, Issued
  <2>2. (\E new : Goto(p, new)) /\ o.pc = "pick"
    BY <1>3 DEF LoginPick
  <2>3. o.pc \in {"pick", "store"} /\ o.pc \in LoginPC \cup RefreshPC
    BY <2>2 DEF LoginPC
  <2> QED
    BY <2>1, <2>2, <2>3, HeldLess DEF SessionsStep, TokensStep
<1>4. CASE LoginStore(p)
  <2>1. Issued' = Issued
    BY <1>4 DEF LoginStore, db, Issued
  <2>2. (\E new : Goto(p, new)) /\ o.pc = "store"
    BY <1>4 DEF LoginStore
  <2>3. o.pc \in {"pick", "store"} /\ o.pc \in LoginPC \cup RefreshPC
    BY <2>2 DEF LoginPC
  <2>4. TokensStep
    BY <2>1, <2>2, <2>3, HeldLess DEF TokensStep
  <2>5. CASE Goto(p, Idle) /\ UNCHANGED row
    <3>1. Used' = Used
      BY <2>5 DEF Used
    <3> QED
      BY <2>2, <2>3, <2>4, <3>1, HeldLess DEF SessionsStep
  <2>6. CASE ~(Goto(p, Idle) /\ UNCHANGED row)
    <3>1. PICK s \in Sessions :
             /\ row' = [row EXCEPT ![s] = "pending"]
             /\ Goto(p, [o EXCEPT !.pc = "commit", !.sess = s])
      BY <1>4, <2>6 DEF LoginStore, db
    <3>2. Used' \subseteq Used \cup {s}
      BY <3>1 DEF Used, TypeInv, TypeOK
    <3> DEFINE new == [o EXCEPT !.pc = "commit", !.sess = s]
    <3>3. Goto(p, new) /\ new.pc \notin {"pick", "store"}
      BY <1>1, <3>1 DEF Op
    <3> HIDE DEF new
    <3>4. Holding({"pick", "store"})' \subseteq Holding({"pick", "store"}) \ {p}
      BY <3>3, HeldLess
    <3>5. p \in Holding({"pick", "store"})
      BY <2>3 DEF Holding
    <3> QED
      BY <2>4, <3>2, <3>4, <3>5 DEF SessionsStep
  <2> QED
    BY <2>5, <2>6
<1>5. CASE LoginCommit(p)
  <2>1. o.pc = "commit" /\ Goto(p, Idle)
    BY <1>5 DEF LoginCommit
  <2>2. row[o.sess] # "unused"
        /\ (o.victim # NoSession => row[o.victim] # "unused")
    BY <2>1 DEF DeadInv, Serves, LoginPC
  <2>3. \A s \in Sessions : row'[s] # "unused" => row[s] # "unused"
    BY <1>5, <2>2 DEF LoginCommit, EvictedBy
  <2>4. Used' \subseteq Used
    BY <2>3, UsedLess
  <2>5. PICK t \in Tokens : token' = [token EXCEPT ![t] = FirstToken(t, o.sess)]
    BY <1>5 DEF LoginCommit
  <2>6. Issued' \subseteq Issued \cup {t}
    BY <2>5 DEF Issued, TypeInv, TypeOK
  <2>7. Idle.pc \notin {"pick", "store"} /\ Idle.pc \notin LoginPC \cup RefreshPC
    BY IdleLeft DEF LoginPC, RefreshPC
  <2>8. p \in Holding(LoginPC \cup RefreshPC)
    BY <2>1 DEF Holding, LoginPC
  <2>9. /\ Holding({"pick", "store"})' \subseteq Holding({"pick", "store"})
        /\ Holding(LoginPC \cup RefreshPC)'
             \subseteq Holding(LoginPC \cup RefreshPC) \ {p}
    BY <2>1, <2>7, HeldLess
  <2> QED
    BY <2>4, <2>6, <2>8, <2>9 DEF SessionsStep, TokensStep
<1> QED
  BY <1>2, <1>3, <1>4, <1>5 DEF Login

LEMMA RefreshSpares ==
    ASSUME TypeInv, NEW p \in Procs,
           Refresh(p) \/ \E t \in Tokens : RefreshFind(p, t)
    PROVE  SessionsStep /\ TokensStep
<1> DEFINE o == op[p]
<1>1. o \in Op
  BY DEF TypeInv, TypeOK
<1>2. Used' = Used
  BY DEF Refresh, RefreshFind, RefreshCheck, RefreshRevoke, RefreshCreate, db, Used
<1>3. PICK new : Goto(p, new) /\ new.pc \notin {"pick", "store"}
  <2>1. ASSUME NEW t \in Tokens, RefreshFind(p, t)
        PROVE  \E new : Goto(p, new) /\ new.pc \notin {"pick", "store"}
    <3> DEFINE s   == token[t].session
               chk == [Idle EXCEPT !.pc = "check", !.tok = t, !.sess = s,
                                   !.late = s \in closed]
               cls == [Idle EXCEPT !.pc = "close", !.tok = t, !.sess = s,
                                   !.todo = {"tokens", "cache"}]
    <3>1. chk.pc = "check" /\ cls.pc = "close"
      BY DEF Idle
    <3>2. Goto(p, chk) \/ Goto(p, cls)
      BY <2>1 DEF RefreshFind
    <3> HIDE DEF chk, cls
    <3> QED
      BY <3>1, <3>2
  <2>2. CASE Refresh(p)
    <3>1. /\ [o EXCEPT !.pc = "revoke"].pc = "revoke"
          /\ [o EXCEPT !.pc = "create"].pc = "create"
      BY <1>1 DEF Op
    <3> QED
      BY <2>2, <3>1, IdleLeft
      DEF Refresh, RefreshCheck, RefreshRevoke, RefreshCreate
  <2> QED
    BY <2>1, <2>2
<1>4. SessionsStep
  BY <1>2, <1>3, HeldLess DEF SessionsStep
<1>5. ASSUME NEW t \in Tokens, RefreshFind(p, t) PROVE TokensStep
  <2>1. Issued' = Issued
    BY <1>5 DEF RefreshFind, db, Issued
  <2>2. CASE TokensToSpare
    BY <1>3, <2>1, <2>2, HeldLess DEF TokensStep
  <2>3. CASE ~TokensToSpare
    <3> DEFINE cls == [Idle EXCEPT !.pc = "close", !.tok = t,
                                   !.sess = token[t].session,
                                   !.todo = {"tokens", "cache"}]
    <3>1. Goto(p, cls)
      BY <1>5, <2>3 DEF RefreshFind
    <3>2. cls.pc \notin LoginPC \cup RefreshPC
      BY DEF Idle, LoginPC, RefreshPC
    <3> HIDE DEF cls
    <3> QED
      BY <2>1, <3>1, <3>2, HeldLess DEF TokensStep
  <2> QED
    BY <2>2, <2>3
<1>6. ASSUME Refresh(p) PROVE o.pc \in LoginPC \cup RefreshPC
  BY <1>6 DEF Refresh, RefreshCheck, RefreshRevoke, RefreshCreate, RefreshPC
<1>7. CASE RefreshCheck(p) \/ RefreshRevoke(p)
  <2>1. Issued' \subseteq Issued
    BY <1>7, RevokeIssues DEF RefreshCheck, RefreshRevoke, db, Issued
  <2>2. o.pc \in LoginPC \cup RefreshPC
    BY <1>6, <1>7 DEF Refresh
  <2>3. Holding(LoginPC \cup RefreshPC)' \subseteq Holding(LoginPC \cup RefreshPC)
    BY <1>3, <2>2, HeldLess
  <2> QED
    BY <1>4, <2>1, <2>3 DEF TokensStep
<1>8. CASE RefreshCreate(p)
  <2>1. Goto(p, Idle) /\ Idle.pc \notin LoginPC \cup RefreshPC
    BY <1>8, IdleLeft DEF RefreshCreate, LoginPC, RefreshPC
  <2>2. p \in Holding(LoginPC \cup RefreshPC)
    BY <1>6, <1>8 DEF Refresh, Holding
  <2>3. Holding(LoginPC \cup RefreshPC)'
          \subseteq Holding(LoginPC \cup RefreshPC) \ {p}
    BY <2>1, HeldLess
  <2>4. CASE token' = token
    BY <1>4, <2>3, <2>4 DEF TokensStep, Issued
  <2>5. CASE token' # token
    <3>1. PICK n \in Tokens : \E r : token' = [token EXCEPT ![n] = r]
      BY <1>8, <2>5 DEF RefreshCreate
    <3>2. Issued' \subseteq Issued \cup {n}
      BY <3>1 DEF Issued, TypeInv, TypeOK
    <3> QED
      BY <1>4, <2>2, <2>3, <3>2 DEF TokensStep
  <2> QED
    BY <2>4, <2>5
<1> QED
  BY <1>4, <1>5, <1>7, <1>8 DEF Refresh

LEMMA ClosingSpares ==
    ASSUME TypeInv, NEW p \in Procs,
           \/ CloseOne(p) \/ CloseAll(p)
           \/ \E s \in Sessions : LogoutBegin(p, s)
           \/ \E c, s \in Sessions : RevokeSessionBegin(p, c, s)
           \/ \E u \in Users : SweepBegin(p, u)
    PROVE  SessionsStep /\ TokensStep
<1> DEFINE o == op[p]
<1>1. o \in Op
  BY DEF TypeInv, TypeOK
<1>2. Used' \subseteq Used
  <2>1. \A s \in Sessions : row'[s] # "unused" => row[s] # "unused"
    BY DEF CloseOne, CloseRow, CloseTokens, CloseCache, CloseAll, SweepList,
           SweepMark, SweepTokens, SweepPurge, LogoutBegin, RevokeSessionBegin,
           SweepBegin, db, TypeInv, TypeOK
  <2> QED
    BY <2>1, UsedLess
<1>3. Issued' \subseteq Issued
  BY RevokeIssues
  DEF CloseOne, CloseRow, CloseTokens, CloseCache, CloseAll, SweepList,
      SweepMark, SweepTokens, SweepPurge, LogoutBegin, RevokeSessionBegin,
      SweepBegin, db, Issued
<1>4. PICK new : Goto(p, new) /\ new.pc \in {"idle", "close", "sweep"}
  <2>1. ASSUME NEW part, Returned(p, part)
        PROVE  \E new : Goto(p, new) /\ new.pc \in {"idle", "close", "sweep"}
    <3>1. [o EXCEPT !.todo = o.todo \ {part}].pc = "close"
      BY <1>1, <2>1 DEF Op, Returned
    <3>2. Goto(p, Idle) \/ Goto(p, [o EXCEPT !.todo = o.todo \ {part}])
      BY <2>1 DEF Returned
    <3> QED
      BY <3>1, <3>2, IdleLeft
  <2>2. ASSUME NEW new, SweepGoto(p, new), new.pc = "sweep"
        PROVE  \E n : Goto(p, n) /\ n.pc \in {"idle", "close", "sweep"}
    BY <2>2, IdleLeft DEF SweepGoto
  <2>3. CASE CloseOne(p)
    BY <2>1, <2>3 DEF CloseOne, CloseRow, CloseTokens, CloseCache
  <2>4. CASE SweepMark(p) \/ SweepTokens(p)
    <3>1. PICK x : SweepGoto(p, [o EXCEPT !.todo = o.todo \ {x}]) /\ o.pc = "sweep"
      BY <2>4 DEF SweepMark, SweepTokens
    <3>2. [o EXCEPT !.todo = o.todo \ {x}].pc = "sweep"
      BY <1>1, <3>1 DEF Op
    <3> QED
      BY <2>2, <3>1, <3>2
  <2>5. CASE SweepList(p)
    <3> DEFINE new == [o EXCEPT !.ids = Active(o.user),
                 !.todo = (o.todo \ {"list"})
                          \cup (IF Active(o.user) = {} THEN {} ELSE {"mark"})]
    <3>1. SweepGoto(p, new) /\ o.pc = "sweep"
      BY <2>5 DEF SweepList
    <3>2. new.pc = "sweep"
      BY <1>1, <3>1 DEF Op
    <3> QED
      BY <2>2, <3>1, <3>2
  <2>6. CASE \E s \in Sessions : SweepPurge(p, s)
    <3>1. PICK s \in Sessions :
             SweepGoto(p, [o EXCEPT !.ids = o.ids \ {s}]) /\ o.pc = "sweep"
      BY <2>6 DEF SweepPurge
    <3>2. [o EXCEPT !.ids = o.ids \ {s}].pc = "sweep"
      BY <1>1, <3>1 DEF Op
    <3> QED
      BY <2>2, <3>1, <3>2
  <2>7. CASE \/ \E s \in Sessions : LogoutBegin(p, s)
             \/ \E c, s \in Sessions : RevokeSessionBegin(p, c, s)
    <3>1. PICK s \in Sessions : Goto(p, Close(s))
      BY <2>7 DEF LogoutBegin, RevokeSessionBegin
    <3>2. Close(s).pc = "close"
      BY DEF Close, Idle
    <3> QED
      BY <3>1, <3>2
  <2>8. ASSUME NEW u \in Users, SweepBegin(p, u)
        PROVE  \E new : Goto(p, new) /\ new.pc \in {"idle", "close", "sweep"}
    <3> DEFINE new == [Idle EXCEPT !.pc = "sweep", !.user = u,
                              !.todo = {"list", "tokens"}]
    <3>1. Goto(p, new)
      BY <2>8 DEF SweepBegin
    <3>2. new.pc = "sweep"
      BY DEF Idle
    <3> QED
      BY <3>1, <3>2
  <2> QED
    BY <2>3, <2>4, <2>5, <2>6, <2>7, <2>8 DEF CloseAll
<1>5. new.pc \notin {"pick", "store"} /\ new.pc \notin LoginPC \cup RefreshPC
  BY <1>4 DEF LoginPC, RefreshPC
<1> QED
  BY <1>2, <1>3, <1>4, <1>5, HeldLess DEF SessionsStep, TokensStep

LEMMA EnvironmentSpares ==
    ASSUME TypeInv, DeadInv, TokenInv, Environment
    PROVE  SessionsStep /\ TokensStep
<1>1. CASE \E p \in Procs : Fail(p)
  <2>1. PICK p \in Procs : Fail(p)
    BY <1>1
  <2>2. op[p].pc = "commit" => row[op[p].sess] # "unused"
    BY DEF DeadInv, Serves
  <2>3. \A s \in Sessions : row'[s] # "unused" => row[s] # "unused"
    BY <2>1, <2>2 DEF Fail, TypeInv, TypeOK
  <2>4. Used' \subseteq Used /\ Issued' = Issued
    BY <2>1, <2>3, UsedLess DEF Fail, Issued
  <2>5. Idle.pc \notin {"pick", "store"} /\ Idle.pc \notin LoginPC \cup RefreshPC
    BY IdleLeft DEF LoginPC, RefreshPC
  <2>6. Goto(p, Idle)
    BY <2>1 DEF Fail
  <2> QED
    BY <2>4, <2>5, <2>6, HeldLess DEF SessionsStep, TokensStep
<1>3. CASE \E p \in Procs : Rejection(p)
  <2>1. PICK p \in Procs : Rejection(p)
    BY <1>3
  <2>2. UNCHANGED <<row, token>> /\ op[p].pc \in {"close", "sweep"}
    BY <2>1, RejectLessens
  <2>3. PICK new \in Op : Goto(p, new) /\ Lessened(op[p], new)
    BY <2>1, RejectLessens
  <2>4. new.pc \notin {"pick", "store"} /\ new.pc \notin LoginPC \cup RefreshPC
    BY <2>2, <2>3, IdleLeft DEF Lessened, LoginPC, RefreshPC
  <2>5. Used' = Used /\ Issued' = Issued
    BY <2>2 DEF Used, Issued
  <2> QED
    BY <2>3, <2>4, <2>5, HeldLess DEF SessionsStep, TokensStep
<1>2. CASE ~\E p \in Procs : Fail(p) \/ Rejection(p)
  <2>1. op' = op
    BY <1>2 DEF Environment, CacheExpire, CleanExpiredRefreshTokens, CleanOldSessions
  <2>2. \A s \in Sessions : row'[s] # "unused" => row[s] # "unused"
    BY <1>2 DEF Environment, CacheExpire, CleanExpiredRefreshTokens,
                CleanOldSessions, db
  <2>3. \A t \in Tokens : token'[t].state # "unused" => token[t].state # "unused"
    <3>1. \A t \in Tokens :
             token[t].state = "unused" => token[t].session \notin Sessions
      BY DEF TokenInv, Founded, NoSession, Sessions
    <3>2. CASE CleanOldSessions
      BY <3>1, <3>2 DEF CleanOldSessions
    <3>3. CASE ~CleanOldSessions
      BY <1>2, <3>3 DEF Environment, CacheExpire, CleanExpiredRefreshTokens,
                        db, TypeInv, TypeOK
    <3> QED
      BY <3>2, <3>3
  <2>4. \A PC : Holding(PC)' = Holding(PC)
    BY <2>1 DEF Holding
  <2> QED
    BY <2>2, <2>3, <2>4, UsedLess, IssuedLess DEF SessionsStep, TokensStep
<1> QED
  BY <1>1, <1>2, <1>3

LEMMA SpareInit == ASSUME IsFiniteSet(Procs) PROVE Init => SpareInv
<1>1. ASSUME Init PROVE SpareInv
  <2>1. Used = {} /\ Issued = {}
    BY <1>1 DEF Init, Used, Issued, FreshToken
  <2>2. Holding({"pick", "store"}) = {} /\ Holding(LoginPC \cup RefreshPC) = {}
    BY <1>1, IdleLeft DEF Init, Holding, LoginPC, RefreshPC
  <2>3. Cardinality({}) = 0
    BY FS_EmptySet
  <2> QED
    BY <2>1, <2>2, <2>3 DEF SpareInv
<1> QED
  BY <1>1

LEMMA SpareKept ==
    ASSUME IsFiniteSet(Procs)
    PROVE  TypeInv /\ DeadInv /\ TokenInv /\ SpareInv /\ [Next]_vars => SpareInv'
<1> SUFFICES ASSUME TypeInv, DeadInv, TokenInv, SpareInv, [Next]_vars
             PROVE  SpareInv'
  OBVIOUS
<1>1. CASE UNCHANGED vars
  BY <1>1 DEF vars, SpareInv, Used, Issued, Holding
<1>2. CASE Next
  <2>1. SessionsStep /\ TokensStep
    BY <1>2, LoginSpares, RefreshSpares, ClosingSpares, EnvironmentSpares
    DEF Next, Begin, Step
  <2> QED
    BY <2>1, SpareStep
<1> QED
  BY <1>1, <1>2

LEMMA Least ==
    ASSUME NEW S \in SUBSET Nat, S # {}
    PROVE  \E m \in S : \A s \in S : m <= s
<1>1. PICK m \in S : \A s \in S : ~ (<<s, m>> \in OpToRel(<, Nat))
  BY NatLessThanWellFounded, WFMin
<1>2. \A s \in S : ~ (s < m)
  BY <1>1 DEF OpToRel
<1> QED
  BY <1>2

\* With fewer than N ids taken there is a next one.
LEMMA NextFree ==
    ASSUME NEW N \in Nat, NEW A \in SUBSET (1..N), Cardinality(A) < N
    PROVE  \E x \in 1..N : IsNext(x, A)
<1> DEFINE S == (1..N) \ A
<1>1. S # {}
  <2>1. Cardinality(1..N) = N
    BY FS_Interval
  <2>2. A # 1..N
    BY <2>1
  <2> QED
    BY <2>2
<1>2. S \in SUBSET Nat
  OBVIOUS
<1>3. PICK m \in S : \A s \in S : m <= s
  BY <1>1, <1>2, Least
<1>4. ASSUME NEW s \in 1..(m - 1) PROVE s \in A
  <2>1. s \in 1..N /\ ~(m <= s)
    BY <1>4
  <2> QED
    BY <1>3, <2>1
<1> QED
  BY <1>4 DEF IsNext

LEMMA NeverWaits ==
    ASSUME IsFiniteSet(Procs), TypeInv, BusyInv, SpareInv PROVE NeverStuck
<1>1. ASSUME NEW PC, NEW p \in Procs, op[p].pc \in PC
      PROVE  Cardinality(Holding(PC)) \in Nat \ {0}
  <2>1. Holding(PC) \subseteq Procs /\ p \in Holding(PC)
    BY <1>1 DEF Holding
  <2>2. IsFiniteSet(Holding(PC))
    BY <2>1, FS_Subset
  <2> QED
    BY <2>1, <2>2, FS_CardinalityType, FS_EmptySet
<1>2. ASSUME NEW p \in Procs, op[p].pc \in {"commit", "create"} PROVE MayStep(p)
  <2>1. op[p].pc \in LoginPC \cup RefreshPC
    BY <1>2 DEF LoginPC, RefreshPC
  <2>2. Cardinality(Holding(LoginPC \cup RefreshPC)) \in Nat \ {0}
    BY <1>1, <2>1
  <2>3. Cardinality(Issued) < MaxTokens
    BY <2>2, UsedFinite DEF SpareInv
  <2>4. Issued \in SUBSET (1..MaxTokens)
    BY DEF Issued, Tokens
  <2>5. \E t \in Tokens : IsNext(t, Issued)
    BY <2>3, <2>4, NextFree DEF Tokens
  <2> QED
    BY <1>2, <2>5 DEF MayStep
<1>3. ASSUME NEW p \in Procs, NEW s \in {op[p].victim, op[p].sess} \cup op[p].ids,
             LockedRow(s)
      PROVE  \E q \in Procs : Holds(q, p) /\ MayStep(q)
  BY <1>2, <1>3 DEF LockedRow, Holds
<1>4. ASSUME NEW p \in Procs, op[p].pc # "idle"
      PROVE  MayStep(p) \/ \E q \in Procs : Holds(q, p) /\ MayStep(q)
  <2> DEFINE o == op[p]
  <2>1. o \in Op /\ Busy(o)
    BY DEF TypeInv, TypeOK, BusyInv
  <2>2. CASE o.pc \in {"check", "revoke"}
    BY <2>2 DEF MayStep
  <2>3. CASE o.pc \in {"commit", "create"}
    BY <1>2, <2>3
  <2>4. CASE o.pc = "pick"
    <3>1. Active(o.user) \in SUBSET Nat
      BY DEF Active, Sessions
    <3> QED
      BY <2>4, <3>1, Least DEF MayStep
  <2>5. CASE o.pc = "store"
    <3>1. Cardinality(Holding({"pick", "store"})) \in Nat \ {0}
      BY <1>1, <2>5
    <3>2. Cardinality(Used) < MaxSessions
      BY <3>1, UsedFinite DEF SpareInv
    <3>3. Used \in SUBSET (1..MaxSessions)
      BY DEF Used, Sessions
    <3>4. \E s \in Sessions : IsNext(s, Used)
      BY <3>2, <3>3, NextFree DEF Sessions
    <3> QED
      BY <1>3, <2>5, <3>4 DEF MayStep
  <2>6. CASE o.pc = "close"
    <3>1. o.todo # {} /\ o.todo \subseteq {"row", "tokens", "cache"}
      BY <2>1, <2>6 DEF Busy
    <3> QED
      BY <1>3, <2>6, <3>1 DEF MayStep
  <2>7. CASE o.pc = "sweep"
    <3>1. /\ o.todo # {} \/ o.ids # {}
          /\ o.todo \subseteq {"list", "tokens", "mark"}
      BY <2>1, <2>7 DEF Busy
    <3>2. CASE o.todo \cap {"list", "tokens"} # {} \/ o.todo = {}
      BY <2>7, <3>1, <3>2 DEF MayStep
    <3>3. CASE "mark" \in o.todo
      BY <1>3, <2>7, <3>3 DEF MayStep, Listed
    <3> QED
      BY <3>1, <3>2, <3>3
  <2>8. o.pc \in {"pick", "check", "store", "revoke", "commit", "create",
                  "close", "sweep"}
    BY <1>4, <2>1 DEF Op, LoginPC, RefreshPC
  <2> QED
    BY <2>2, <2>3, <2>4, <2>5, <2>6, <2>7, <2>8
<1>5. \A p \in Procs : op[p] \in Op /\ Busy(op[p])
  BY DEF TypeInv, TypeOK, BusyInv
<1>6. \A p \in Procs : op[p].pc = "idle" => Left(op[p]) = 0
  BY DEF Left
<1> QED
  BY <1>4, <1>5, <1>6, BusyLeft DEF NeverStuck

(* A request that has begun never gets stuck: it can take its next step, or *)
(* it waits for a row that the login of another request has locked, and     *)
(* that login, which waits for nobody, can commit.  So there is no cycle of *)
(* requests waiting for each other, and with RequestsCountDown what a fair  *)
(* scheduler has to do is only to run continuations that are ready.         *)
THEOREM RequestsGoOn == IsFiniteSet(Procs) => (Spec => []NeverStuck)
<1>1. CASE IsFiniteSet(Procs)
  <2>1. Init => SpareInv
    BY <1>1, SpareInit
  <2>2. TypeInv /\ DeadInv /\ TokenInv /\ SpareInv /\ [Next]_vars => SpareInv'
    BY <1>1, SpareKept
  <2>3. TypeInv /\ BusyInv /\ SpareInv => NeverStuck
    BY <1>1, NeverWaits
  <2> QED
    BY <2>1, <2>2, <2>3, Inductive, TokensSound, BusyAlways, PTL DEF Spec
<1> QED
  BY <1>1

-----------------------------------------------------------------------------
(* Nothing comes back.  Rows are written by statements that were decided on *)
(* earlier; still, each row moves through its states in one direction.      *)

RowAges(s) ==
    \/ row'[s] = row[s]
    \/ row[s] = "unused"  /\ row'[s] = "pending"
    \/ row[s] = "pending" /\ row'[s] \in {"active", "aborted"}
    \/ row[s] = "active"  /\ row'[s] = "revoked"
    \/ row[s] = "revoked" /\ row'[s] = "deleted"

TokenAges(t) ==
    \/ token'[t] = token[t]
    \/ token[t].state = "unused" /\ token'[t].state = "live"
    \/ /\ token'[t] = [token[t] EXCEPT !.state = token'[t].state]
       /\ \/ token[t].state = "live" /\ token'[t].state = "revoked"
          \/ token[t].state \in {"live", "revoked"} /\ token'[t].state = "deleted"

RecordsAge == (\A s \in Sessions : RowAges(s)) /\ (\A t \in Tokens : TokenAges(t))

\* The row is written before the closing is reported.
RowIsClosed(o, r) ==
    /\ o.pc = "close" /\ o.tok = NoToken /\ "row" \notin o.todo /\ ~o.failed
          => r[o.sess] \in Over
    /\ o.pc = "sweep" /\ o.todo \cap {"list", "mark"} = {} /\ ~o.failed
          => \A s \in o.ids : r[s] \in Over

RowsClosed == \A p \in Procs : RowIsClosed(op[p], row)

\* What a request knows of the rows it is going to write.
Expects(o, r) ==
    /\ o.pc = "commit" => r[o.sess] = "pending"
    /\ o.pc \in LoginPC /\ o.victim # NoSession => r[o.victim] \in Committed
    /\ o.pc = "commit" /\ o.victim # NoSession => r[o.victim] # "deleted"
    /\ \A s \in o.ids : r[s] \in Committed
    /\ o.pc = "close" /\ o.tok = NoToken => r[o.sess] \in Committed
    /\ RowIsClosed(o, r)

\* Two logins insert two rows.
Distinct(f) == \A p, q \in Procs :
    p # q /\ f[p].pc = "commit" /\ f[q].pc = "commit" => f[p].sess # f[q].sess

RowsInv == Distinct(op) /\ \A p \in Procs : Expects(op[p], row)

RowsStep == RowsInv' /\ \A s \in Sessions : RowAges(s)

\* A request that stays where it is still knows what it knew.
LEMMA StillExpects ==
    ASSUME NEW o \in Op, HoldsIds(o), Expects(o, row),
           \A s \in Sessions : RowAges(s),
           o.pc = "commit" => row'[o.sess] = "pending",
           o.pc = "commit" /\ o.victim # NoSession => row'[o.victim] # "deleted"
    PROVE  Expects(o, row')
<1>1. /\ o.ids \subseteq Sessions /\ o.victim \in Sessions \cup {NoSession}
      /\ o.pc \in {"close", "commit"} => o.sess \in Sessions
  BY DEF Op, HoldsIds
<1>2. \A s \in Sessions : /\ row[s] \in Committed => row'[s] \in Committed
                          /\ row[s] \in Over => row'[s] \in Over
  BY DEF RowAges, Committed, Over
<1>3. RowIsClosed(o, row')
  BY <1>1, <1>2 DEF Expects, RowIsClosed
<1> QED
  BY <1>1, <1>2, <1>3 DEF Expects

LEMMA RowsFrame ==
    ASSUME TypeInv, RowsInv, \A s \in Sessions : RowAges(s), Distinct(op'),
           \A q \in Procs :
              \/ Expects(op'[q], row')
              \/ /\ op'[q] = op[q]
                 /\ op[q].pc = "commit" =>
                       /\ row'[op[q].sess] = "pending"
                       /\ op[q].victim # NoSession
                             => row'[op[q].victim] # "deleted"
    PROVE  RowsStep
<1>1. ASSUME NEW q \in Procs PROVE Expects(op'[q], row')
  <2>1. op[q] \in Op /\ HoldsIds(op[q]) /\ Expects(op[q], row)
    BY DEF TypeInv, TypeOK, RowsInv
  <2> QED
    BY <2>1, StillExpects
<1> QED
  BY <1>1 DEF RowsStep, RowsInv

\* A step of one request that writes no row.
LEMMA RowsSame ==
    ASSUME TypeInv, RowsInv, row' = row, NEW p \in Procs, NEW new, Goto(p, new),
           Expects(new, row), new.pc # "commit"
    PROVE  RowsStep
<1>1. \A q \in Procs : op'[q] = IF q = p THEN new ELSE op[q]
  BY DEF TypeInv, TypeOK, Goto
<1>2. \A s \in Sessions : RowAges(s)
  BY DEF RowAges
<1>3. Distinct(op')
  BY <1>1 DEF RowsInv, Distinct
<1>4. \A q \in Procs : Expects(op'[q], row')
  BY <1>1 DEF RowsInv
<1> QED
  BY <1>2, <1>3, <1>4 DEF RowsStep, RowsInv

LEMMA IdleExpects == ASSUME NEW r PROVE Expects(Idle, r)
BY DEF Idle, Expects, RowIsClosed, LoginPC

LEMMA LoginRows ==
    ASSUME TypeInv, DeadInv, RowsInv, NEW p \in Procs,
           Login(p) \/ \E u \in Users, d \in Devices : LoginCount(p, u, d)
    PROVE  RowsStep
<1> DEFINE o == op[p]
<1>1. o \in Op /\ HoldsIds(o) /\ Expects(o, row)
  BY DEF TypeInv, TypeOK, RowsInv
<1>2. ASSUME NEW u \in Users, NEW d \in Devices, LoginCount(p, u, d) PROVE RowsStep
  <2> DEFINE new == [Idle EXCEPT !.user = u, !.device = d,
                            !.pc = IF Full(u) THEN "pick" ELSE "store"]
  <2>1. new.pc \in {"pick", "store"} /\ new.victim = NoSession /\ new.ids = {}
    BY DEF Idle
  <2>2. Goto(p, new) /\ row' = row
    BY <1>2 DEF LoginCount, db
  <2> HIDE DEF new
  <2>3. Expects(new, row)
    BY <2>1 DEF Expects, RowIsClosed
  <2> QED
    BY <2>1, <2>2, <2>3, RowsSame
<1>3. CASE LoginPick(p)
  <2>1. row' = row /\ o.pc = "pick"
    BY <1>3 DEF LoginPick, db
  <2>2. PICK new : /\ Goto(p, new) /\ new.pc = "store" /\ new.ids = o.ids
                   /\ new.victim = o.victim \/ new.victim \in Active(o.user)
    <3>1. CASE Goto(p, [o EXCEPT !.pc = "store"])
      <4> DEFINE new == [o EXCEPT !.pc = "store"]
      <4>1. /\ Goto(p, new) /\ new.pc = "store" /\ new.ids = o.ids
            /\ new.victim = o.victim
        BY <1>1, <3>1 DEF Op
      <4> QED
        BY <4>1
    <3>2. ASSUME NEW v \in Active(o.user),
                 Goto(p, [o EXCEPT !.pc = "store", !.victim = v])
          PROVE  \E new : /\ Goto(p, new) /\ new.pc = "store" /\ new.ids = o.ids
                          /\ new.victim = o.victim \/ new.victim \in Active(o.user)
      <4> DEFINE new == [o EXCEPT !.pc = "store", !.victim = v]
      <4>1. /\ Goto(p, new) /\ new.pc = "store" /\ new.ids = o.ids
            /\ new.victim = v
        BY <1>1, <3>2 DEF Op
      <4> QED
        BY <4>1
    <3> QED
      BY <1>3, <3>1, <3>2 DEF LoginPick
  <2>3. o.victim # NoSession => row[o.victim] \in Committed
    BY <1>1, <2>1 DEF Expects, LoginPC
  <2>4. \A v \in Active(o.user) : row[v] \in Committed
    BY DEF Active, Committed
  <2>5. new.victim # NoSession => row[new.victim] \in Committed
    BY <2>2, <2>3, <2>4
  <2>6. Expects(new, row)
    BY <1>1, <2>2, <2>5 DEF Expects, RowIsClosed
  <2> QED
    BY <2>1, <2>2, <2>6, RowsSame
<1>4. CASE LoginStore(p)
  <2>1. CASE Goto(p, Idle) /\ row' = row
    BY <2>1, IdleExpects, IdleLeft, RowsSame
  <2>2. CASE ~(Goto(p, Idle) /\ row' = row)
    <3>1. PICK s \in Sessions :
            /\ s \notin Used /\ row' = [row EXCEPT ![s] = "pending"]
            /\ Goto(p, [o EXCEPT !.pc = "commit", !.sess = s])
      BY <1>4, <2>2 DEF LoginStore, IsNext, db
    <3>2. o.victim # NoSession => row[o.victim] # "deleted"
      BY <1>4, <2>2 DEF LoginStore, db
    <3> DEFINE new == [o EXCEPT !.pc = "commit", !.sess = s]
    <3>3. /\ Goto(p, new) /\ new.pc = "commit" /\ new.sess = s
          /\ new.victim = o.victim /\ new.ids = o.ids
      BY <1>1, <3>1 DEF Op
    <3> HIDE DEF new
    <3>4. /\ \A q \in Procs : op'[q] = IF q = p THEN new ELSE op[q]
          /\ row[s] = "unused"
          /\ \A x \in Sessions : row'[x] = IF x = s THEN "pending" ELSE row[x]
      BY <3>1, <3>3 DEF TypeInv, TypeOK, Goto, Used
    <3>5. \A x \in Sessions : RowAges(x)
      BY <3>4 DEF RowAges
    <3>6. ASSUME NEW q \in Procs, op[q].pc = "commit"
          PROVE  /\ op[q].sess # s /\ row'[op[q].sess] = "pending"
                 /\ op[q].victim # NoSession => row'[op[q].victim] # "deleted"
      <4>1. op[q] \in Op /\ HoldsIds(op[q]) /\ Expects(op[q], row)
        BY DEF TypeInv, TypeOK, RowsInv
      <4>2. /\ op[q].sess \in Sessions /\ op[q].victim \in Sessions \cup {NoSession}
            /\ row[op[q].sess] = "pending"
            /\ op[q].victim # NoSession => row[op[q].victim] # "deleted"
        BY <3>6, <4>1 DEF Op, HoldsIds, Expects
      <4> QED
        BY <3>4, <4>2
    <3>7. Distinct(op')
      BY <3>3, <3>4, <3>6 DEF RowsInv, Distinct
    <3>8. Expects(new, row')
      <4>1. /\ o.victim \in Sessions \cup {NoSession} /\ o.ids \subseteq Sessions
            /\ o.pc = "store"
        BY <1>1, <1>4 DEF Op, LoginStore
      <4>2. /\ o.victim # NoSession => row[o.victim] \in Committed
            /\ \A x \in o.ids : row[x] \in Committed
        BY <1>1, <4>1 DEF Expects, LoginPC
      <4>3. /\ o.victim # NoSession =>
                  row'[o.victim] \in Committed /\ row'[o.victim] # "deleted"
            /\ \A x \in o.ids : row'[x] \in Committed
        BY <3>2, <3>4, <4>1, <4>2 DEF Committed
      <4> QED
        BY <3>3, <3>4, <4>3 DEF Expects, RowIsClosed
    <3> QED
      BY <3>4, <3>5, <3>6, <3>7, <3>8, RowsFrame
  <2> QED
    BY <2>1, <2>2
<1>5. CASE LoginCommit(p)
  <2> DEFINE s == o.sess
             v == o.victim
  <2>1. /\ o.pc = "commit" /\ s \in Sessions /\ v \in Sessions \cup {NoSession}
        /\ row[s] = "pending"
        /\ v # NoSession => row[v] \in {"active", "revoked"}
    BY <1>1, <1>5 DEF LoginCommit, Op, HoldsIds, Expects, Committed, LoginPC
  <2>2. \A x \in Sessions : row'[x] = IF x = s THEN "active"
                                      ELSE IF x = v THEN "revoked" ELSE row[x]
    BY <1>5, <2>1 DEF LoginCommit, EvictedBy, NoSession, Sessions
  <2>3. \A q \in Procs : op'[q] = IF q = p THEN Idle ELSE op[q]
    BY <1>5 DEF LoginCommit, TypeInv, TypeOK, Goto
  <2>4. \A x \in Sessions : RowAges(x)
    BY <2>1, <2>2 DEF RowAges, NoSession, Sessions
  <2>5. Distinct(op')
    BY <2>3, IdleLeft DEF RowsInv, Distinct
  <2>6. ASSUME NEW q \in Procs, q # p, op[q].pc = "commit"
        PROVE  /\ row'[op[q].sess] = "pending"
               /\ op[q].victim # NoSession => row'[op[q].victim] # "deleted"
    <3>1. op[q] \in Op /\ HoldsIds(op[q]) /\ Expects(op[q], row)
      BY DEF TypeInv, TypeOK, RowsInv
    <3>2. /\ op[q].sess \in Sessions /\ op[q].victim \in Sessions \cup {NoSession}
          /\ row[op[q].sess] = "pending" /\ op[q].sess # s
          /\ op[q].victim # NoSession => row[op[q].victim] # "deleted"
      BY <2>1, <2>6, <3>1 DEF Op, HoldsIds, Expects, RowsInv, Distinct
    <3>3. op[q].sess # v
      BY <2>1, <3>2 DEF NoSession, Sessions
    <3> QED
      BY <2>2, <3>2, <3>3
  <2>7. \A q \in Procs :
          \/ Expects(op'[q], row')
          \/ /\ op'[q] = op[q]
             /\ op[q].pc = "commit" =>
                   /\ row'[op[q].sess] = "pending"
                   /\ op[q].victim # NoSession => row'[op[q].victim] # "deleted"
    BY <2>3, <2>6, IdleExpects
  <2> QED
    BY <2>4, <2>5, <2>7, RowsFrame
<1> QED
  BY <1>2, <1>3, <1>4, <1>5 DEF Login

LEMMA RefreshRows ==
    ASSUME TypeInv, RowsInv, NEW p \in Procs,
           Refresh(p) \/ \E t \in Tokens : RefreshFind(p, t)
    PROVE  RowsStep
<1> DEFINE o == op[p]
<1>1. o \in Op /\ Expects(o, row)
  BY DEF TypeInv, TypeOK, RowsInv
<1>2. row' = row
  BY DEF Refresh, RefreshFind, RefreshCheck, RefreshRevoke, RefreshCreate, db
<1>3. ASSUME NEW t \in Tokens, RefreshFind(p, t) PROVE RowsStep
  <2> DEFINE s   == token[t].session
             chk == [Idle EXCEPT !.pc = "check", !.tok = t, !.sess = s,
                                 !.late = s \in closed]
             cls == [Idle EXCEPT !.pc = "close", !.tok = t, !.sess = s,
                                 !.todo = {"tokens", "cache"}]
  <2>1. /\ chk.pc = "check" /\ chk.ids = {}
        /\ cls.pc = "close" /\ cls.ids = {} /\ cls.tok = t
    BY DEF Idle
  <2>2. Goto(p, chk) \/ Goto(p, cls)
    BY <1>3 DEF RefreshFind
  <2>3. t # NoToken
    BY DEF Tokens, NoToken
  <2> HIDE DEF chk, cls
  <2>4. Expects(chk, row) /\ Expects(cls, row)
    BY <2>1, <2>3 DEF Expects, RowIsClosed, LoginPC
  <2> QED
    BY <1>2, <2>1, <2>2, <2>4, RowsSame
<1>4. CASE Refresh(p)
  <2>1. \/ Goto(p, Idle)
        \/ \E pc \in {"revoke", "create"} : Goto(p, [o EXCEPT !.pc = pc])
    BY <1>4 DEF Refresh, RefreshCheck, RefreshRevoke, RefreshCreate
  <2>2. ASSUME NEW pc \in {"revoke", "create"}, Goto(p, [o EXCEPT !.pc = pc])
        PROVE  RowsStep
    <3> DEFINE new == [o EXCEPT !.pc = pc]
    <3>1. Goto(p, new) /\ new.pc = pc /\ new.ids = o.ids
      BY <1>1, <2>2 DEF Op
    <3> HIDE DEF new
    <3>2. Expects(new, row)
      BY <1>1, <3>1 DEF Expects, RowIsClosed, LoginPC
    <3> QED
      BY <1>2, <3>1, <3>2, RowsSame
  <2>3. CASE Goto(p, Idle)
    BY <1>2, <2>3, IdleExpects, IdleLeft, RowsSame
  <2> QED
    BY <2>1, <2>2, <2>3
<1> QED
  BY <1>3, <1>4

\* The row that a logout or a sweep revokes.
LEMMA RowRevoked ==
    ASSUME TypeInv, RowsInv, NEW p \in Procs, NEW new, Goto(p, new),
           op[p].pc # "commit", new.pc # "commit", NEW S,
           row' = [s \in Sessions |-> IF s \in S /\ row[s] = "active"
                                     THEN "revoked" ELSE row[s]],
           Expects(new, row')
    PROVE  RowsStep
<1>1. \A q \in Procs : op'[q] = IF q = p THEN new ELSE op[q]
  BY DEF TypeInv, TypeOK, Goto
<1>2. \A s \in Sessions : RowAges(s)
  BY DEF RowAges
<1>3. Distinct(op')
  BY <1>1 DEF RowsInv, Distinct
<1>4. ASSUME NEW q \in Procs, op[q].pc = "commit"
      PROVE  /\ row'[op[q].sess] = "pending"
             /\ op[q].victim # NoSession => row'[op[q].victim] # "deleted"
  <2>1. op[q] \in Op /\ HoldsIds(op[q]) /\ Expects(op[q], row)
    BY DEF TypeInv, TypeOK, RowsInv
  <2>2. /\ op[q].sess \in Sessions /\ op[q].victim \in Sessions \cup {NoSession}
        /\ row[op[q].sess] = "pending"
        /\ op[q].victim # NoSession => row[op[q].victim] # "deleted"
    BY <1>4, <2>1 DEF Op, HoldsIds, Expects
  <2> QED
    BY <2>2
<1>5. \A q \in Procs :
        \/ Expects(op'[q], row')
        \/ /\ op'[q] = op[q]
           /\ op[q].pc = "commit" =>
                 /\ row'[op[q].sess] = "pending"
                 /\ op[q].victim # NoSession => row'[op[q].victim] # "deleted"
  BY <1>1, <1>4
<1> QED
  BY <1>2, <1>3, <1>5, RowsFrame

LEMMA CloseOneRows ==
    ASSUME TypeInv, RowsInv, NEW p \in Procs,
           \/ CloseOne(p)
           \/ \E s \in Sessions : LogoutBegin(p, s)
           \/ \E c, s \in Sessions : RevokeSessionBegin(p, c, s)
    PROVE  RowsStep
<1> DEFINE o == op[p]
<1>1. o \in Op /\ HoldsIds(o) /\ Expects(o, row)
  BY DEF TypeInv, TypeOK, RowsInv
<1>2. CASE \/ \E s \in Sessions : LogoutBegin(p, s)
           \/ \E c, s \in Sessions : RevokeSessionBegin(p, c, s)
  <2>1. PICK s \in Sessions : /\ row[s] \in Committed
                              /\ Goto(p, Close(s)) /\ row' = row
    BY <1>2 DEF LogoutBegin, RevokeSessionBegin, Authenticated, Active,
                Committed, db
  <2>2. /\ Close(s).pc = "close" /\ Close(s).sess = s /\ Close(s).ids = {}
        /\ "row" \in Close(s).todo
    BY DEF Close, Idle
  <2>3. Expects(Close(s), row)
    BY <2>1, <2>2 DEF Expects, RowIsClosed, LoginPC
  <2> QED
    BY <2>1, <2>2, <2>3, RowsSame
<1>3. ASSUME NEW part \in {"row", "tokens", "cache"}, Returned(p, part)
      PROVE  \E new : /\ Goto(p, new) /\ o.pc = "close" /\ part \in o.todo
                      /\ \/ new = Idle
                         \/ /\ new.pc = "close" /\ new.todo = o.todo \ {part}
                            /\ new.sess = o.sess /\ new.tok = o.tok
                            /\ new.ids = o.ids /\ new.failed = o.failed
  <2> DEFINE n == [o EXCEPT !.todo = o.todo \ {part}]
  <2>1. /\ o.pc = "close" /\ part \in o.todo
        /\ Goto(p, Idle) \/ Goto(p, n)
    BY <1>3 DEF Returned
  <2>2. /\ n.pc = "close" /\ n.todo = o.todo \ {part}
        /\ n.sess = o.sess /\ n.tok = o.tok /\ n.ids = o.ids
        /\ n.failed = o.failed
    BY <1>1, <2>1 DEF Op
  <2> HIDE DEF n
  <2> QED
    BY <2>1, <2>2
<1>4. CASE CloseTokens(p) \/ CloseCache(p)
  <2>1. PICK part \in {"tokens", "cache"} : Returned(p, part)
    BY <1>4 DEF CloseTokens, CloseCache
  <2>2. PICK new : /\ Goto(p, new) /\ o.pc = "close" /\ part \in o.todo
                   /\ \/ new = Idle
                      \/ /\ new.pc = "close" /\ new.todo = o.todo \ {part}
                         /\ new.sess = o.sess /\ new.tok = o.tok
                         /\ new.ids = o.ids /\ new.failed = o.failed
    BY <1>3, <2>1
  <2>3. row' = row
    BY <1>4 DEF CloseTokens, CloseCache
  <2>4. Expects(new, row)
    BY <1>1, <2>1, <2>2, IdleExpects DEF Expects, RowIsClosed, LoginPC
  <2> QED
    BY <2>2, <2>3, <2>4, IdleLeft, RowsSame
<1>5. CASE CloseRow(p)
  <2>1. PICK new : /\ Goto(p, new) /\ o.pc = "close"
                   /\ \/ new = Idle
                      \/ /\ new.pc = "close" /\ new.todo = o.todo \ {"row"}
                         /\ new.sess = o.sess /\ new.tok = o.tok
                         /\ new.ids = o.ids /\ new.failed = o.failed
    BY <1>3, <1>5 DEF CloseRow
  <2>2. row' = [s \in Sessions |-> IF s \in {o.sess} /\ row[s] = "active"
                                  THEN "revoked" ELSE row[s]]
    BY <1>5 DEF CloseRow, TypeInv, TypeOK
  <2>3. /\ o.sess \in Sessions /\ o.ids \subseteq Sessions
        /\ o.tok = NoToken => row[o.sess] \in Committed
        /\ \A s \in o.ids : row[s] \in Committed
    BY <1>1, <2>1 DEF Op, HoldsIds, Expects
  <2>4. /\ o.tok = NoToken => row'[o.sess] \in Over
        /\ \A s \in o.ids : row'[s] \in Committed
    BY <2>2, <2>3 DEF Committed, Over
  <2>5. Over \subseteq Committed
    BY DEF Over, Committed
  <2>6. Expects(new, row')
    BY <2>1, <2>4, <2>5, IdleExpects DEF Expects, RowIsClosed, LoginPC
  <2> QED
    BY <2>1, <2>2, <2>6, IdleLeft, RowRevoked
<1> QED
  BY <1>2, <1>4, <1>5 DEF CloseOne

\* A sweep goes on, or is over.
LEMMA SweepGoes ==
    ASSUME NEW p \in Procs, NEW new, SweepGoto(p, new), new.pc = "sweep",
           NEW r, Expects(new, r)
    PROVE  \E n : Goto(p, n) /\ n.pc # "commit" /\ Expects(n, r)
BY IdleExpects, IdleLeft DEF SweepGoto

LEMMA CloseAllRows ==
    ASSUME TypeInv, BusyInv, RowsInv, NEW p \in Procs,
           CloseAll(p) \/ \E u \in Users : SweepBegin(p, u)
    PROVE  RowsStep
<1> DEFINE o == op[p]
<1>1. o \in Op /\ HoldsIds(o) /\ Expects(o, row) /\ Busy(o)
  BY DEF TypeInv, TypeOK, RowsInv, BusyInv
<1>2. o.ids \subseteq Sessions /\ \A s \in o.ids : row[s] \in Committed
  BY <1>1 DEF Op, Expects
<1>3. ASSUME NEW u \in Users, SweepBegin(p, u) PROVE RowsStep
  <2> DEFINE new == [Idle EXCEPT !.pc = "sweep", !.user = u,
                            !.todo = {"list", "tokens"}]
  <2>1. new.pc = "sweep" /\ new.ids = {}
    BY DEF Idle
  <2>2. Goto(p, new) /\ row' = row
    BY <1>3 DEF SweepBegin, db
  <2> HIDE DEF new
  <2>3. Expects(new, row)
    BY <2>1 DEF Expects, RowIsClosed, LoginPC
  <2> QED
    BY <2>1, <2>2, <2>3, RowsSame
<1>4. CASE SweepList(p)
  <2> DEFINE ids  == Active(o.user)
             todo == (o.todo \ {"list"}) \cup (IF ids = {} THEN {} ELSE {"mark"})
             new  == [o EXCEPT !.ids = ids, !.todo = todo]
  <2>1. SweepGoto(p, new) /\ o.pc = "sweep" /\ row' = row
    BY <1>4 DEF SweepList, db
  <2>2. (\A s \in ids : row[s] \in Committed) /\ (ids = {} \/ "mark" \in todo)
    BY DEF Active, Committed
  <2> HIDE DEF ids, todo
  <2>3. new.pc = "sweep" /\ new.ids = ids /\ new.todo = todo
    BY <1>1, <2>1 DEF Op
  <2> HIDE DEF new
  <2>4. Expects(new, row)
    BY <2>2, <2>3 DEF Expects, RowIsClosed, LoginPC
  <2>5. PICK n : Goto(p, n) /\ n.pc # "commit" /\ Expects(n, row)
    BY <2>1, <2>3, <2>4, SweepGoes
  <2> QED
    BY <2>1, <2>5, RowsSame
<1>5. CASE SweepMark(p)
  <2> DEFINE new == [o EXCEPT !.todo = o.todo \ {"mark"}]
  <2>1. /\ SweepGoto(p, new) /\ o.pc = "sweep"
        /\ row' = [s \in Sessions |-> IF s \in o.ids /\ row[s] = "active"
                                     THEN "revoked" ELSE row[s]]
    BY <1>5 DEF SweepMark, Listed
  <2>2. new.pc = "sweep" /\ new.ids = o.ids /\ new.failed = o.failed
    BY <1>1, <2>1 DEF Op
  <2> HIDE DEF new
  <2>3. \A s \in o.ids : row'[s] \in Over /\ row'[s] \in Committed
    BY <1>2, <2>1 DEF Committed, Over
  <2>4. Expects(new, row')
    BY <2>2, <2>3 DEF Expects, RowIsClosed, LoginPC
  <2>5. PICK n : Goto(p, n) /\ n.pc # "commit" /\ Expects(n, row')
    BY <2>1, <2>2, <2>4, SweepGoes
  <2> QED
    BY <2>1, <2>5, RowRevoked
<1>6. CASE SweepTokens(p)
  <2> DEFINE new == [o EXCEPT !.todo = o.todo \ {"tokens"}]
  <2>1. SweepGoto(p, new) /\ o.pc = "sweep" /\ row' = row
    BY <1>6 DEF SweepTokens
  <2>2. new.pc = "sweep" /\ new.ids = o.ids /\ new.failed = o.failed
        /\ new.todo = o.todo \ {"tokens"}
    BY <1>1, <2>1 DEF Op
  <2> HIDE DEF new
  <2>3. Expects(new, row)
    BY <1>1, <2>1, <2>2 DEF Expects, RowIsClosed, LoginPC
  <2>4. PICK n : Goto(p, n) /\ n.pc # "commit" /\ Expects(n, row)
    BY <2>1, <2>2, <2>3, SweepGoes
  <2> QED
    BY <2>1, <2>4, RowsSame
<1>7. ASSUME NEW s \in Sessions, SweepPurge(p, s) PROVE RowsStep
  <2> DEFINE new == [o EXCEPT !.ids = o.ids \ {s}]
  <2>1. SweepGoto(p, new) /\ o.pc = "sweep" /\ row' = row
    BY <1>7 DEF SweepPurge, db
  <2>2. new.pc = "sweep" /\ new.ids = o.ids \ {s} /\ new.failed = o.failed
        /\ new.todo = o.todo
    BY <1>1, <2>1 DEF Op
  <2> HIDE DEF new
  <2>3. Expects(new, row)
    BY <1>1, <2>1, <2>2 DEF Expects, RowIsClosed, LoginPC
  <2>4. PICK n : Goto(p, n) /\ n.pc # "commit" /\ Expects(n, row)
    BY <2>1, <2>2, <2>3, SweepGoes
  <2> QED
    BY <2>1, <2>4, RowsSame
<1> QED
  BY <1>3, <1>4, <1>5, <1>6, <1>7 DEF CloseAll

LEMMA EnvironmentRows ==
    ASSUME TypeInv, RowsInv, Environment PROVE RowsStep
<1>1. ASSUME NEW p \in Procs, Fail(p) PROVE RowsStep
  <2> DEFINE o == op[p]
  <2>1. o \in Op /\ HoldsIds(o) /\ Expects(o, row)
    BY DEF TypeInv, TypeOK, RowsInv
  <2>2. CASE o.pc # "commit"
    <3>1. Goto(p, Idle) /\ row' = row
      BY <1>1, <2>2 DEF Fail
    <3> QED
      BY <3>1, IdleExpects, IdleLeft, RowsSame
  <2>3. CASE o.pc = "commit"
    <3>1. /\ o.sess \in Sessions /\ row[o.sess] = "pending"
          /\ \A s \in Sessions : row'[s] = IF s = o.sess THEN "aborted" ELSE row[s]
      BY <1>1, <2>1, <2>3 DEF Fail, HoldsIds, Expects, TypeInv, TypeOK
    <3>2. \A q \in Procs : op'[q] = IF q = p THEN Idle ELSE op[q]
      BY <1>1 DEF Fail, Goto, TypeInv, TypeOK
    <3>3. \A s \in Sessions : RowAges(s)
      BY <3>1 DEF RowAges
    <3>4. Distinct(op')
      BY <3>2, IdleLeft DEF RowsInv, Distinct
    <3>5. ASSUME NEW q \in Procs, q # p, op[q].pc = "commit"
          PROVE  /\ row'[op[q].sess] = "pending"
                 /\ op[q].victim # NoSession => row'[op[q].victim] # "deleted"
      <4>1. op[q] \in Op /\ HoldsIds(op[q]) /\ Expects(op[q], row)
        BY DEF TypeInv, TypeOK, RowsInv
      <4>2. /\ op[q].sess \in Sessions /\ op[q].victim \in Sessions \cup {NoSession}
            /\ row[op[q].sess] = "pending" /\ op[q].sess # o.sess
            /\ op[q].victim # NoSession => row[op[q].victim] # "deleted"
        BY <2>3, <3>5, <4>1 DEF Op, HoldsIds, Expects, RowsInv, Distinct
      <4> QED
        BY <3>1, <4>2
    <3>6. \A q \in Procs :
            \/ Expects(op'[q], row')
            \/ /\ op'[q] = op[q]
               /\ op[q].pc = "commit" =>
                     /\ row'[op[q].sess] = "pending"
                     /\ op[q].victim # NoSession => row'[op[q].victim] # "deleted"
      BY <3>2, <3>5, IdleExpects
    <3> QED
      BY <3>3, <3>4, <3>6, RowsFrame
  <2> QED
    BY <2>2, <2>3
<1>2. CASE CleanOldSessions
  <2>1. /\ op' = op
        /\ \A s \in Sessions : row'[s] = IF row[s] = "revoked" THEN "deleted" ELSE row[s]
        /\ \A s \in Sessions : row[s] = "revoked" => ~LockedRow(s)
    BY <1>2 DEF CleanOldSessions
  <2>2. \A s \in Sessions : RowAges(s)
    BY <2>1 DEF RowAges
  <2>3. ASSUME NEW q \in Procs, op[q].pc = "commit"
        PROVE  /\ row'[op[q].sess] = "pending"
               /\ op[q].victim # NoSession => row'[op[q].victim] # "deleted"
    <3>1. op[q] \in Op /\ HoldsIds(op[q]) /\ Expects(op[q], row)
      BY DEF TypeInv, TypeOK, RowsInv
    <3>2. /\ op[q].sess \in Sessions /\ op[q].victim \in Sessions \cup {NoSession}
          /\ row[op[q].sess] = "pending"
          /\ op[q].victim # NoSession => row[op[q].victim] # "deleted"
      BY <2>3, <3>1 DEF Op, HoldsIds, Expects
    <3>3. op[q].victim # NoSession => LockedRow(op[q].victim)
      BY <2>3 DEF LockedRow
    <3> QED
      BY <2>1, <3>2, <3>3
  <2>4. Distinct(op')
    BY <2>1 DEF RowsInv
  <2> QED
    BY <2>1, <2>2, <2>3, <2>4, RowsFrame
<1>4. ASSUME NEW p \in Procs, Rejection(p) PROVE RowsStep
  <2>1. row' = row /\ op[p].pc \in {"close", "sweep"}
    BY <1>4, RejectLessens
  <2>2. PICK new \in Op : Goto(p, new) /\ Lessened(op[p], new)
    BY <1>4, RejectLessens
  <2>3. op[p] \in Op /\ Expects(op[p], row)
    BY DEF TypeInv, TypeOK, RowsInv
  <2>4. Expects(new, row)
    BY <2>1, <2>2, <2>3, IdleExpects DEF Lessened, Expects, RowIsClosed, LoginPC
  <2>5. new.pc # "commit"
    BY <2>1, <2>2, IdleLeft DEF Lessened
  <2> QED
    BY <2>1, <2>2, <2>4, <2>5, RowsSame
<1>3. CASE ~CleanOldSessions /\ ~\E p \in Procs : Fail(p) \/ Rejection(p)
  <2>1. row' = row /\ op' = op
    BY <1>3 DEF Environment, CacheExpire, CleanExpiredRefreshTokens, db
  <2> QED
    BY <2>1 DEF RowsStep, RowsInv, RowAges
<1> QED
  BY <1>1, <1>2, <1>3, <1>4

LEMMA RowsInit == Init => RowsInv
BY IdleExpects, IdleLeft DEF Init, RowsInv, Distinct

LEMMA RowsKept == TypeInv /\ DeadInv /\ BusyInv /\ RowsInv /\ [Next]_vars => RowsStep
<1>1. ASSUME TypeInv, DeadInv, BusyInv, RowsInv, Next PROVE RowsStep
  BY <1>1, LoginRows, RefreshRows, CloseOneRows, CloseAllRows, EnvironmentRows
  DEF Next, Begin, Step
<1>2. ASSUME RowsInv, UNCHANGED vars PROVE RowsStep
  BY <1>2 DEF vars, RowsStep, RowsInv, RowAges
<1> QED
  BY <1>1, <1>2

LEMMA RevokeOnlyAges ==
    ASSUME TypeInv, NEW S, Revoke(S) PROVE \A t \in Tokens : TokenAges(t)
BY DEF TypeInv, TypeOK, Revoke, TokenRow, TokenAges

LEMMA TokensGrowOld ==
    ASSUME TypeInv, TokenInv, [Next]_vars PROVE \A t \in Tokens : TokenAges(t)
<1>1. CASE token' = token
  BY <1>1 DEF TokenAges
<1>2. CASE \E S : Revoke(S)
  BY <1>2, RevokeOnlyAges
<1>3. ASSUME NEW n \in Tokens, NEW r, n \notin Issued, r.state = "live",
             token' = [token EXCEPT ![n] = r]
      PROVE  \A t \in Tokens : TokenAges(t)
  BY <1>3 DEF TypeInv, TypeOK, Issued, TokenAges
<1>4. ASSUME NEW n \in Tokens, CleanExpiredRefreshTokens(n)
      PROVE  \A t \in Tokens : TokenAges(t)
  BY <1>4 DEF CleanExpiredRefreshTokens, TypeInv, TypeOK, TokenRow, TokenAges
<1>5. CASE CleanOldSessions
  <2>1. \A t \in Tokens :
           token'[t] = token[t] \/ /\ token[t].session \in Sessions
                                   /\ token'[t] = [token[t] EXCEPT !.state = "deleted"]
    BY <1>5 DEF CleanOldSessions
  <2>2. ASSUME NEW t \in Tokens, token[t].session \in Sessions,
               token'[t] = [token[t] EXCEPT !.state = "deleted"]
        PROVE  TokenAges(t)
    <3>1. token[t] \in TokenRow
      BY DEF TypeInv, TypeOK
    <3>2. token[t].state # "unused"
      BY <2>2 DEF TokenInv, Founded, NoSession, Sessions
    <3>3. token[t].state \in {"live", "revoked", "deleted"}
      BY <3>1, <3>2 DEF TokenRow, TokenState
    <3>4. token[t].state = "deleted" => token'[t] = token[t]
      BY <2>2, <3>1 DEF TokenRow
    <3>5. token'[t].state = "deleted"
      BY <2>2, <3>1 DEF TokenRow
    <3> QED
      BY <2>2, <3>3, <3>4, <3>5 DEF TokenAges
  <2> QED
    BY <2>1, <2>2 DEF TokenAges
<1>6. ASSUME NEW p \in Procs, Begin(p) \/ Step(p)
      PROVE  \A t \in Tokens : TokenAges(t)
  <2>1. CASE LoginCommit(p)
    <3>1. \A n, s : FirstToken(n, s).state = "live"
      BY DEF FirstToken
    <3> QED
      BY <1>3, <2>1, <3>1 DEF LoginCommit, IsNext
  <2>2. CASE RefreshCreate(p)
    <3> DEFINE r == [state  |-> "live", session |-> op[p].sess,
                     family |-> token[op[p].tok].family, parent |-> op[p].tok]
    <3>1. token' = token \/ \E n \in Tokens :
             n \notin Issued /\ token' = [token EXCEPT ![n] = r]
      BY <2>2 DEF RefreshCreate, IsNext
    <3>2. r.state = "live"
      OBVIOUS
    <3> HIDE DEF r
    <3> QED
      BY <1>1, <1>3, <3>1, <3>2
  <2>3. CASE ~LoginCommit(p) /\ ~RefreshCreate(p)
    <3>1. token' = token \/ \E S : Revoke(S)
      BY <1>6, <2>3
      DEF Begin, Step, Login, Refresh, CloseOne, CloseAll, LoginCount, LoginPick,
          LoginStore, RefreshFind, RefreshCheck, RefreshRevoke, LogoutBegin,
          RevokeSessionBegin, CloseRow, CloseTokens, CloseCache, SweepBegin,
          SweepList, SweepMark, SweepTokens, SweepPurge, db
    <3> QED
      BY <1>1, <1>2, <3>1
  <2> QED
    BY <2>1, <2>2, <2>3
<1>7. CASE \E p \in Procs : Fail(p)
  BY <1>1, <1>7 DEF Fail
<1>8. CASE \E s \in Sessions : CacheExpire(s)
  BY <1>1, <1>8 DEF CacheExpire, db
<1>9. CASE \E p \in Procs : Rejection(p)
  BY <1>1, <1>9, RejectLessens
<1> QED
  BY <1>1, <1>4, <1>5, <1>6, <1>7, <1>8, <1>9 DEF Next, Environment, vars

LEMMA RowsAlways == Spec => []RowsInv
<1>1. TypeInv /\ DeadInv /\ BusyInv /\ RowsInv /\ [Next]_vars => RowsInv'
  BY RowsKept DEF RowsStep
<1> QED
  BY <1>1, RowsInit, Inductive, BusyAlways, PTL DEF Spec

(* What is over in PostgreSQL stays over: no login that commits late, no    *)
(* refresh and no job makes a revoked or deleted session active again or a  *)
(* revoked token live, and a token keeps its session and its family.        *)
THEOREM RecordsGrowOld == Spec => [][RecordsAge]_vars
<1>1. TypeInv /\ DeadInv /\ BusyInv /\ RowsInv /\ TokenInv /\ [Next]_vars
        => [RecordsAge]_vars
  BY RowsKept, TokensGrowOld DEF RowsStep, RecordsAge
<1> QED
  BY <1>1, RowsAlways, Inductive, BusyAlways, TokensSound, PTL DEF Spec

(* A logout or a revocation none of whose calls was rejected answers only    *)
(* when the row is revoked too, and a                                       *)
(* "close everything" takes the first key out of Redis only after the rows   *)
(* of all the sessions it has listed were revoked, whatever overlaps with it. *)
THEOREM RowsAreClosed == Spec => []RowsClosed
<1>1. RowsInv => RowsClosed
  BY DEF RowsInv, RowsClosed, Expects
<1> QED
  BY <1>1, RowsAlways, PTL

=============================================================================

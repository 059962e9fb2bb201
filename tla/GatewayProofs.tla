---------------------------- MODULE GatewayProofs ----------------------------
(***************************************************************************)
(* Theorems about Gateway, for any number of requests and of retries.      *)
(***************************************************************************)
EXTENDS Gateway, TLAPS

USE RetriesAreNat

-----------------------------------------------------------------------------
(* Type correctness.                                                       *)

(* The requests that may arrive are well typed.                            *)
LEMMA ClassType == \A r \in Routes : ClassOf(r) \in Class
<1> SUFFICES ASSUME NEW r \in Routes PROVE ClassOf(r) \in Class
  OBVIOUS
<1>1. r.access \in {"public", "session", "admin"}
  BY DEF Routes, GatewayAuthPublic, GatewayAuthSession, GatewayUser,
         GatewayCompany, GatewayConfig, Forward, Route
<1>2. /\ (r.call.method = "GET") \in BOOLEAN
      /\ IsBypass(r) \in BOOLEAN /\ IsServed(r) \in BOOLEAN
  BY DEF IsBypass, IsServed
<1> QED
  BY <1>1, <1>2 DEF ClassOf, Class

(* An idle request is well typed. *)
LEMMA IdleType == Idle \in Op
BY DEF Idle, Op, NoClass, Class, Answers, Callers, Grounds

(* So is one that is answered, *)
LEMMA AnswerType ==
    ASSUME NEW o \in Op, NEW a \in Answers PROVE Answer(o, a) \in Op
<1> DEFINE r  == [NoClass EXCEPT !.read = o.route.read]
           n1 == [Idle EXCEPT !.pc = "done"]
           n2 == [n1 EXCEPT !.route = r]
           n3 == [n2 EXCEPT !.ran = o.ran]
           n4 == [n3 EXCEPT !.late = o.late]
           n5 == [n4 EXCEPT !.signed_off = o.signed_off]
           n6 == [n5 EXCEPT !.answer = IF o.answer = "none" THEN a ELSE o.answer]
<1>1. r \in Class
  BY DEF Op, Class, NoClass
<1>2. n1 \in Op
  BY IdleType DEF Op
<1> HIDE DEF n1, r
<1>3. n2 \in Op
  BY <1>1, <1>2 DEF Op
<1> HIDE DEF n2
<1>4. n3 \in Op
  BY <1>3 DEF Op
<1> HIDE DEF n3
<1>5. n4 \in Op
  BY <1>4 DEF Op
<1> HIDE DEF n4
<1>6. n5 \in Op
  BY <1>5 DEF Op
<1> HIDE DEF n5
<1>7. n6 \in Op
  BY <1>6 DEF Op
<1>8. n1.route = NoClass
  BY DEF n1, Idle
<1>9. n6 = Answer(o, a)
  BY <1>8 DEF n1, n2, n3, n4, n5, r, Answer, Idle
<1> QED
  BY <1>7, <1>9

(* and one that has passed the maintenance guard, *)
LEMMA PassType ==
    ASSUME NEW o \in Op, NEW e \in Grounds PROVE Pass(o, e) \in Op
<1> DEFINE n1 == [o EXCEPT !.pc = "session"]
           n2 == [n1 EXCEPT !.try = 0]
           n3 == [n2 EXCEPT !.told = FALSE]
           n4 == [n3 EXCEPT !.old = FALSE]
           n5 == [n4 EXCEPT !.passed = IF o.during THEN e ELSE "none"]
<1>1. n1 \in Op
  BY DEF Op
<1> HIDE DEF n1
<1>2. n2 \in Op
  BY <1>1 DEF Op
<1> HIDE DEF n2
<1>3. n3 \in Op
  BY <1>2 DEF Op
<1> HIDE DEF n3
<1>4. n4 \in Op
  BY <1>3 DEF Op
<1> HIDE DEF n4
<1>5. (IF o.during THEN e ELSE "none") \in Grounds
  BY DEF Grounds
<1>6. n5 \in Op
  BY <1>4, <1>5 DEF Op
<1> QED
  BY <1>6 DEF n1, n2, n3, n4, Pass

(* and one that has passed the others. *)
LEMMA CheckedType == ASSUME NEW o \in Op PROVE Checked(o) \in Op
<1> DEFINE r  == [o.route EXCEPT !.access = "public"]
           r2 == [r EXCEPT !.bypass = FALSE]
           n1 == [o EXCEPT !.pc = "forward"]
           n2 == [n1 EXCEPT !.caller = "nobody"]
           n3 == [n2 EXCEPT !.route = r2]
           n4 == [n3 EXCEPT !.during = FALSE]
           n5 == [n4 EXCEPT !.passed = "none"]
<1>1. r \in Class
  BY DEF Op, Class
<1> HIDE DEF r
<1>2. r2 \in Class
  BY <1>1 DEF Class
<1> HIDE DEF r2
<1>3. n1 \in Op
  BY DEF Op
<1> HIDE DEF n1
<1>4. n2 \in Op
  BY <1>3 DEF Op, Callers
<1> HIDE DEF n2
<1>5. n3 \in Op
  BY <1>2, <1>4 DEF Op
<1> HIDE DEF n3
<1>6. n4 \in Op
  BY <1>5 DEF Op
<1> HIDE DEF n4
<1>7. n5 \in Op
  BY <1>6 DEF Op, Grounds
<1>8. n5 = Checked(o)
  BY DEF n1, n2, n3, n4, r, r2, Checked, Op
<1> QED
  BY <1>7, <1>8

-----------------------------------------------------------------------------
(* The invariant.  en and se stand for enabled and session.                *)

Early == {"guard", "fetch", "asked", "told", "session"}

\* Every attempt is executed once at most, and what is not read has one.
Counted(o) ==
    /\ o.pc \in Early \cup {"idle"} => o.ran = 0 /\ o.late = 0
    /\ o.pc # "done" => (o.route.read \/ o.try = 0)
    /\ o.pc \in {"forward", "waiting"} => o.ran + o.late <= o.try
    /\ o.pc = "executed" => o.ran > 0 /\ o.ran + o.late <= o.try + 1
    /\ o.pc = "done" =>
            o.ran + o.late <= IF o.route.read THEN MaxRetries + 1 ELSE 1

\* Only a timeout is answered before the end.
Truthful(o) ==
    /\ o.pc # "done" => o.answer \in {"none", "timeout"}
    /\ o.answer = "ok" => o.ran > 0
    /\ o.answer = "refused" => o.ran = 0 /\ o.late = 0

\* A session that is closed stays so, and the guards are still to come.
SignedOff(o, se) ==
    o.signed_off =>
        /\ o.ran = 0 /\ o.late = 0
        /\ o.pc \in Early => ~se /\ o.route.access # "public"
        /\ o.pc \notin {"forward", "waiting", "executed"}

\* Maintenance that was on ever since is on.
Warned(o, en) == o.during => en /\ ~o.route.bypass

\* What stands in for a status that says that maintenance is off.
Pardoned(o, ground) ==
    \/ ground \in {"outdated", "unstored", "unreachable"}
    \/ ground = "method" /\ ~o.route.read

\* What a request was told of the mode is true, or from before the last switch.
Informed(o, en) ==
    /\ o.pc = "told" => o.old \/ (o.told <=> en)
    /\ o.pc = "session" => (o.during => Pardoned(o, o.passed))

Base(o, en, se) ==
    Counted(o) /\ Truthful(o) /\ SignedOff(o, se) /\ Warned(o, en)

Ok(o, en, se) == Base(o, en, se) /\ Informed(o, en)

\* The cache is right, or outdated.
CacheOk == cache # "none" => outdated \/ (cache = "on" <=> enabled)

GateInv == /\ TypeOK
           /\ CacheOk
           /\ \A p \in Procs : Ok(op[p], enabled, session)

(* One request moves on, and the rest of the state is as it was. *)
LEMMA Moves ==
    ASSUME GateInv, NEW p \in Procs, NEW new \in Op, Goto(p, new),
           Ok(new, enabled, session),
           UNCHANGED <<enabled, cache, session, outdated>>
    PROVE  GateInv'
BY DEF GateInv, TypeOK, CacheOk, Goto

(* The answer leaves what was executed as it is. *)
LEMMA AnswerFields ==
    ASSUME NEW o \in Op, NEW a \in Answers
    PROVE  LET n == Answer(o, a) IN
           /\ n.pc = "done" /\ n.ran = o.ran /\ n.late = o.late
           /\ n.route.read = o.route.read
           /\ n.answer = IF o.answer = "none" THEN a ELSE o.answer
           /\ n.signed_off = o.signed_off
           /\ ~n.during
BY DEF Answer, Idle, NoClass

(* Passing the maintenance guard leaves the rest as it is, *)
LEMMA PassFields ==
    ASSUME NEW o \in Op, NEW e
    PROVE  LET n == Pass(o, e) IN
           /\ n.pc = "session" /\ n.try = 0 /\ n.ran = o.ran /\ n.late = o.late
           /\ n.route = o.route /\ n.answer = o.answer
           /\ n.signed_off = o.signed_off /\ n.during = o.during
           /\ o.during => n.passed = e
BY DEF Pass, Op

(* and so do the other guards. *)
LEMMA CheckedFields ==
    ASSUME NEW o \in Op
    PROVE  LET n == Checked(o) IN
           /\ n.pc = "forward" /\ n.try = o.try /\ n.ran = o.ran
           /\ n.late = o.late /\ n.route.read = o.route.read
           /\ n.answer = o.answer /\ n.signed_off = o.signed_off
           /\ ~n.during
BY DEF Checked, Op, Class

-----------------------------------------------------------------------------
(* Each action preserves the invariant.                                    *)

(* A request that is answered keeps to it, unless its answer is untrue.     *)
LEMMA Answered ==
    ASSUME GateInv, NEW o \in Op, NEW a \in Answers, Base(o, enabled, session),
           o.pc \notin {"idle", "done"},
           a = "ok" => o.ran > 0,
           a = "refused" => o.ran = 0 /\ o.late = 0
    PROVE  Answer(o, a) \in Op /\ Ok(Answer(o, a), enabled, session)
<1>1. Answer(o, a) \in Op
  BY AnswerType
<1>2. o.ran + o.late <= IF o.route.read THEN MaxRetries + 1 ELSE 1
  BY DEF Base, Counted, Early, Op, Class
<1>3. Counted(Answer(o, a))
  BY <1>2, AnswerFields DEF Counted, Early
<1>4. Truthful(Answer(o, a))
  BY AnswerFields DEF Truthful, Base, Answers
<1>5. SignedOff(Answer(o, a), session)
  BY AnswerFields DEF SignedOff, Base, Early
<1>6. Warned(Answer(o, a), enabled) /\ Informed(Answer(o, a), enabled)
  BY AnswerFields DEF Warned, Informed
<1> QED
  BY <1>1, <1>3, <1>4, <1>5, <1>6 DEF Ok, Base

(* So does one that passes the maintenance guard on one of those grounds.   *)
LEMMA Passed ==
    ASSUME GateInv, NEW o \in Op, NEW e \in Grounds, Base(o, enabled, session),
           o.pc \in Early, o.during => Pardoned(o, e)
    PROVE  Pass(o, e) \in Op /\ Ok(Pass(o, e), enabled, session)
<1>1. Pass(o, e) \in Op
  BY PassType
<1>2. Counted(Pass(o, e))
  BY PassFields DEF Counted, Base, Early
<1>3. Truthful(Pass(o, e))
  BY PassFields DEF Truthful, Base, Early
<1>4. SignedOff(Pass(o, e), session)
  BY PassFields DEF SignedOff, Base, Early
<1>5. Warned(Pass(o, e), enabled) /\ Informed(Pass(o, e), enabled)
  BY PassFields DEF Warned, Informed, Base, Pardoned
<1> QED
  BY <1>1, <1>2, <1>3, <1>4, <1>5 DEF Ok, Base

(* A request arrives, with a session that may be closed by now. *)
LEMMA ArriveStep ==
    ASSUME GateInv, NEW p \in Procs, Arrive(p) PROVE GateInv'
<1>1. PICK c \in Classes : \E caller \in CallersOf(c.access) :
          \/ c \in Allowed /\ Goto(p, Arrived(c, caller))
          \/ Goto(p, Answer(Arrived(c, caller), "refused"))
  BY DEF Arrive
<1>2. PICK caller \in CallersOf(c.access) :
          \/ c \in Allowed /\ Goto(p, Arrived(c, caller))
          \/ Goto(p, Answer(Arrived(c, caller), "refused"))
  BY <1>1
<1>3. c \in Class
  BY ClassType DEF Classes
<1>4. /\ caller \in Callers
      /\ caller # "nobody" => c.access # "public"
  BY <1>3 DEF Class, CallersOf, Callers
<1> DEFINE n == Arrived(c, caller)
<1>5. n \in Op
  <2> DEFINE n1 == [Idle EXCEPT !.pc = "guard"]
             n2 == [n1 EXCEPT !.route = c]
             n3 == [n2 EXCEPT !.caller = caller]
             n4 == [n3 EXCEPT !.signed_off = ~session /\ caller # "nobody"]
             n5 == [n4 EXCEPT !.during = enabled /\ ~c.bypass]
  <2>1. n1 \in Op
    BY IdleType DEF Op
  <2> HIDE DEF n1
  <2>2. n2 \in Op
    BY <2>1, <1>3 DEF Op
  <2> HIDE DEF n2
  <2>3. n3 \in Op
    BY <2>2, <1>4 DEF Op
  <2> HIDE DEF n3
  <2>4. n4 \in Op
    <3>1. (~session /\ caller # "nobody") \in BOOLEAN
      OBVIOUS
    <3> QED
      BY <2>3, <3>1 DEF Op
  <2> HIDE DEF n4
  <2>5. n5 \in Op
    <3>1. (enabled /\ ~c.bypass) \in BOOLEAN
      OBVIOUS
    <3> QED
      BY <2>4, <3>1 DEF Op
  <2> QED
    BY <2>5 DEF n1, n2, n3, n4, Arrived
<1>6. /\ n.pc = "guard" /\ n.route = c /\ n.caller = caller /\ n.try = 0
      /\ n.ran = 0 /\ n.late = 0 /\ n.answer = "none"
      /\ n.signed_off = (~session /\ caller # "nobody")
      /\ n.during = (enabled /\ ~c.bypass)
  BY DEF Arrived, Idle
<1> HIDE DEF n
<1>7. Ok(n, enabled, session)
  <2>1. Counted(n) /\ Truthful(n)
    BY <1>6 DEF Counted, Truthful, Early
  <2>2. SignedOff(n, session)
    BY <1>4, <1>6 DEF SignedOff
  <2>3. Warned(n, enabled) /\ Informed(n, enabled)
    BY <1>6 DEF Warned, Informed
  <2> QED
    BY <2>1, <2>2, <2>3 DEF Ok, Base
<1>8. /\ Answer(n, "refused") \in Op
      /\ Ok(Answer(n, "refused"), enabled, session)
  BY <1>5, <1>6, <1>7, Answered DEF Answers, Ok
<1>9. Goto(p, n) \/ Goto(p, Answer(n, "refused"))
  BY <1>2 DEF n
<1>10. UNCHANGED <<enabled, cache, session, outdated>>
  BY DEF Arrive
<1> QED
  BY <1>5, <1>7, <1>8, <1>9, <1>10, Moves

(* What is known of a request that takes a step. *)
LEMMA Known ==
    ASSUME GateInv, NEW p \in Procs
    PROVE  /\ op[p] \in Op /\ Ok(op[p], enabled, session)
           /\ Base(op[p], enabled, session)
BY DEF GateInv, TypeOK, Ok

(* The client is told of a timeout. *)
LEMMA TimeOutStep ==
    ASSUME GateInv, NEW p \in Procs, TimeOut(p) PROVE GateInv'
<1> DEFINE o == op[p]
           n == [o EXCEPT !.answer = "timeout"]
<1>1. o \in Op /\ Ok(o, enabled, session)
  BY Known
<1> HIDE DEF o
<1>2. n \in Op
  BY <1>1 DEF Op, Answers
<1>3. /\ n.answer = "timeout" /\ n.pc = o.pc /\ n.ran = o.ran
      /\ n.late = o.late /\ n.try = o.try /\ n.route = o.route
      /\ n.signed_off = o.signed_off /\ n.during = o.during
      /\ n.old = o.old /\ n.told = o.told /\ n.passed = o.passed
  BY <1>1 DEF Op
<1>4. Goto(p, n) /\ o.pc # "done"
      /\ UNCHANGED <<enabled, cache, session, outdated>>
  BY DEF TimeOut, o
<1> HIDE DEF n
<1>5. Ok(n, enabled, session)
  BY <1>1, <1>3, <1>4
  DEF Ok, Base, Counted, Truthful, SignedOff, Warned, Informed, Pardoned
<1> QED
  BY <1>2, <1>4, <1>5, Moves

(* An attempt at a look-up is repeated. *)
LEMMA Refetched ==
    ASSUME GateInv, NEW o \in Op, NEW failed \in Op, Base(o, enabled, session),
           o.pc \in Early, Ok(failed, enabled, session)
    PROVE  LET n == Again(o, "fetch", failed) IN
           n \in Op /\ Ok(n, enabled, session)
<1> DEFINE m == [o EXCEPT !.try = @ + 1]
           n == [m EXCEPT !.pc = "fetch"]
<1>1. CASE MayRetry(o)
  <2>1. n \in Op
    <3>1. o.try + 1 \in 0..MaxRetries
      BY <1>1 DEF Op, MayRetry
    <3>2. m \in Op
      BY <3>1 DEF Op
    <3> HIDE DEF m
    <3> QED
      BY <3>2 DEF Op
  <2>2. /\ n.pc = "fetch" /\ n.try = o.try + 1 /\ n.ran = o.ran
        /\ n.late = o.late /\ n.route = o.route /\ n.answer = o.answer
        /\ n.signed_off = o.signed_off /\ n.during = o.during
    BY DEF Op
  <2> HIDE DEF n
  <2>3. Counted(n)
    BY <1>1, <2>2 DEF Counted, Base, Early, MayRetry
  <2>4. Truthful(n) /\ SignedOff(n, session)
    BY <2>2 DEF Truthful, SignedOff, Base, Early
  <2>5. Warned(n, enabled) /\ Informed(n, enabled)
    BY <2>2 DEF Warned, Informed, Base
  <2>6. Again(o, "fetch", failed) = n
    BY <1>1 DEF Again, n, m
  <2> QED
    BY <2>1, <2>3, <2>4, <2>5, <2>6 DEF Ok, Base
<1>2. CASE ~MayRetry(o)
  BY <1>2 DEF Again
<1> QED
  BY <1>1, <1>2

(* An attempt at the call itself is repeated. *)
LEMMA Resent ==
    ASSUME GateInv, NEW o \in Op, NEW failed \in Op,
           Truthful(o), SignedOff(o, session), Warned(o, enabled),
           o.pc \in {"forward", "waiting", "executed"},
           o.ran + o.late <= o.try + 1, Ok(failed, enabled, session)
    PROVE  LET n == Again(o, "forward", failed) IN
           n \in Op /\ Ok(n, enabled, session)
<1> DEFINE m == [o EXCEPT !.try = @ + 1]
           n == [m EXCEPT !.pc = "forward"]
<1>1. CASE MayRetry(o)
  <2>1. n \in Op
    <3>1. o.try + 1 \in 0..MaxRetries
      BY <1>1 DEF Op, MayRetry
    <3>2. m \in Op
      BY <3>1 DEF Op
    <3> HIDE DEF m
    <3> QED
      BY <3>2 DEF Op
  <2>2. /\ n.pc = "forward" /\ n.try = o.try + 1 /\ n.ran = o.ran
        /\ n.late = o.late /\ n.route = o.route /\ n.answer = o.answer
        /\ n.signed_off = o.signed_off /\ n.during = o.during
    BY DEF Op
  <2> HIDE DEF n
  <2>3. Counted(n)
    BY <1>1, <2>2 DEF Counted, Early, MayRetry
  <2>4. Truthful(n) /\ SignedOff(n, session)
    BY <2>2 DEF Truthful, SignedOff
  <2>5. Warned(n, enabled) /\ Informed(n, enabled)
    BY <2>2 DEF Warned, Informed
  <2>6. Again(o, "forward", failed) = n
    BY <1>1 DEF Again, n, m
  <2> QED
    BY <2>1, <2>3, <2>4, <2>5, <2>6 DEF Ok, Base
<1>2. CASE ~MayRetry(o)
  BY <1>2 DEF Again
<1> QED
  BY <1>1, <1>2

(* The guard that holds requests back during maintenance. *)
LEMMA GuardStep ==
    ASSUME GateInv, NEW p \in Procs,
           GuardBypass(p) \/ GuardCached(p) \/ GuardMiss(p)
    PROVE  GateInv'
<1> DEFINE o == op[p]
<1>1. o \in Op /\ Ok(o, enabled, session) /\ Base(o, enabled, session)
  BY Known
<1>2. /\ enabled \in BOOLEAN /\ outdated \in BOOLEAN
      /\ cache \in {"none", "on", "off"} /\ CacheOk
  BY DEF GateInv, TypeOK
<1>3. o.pc = "guard" /\ o.pc \in Early
  BY DEF GuardBypass, GuardCached, GuardMiss, At, Early
<1>4. o.ran = 0 /\ o.late = 0
  BY <1>1, <1>3 DEF Base, Counted
<1>5. UNCHANGED <<enabled, cache, session, outdated>>
  BY DEF GuardBypass, GuardCached, GuardMiss
<1> HIDE DEF o
<1>6. CASE GuardBypass(p)
  <2>1. o.route.bypass /\ Goto(p, Pass(o, "status"))
    BY <1>6 DEF GuardBypass, o
  <2>2. ~o.during
    BY <1>1, <2>1 DEF Base, Warned
  <2> QED
    BY <1>1, <1>3, <1>5, <2>1, <2>2, Passed, Moves DEF Grounds
<1>7. CASE GuardCached(p)
  <2>1. CASE cache = "on"
    <3>1. Goto(p, Answer(o, "refused"))
      BY <1>7, <2>1 DEF GuardCached, o
    <3> QED
      BY <1>1, <1>3, <1>4, <1>5, <3>1, Answered, Moves DEF Answers
  <2>2. CASE cache = "off"
    <3> DEFINE e == IF outdated THEN "outdated" ELSE "status"
    <3>1. Goto(p, Pass(o, e))
      BY <1>7, <2>2 DEF GuardCached, o
    <3>2. o.during => outdated
      BY <1>1, <1>2, <2>2 DEF Base, Warned, CacheOk
    <3>3. e \in Grounds /\ (o.during => Pardoned(o, e))
      BY <3>2 DEF Grounds, Pardoned
    <3> HIDE DEF e
    <3> QED
      BY <1>1, <1>3, <1>5, <3>1, <3>3, Passed, Moves
  <2> QED
    BY <1>2, <1>7, <2>1, <2>2 DEF GuardCached
<1>8. CASE GuardMiss(p)
  <2> DEFINE n == [o EXCEPT !.pc = "fetch"]
  <2>1. n \in Op
    BY <1>1 DEF Op
  <2>2. /\ n.pc = "fetch" /\ n.try = o.try /\ n.ran = o.ran
        /\ n.late = o.late /\ n.route = o.route /\ n.answer = o.answer
        /\ n.signed_off = o.signed_off /\ n.during = o.during
    BY <1>1 DEF Op
  <2>3. Goto(p, n)
    BY <1>8 DEF GuardMiss, o
  <2> HIDE DEF n
  <2>4. Ok(n, enabled, session)
    BY <1>1, <1>3, <2>2
    DEF Ok, Base, Counted, Truthful, SignedOff, Warned, Informed, Early
  <2> QED
    BY <1>5, <2>1, <2>3, <2>4, Moves
<1> QED
  BY <1>6, <1>7, <1>8

(* Its look-up: sent, answered, failed. *)
LEMMA FetchStep ==
    ASSUME GateInv, NEW p \in Procs,
           FetchSend(p) \/ FetchAnswer(p) \/ FetchFail(p) \/ FetchNotStored(p)
    PROVE  GateInv'
<1> DEFINE o == op[p]
<1>1. o \in Op /\ Ok(o, enabled, session) /\ Base(o, enabled, session)
  BY Known
<1>2. o.pc \in {"fetch", "asked", "told"} /\ o.pc \in Early
  BY DEF FetchSend, FetchAnswer, FetchFail, FetchNotStored, At, Early
<1>3. UNCHANGED <<enabled, cache, session, outdated>>
  BY DEF FetchSend, FetchAnswer, FetchFail, FetchNotStored
<1>4. enabled \in BOOLEAN
  BY DEF GateInv, TypeOK
<1> HIDE DEF o
<1> DEFINE f == FailOpen(o, "unreachable")
           u == FailOpen(o, "unstored")
<1>5. f \in Op /\ Ok(f, enabled, session)
  BY <1>1, <1>2, Passed DEF FailOpen, Grounds, Pardoned
<1>10. u \in Op /\ Ok(u, enabled, session)
  BY <1>1, <1>2, Passed DEF FailOpen, Grounds, Pardoned
<1>6. CASE FetchSend(p)
  <2> DEFINE n == [o EXCEPT !.pc = "asked"]
  <2>1. n \in Op
    BY <1>1 DEF Op
  <2>2. /\ n.pc = "asked" /\ n.try = o.try /\ n.ran = o.ran
        /\ n.late = o.late /\ n.route = o.route /\ n.answer = o.answer
        /\ n.signed_off = o.signed_off /\ n.during = o.during
    BY <1>1 DEF Op
  <2>3. Goto(p, n) \/ Goto(p, Again(o, "fetch", f))
    BY <1>6 DEF FetchSend, o
  <2> HIDE DEF n
  <2>4. Ok(n, enabled, session)
    BY <1>1, <1>2, <2>2
    DEF Ok, Base, Counted, Truthful, SignedOff, Warned, Informed, Early
  <2>5. /\ Again(o, "fetch", f) \in Op
        /\ Ok(Again(o, "fetch", f), enabled, session)
    BY <1>1, <1>2, <1>5, Refetched
  <2> QED
    BY <1>3, <2>1, <2>3, <2>4, <2>5, Moves
<1>7. CASE FetchAnswer(p)
  <2> DEFINE m == [o EXCEPT !.told = enabled]
             n == [m EXCEPT !.pc = "told"]
             w == FailOpen(o, "method")
  <2>1. n \in Op
    <3>1. m \in Op
      BY <1>1, <1>4 DEF Op
    <3> HIDE DEF m
    <3> QED
      BY <3>1 DEF Op
  <2>2. /\ n.pc = "told" /\ n.try = o.try /\ n.ran = o.ran
        /\ n.late = o.late /\ n.route = o.route /\ n.answer = o.answer
        /\ n.signed_off = o.signed_off /\ n.during = o.during
    BY <1>1 DEF Op
  <2>3. n.told = enabled
    BY <1>1 DEF Op
  <2>4. n = [o EXCEPT !.pc = "told", !.told = enabled]
    BY <1>1 DEF Op
  <2>5. \/ Goto(p, n)
        \/ ~o.route.read /\ Goto(p, w)
    BY <1>7, <2>4 DEF FetchAnswer, o
  <2>7. ~o.route.read => w \in Op /\ Ok(w, enabled, session)
    BY <1>1, <1>2, Passed DEF FailOpen, Grounds, Pardoned
  <2> HIDE DEF n, w
  <2>6. Ok(n, enabled, session)
    BY <1>1, <1>2, <2>2, <2>3
    DEF Ok, Base, Counted, Truthful, SignedOff, Warned, Informed, Early
  <2> QED
    BY <1>3, <2>1, <2>5, <2>6, <2>7, Moves
<1>8. CASE FetchFail(p)
  <2> DEFINE m == [o EXCEPT !.told = FALSE]
             n == [m EXCEPT !.old = FALSE]
  <2>1. n \in Op
    <3>1. m \in Op
      BY <1>1 DEF Op
    <3> HIDE DEF m
    <3> QED
      BY <3>1 DEF Op
  <2>2. /\ n.pc = o.pc /\ n.try = o.try /\ n.ran = o.ran
        /\ n.late = o.late /\ n.route = o.route /\ n.answer = o.answer
        /\ n.signed_off = o.signed_off /\ n.during = o.during
    BY <1>1 DEF Op
  <2>3. n = [o EXCEPT !.told = FALSE, !.old = FALSE]
    BY <1>1 DEF Op
  <2>4. Goto(p, Again(n, "fetch", f))
    BY <1>8, <2>3 DEF FetchFail, o
  <2> HIDE DEF n
  <2>5. Base(n, enabled, session)
    BY <1>1, <2>2 DEF Base, Counted, Truthful, SignedOff, Warned
  <2>6. /\ Again(n, "fetch", f) \in Op
        /\ Ok(Again(n, "fetch", f), enabled, session)
    BY <1>2, <1>5, <2>1, <2>2, <2>5, Refetched
  <2> QED
    BY <1>3, <2>4, <2>6, Moves
<1>9. CASE FetchNotStored(p)
  <2>1. Goto(p, u)
    BY <1>9 DEF FetchNotStored, o
  <2> QED
    BY <1>3, <1>10, <2>1, Moves
<1> QED
  BY <1>6, <1>7, <1>8, <1>9

(* Its cache: the status is stored, expires, is switched behind its back.   *)
LEMMA StoreStep ==
    ASSUME GateInv, NEW p \in Procs, FetchStore(p) PROVE GateInv'
<1> DEFINE o == op[p]
<1>1. o \in Op /\ Ok(o, enabled, session) /\ Base(o, enabled, session)
  BY Known
<1>2. /\ o.pc = "told" /\ o.pc \in Early
      /\ cache' = IF o.told THEN "on" ELSE "off"
      /\ outdated' = o.old /\ UNCHANGED <<enabled, session>>
      /\ Goto(p, IF o.told THEN Answer(o, "refused")
                 ELSE Pass(o, IF o.old THEN "outdated" ELSE "status"))
  BY DEF FetchStore, At, Early
<1> DEFINE e == IF o.old THEN "outdated" ELSE "status"
           n == IF o.told THEN Answer(o, "refused") ELSE Pass(o, e)
<1> HIDE DEF o
<1>3. enabled \in BOOLEAN /\ o.told \in BOOLEAN /\ o.old \in BOOLEAN
  BY <1>1 DEF GateInv, TypeOK, Op
<1>4. o.old \/ (o.told <=> enabled)
  BY <1>1, <1>2 DEF Ok, Informed
<1>5. CacheOk'
  BY <1>2, <1>3, <1>4 DEF CacheOk
<1>6. n \in Op /\ Ok(n, enabled, session)
  <2>1. CASE o.told
    <3>1. o.ran = 0 /\ o.late = 0
      BY <1>1, <1>2 DEF Base, Counted
    <3> QED
      BY <1>1, <1>2, <2>1, <3>1, Answered DEF Answers
  <2>2. CASE ~o.told
    <3>1. o.during => o.old
      BY <1>1, <1>4, <2>2 DEF Base, Warned
    <3>2. e \in Grounds /\ (o.during => Pardoned(o, e))
      BY <3>1 DEF Grounds, Pardoned
    <3> HIDE DEF e
    <3> QED
      BY <1>1, <1>2, <2>2, <3>2, Passed
  <2> QED
    BY <2>1, <2>2
<1>7. Goto(p, n)
  BY <1>2 DEF n
<1> HIDE DEF n
<1>8. TypeOK'
  <2>1. cache' \in {"none", "on", "off"} /\ outdated' \in BOOLEAN
    BY <1>2, <1>3
  <2>2. op' \in [Procs -> Op]
    BY <1>6, <1>7 DEF GateInv, TypeOK, Goto
  <2> QED
    BY <1>2, <2>1, <2>2 DEF GateInv, TypeOK
<1>9. \A q \in Procs : Ok(op'[q], enabled, session)
  BY <1>6, <1>7 DEF GateInv, TypeOK, Goto
<1>10. \A q \in Procs : Ok(op[q], enabled, session)'
  BY <1>2, <1>9 DEF Ok
<1> QED
  BY <1>5, <1>8, <1>10 DEF GateInv

(* An entry that expires says nothing. *)
LEMMA ExpireStep == ASSUME GateInv, CacheExpires PROVE GateInv'
BY DEF GateInv, TypeOK, CacheOk, CacheExpires

\* The switch leaves every request without a claim on the mode.
Switched(o) == [o EXCEPT !.during = FALSE, !.passed = "none",
                         !.old = @ \/ o.pc = "told"]

(* Every request keeps to the invariant when the mode is switched, *)
LEMMA SwitchedOk ==
    ASSUME NEW o \in Op, NEW en, NEW se, Ok(o, en, se)
    PROVE  Switched(o) \in Op /\ Ok(Switched(o), ~en, se)
<1> DEFINE k == [o EXCEPT !.during = FALSE]
           m == [k EXCEPT !.passed = "none"]
           n == [m EXCEPT !.old = m.old \/ o.pc = "told"]
<1>1. n \in Op
  <2>1. k \in Op
    BY DEF Op
  <2> HIDE DEF k
  <2>2. m \in Op
    BY <2>1 DEF Op, Grounds
  <2> HIDE DEF m
  <2>3. (m.old \/ o.pc = "told") \in BOOLEAN
    OBVIOUS
  <2> QED
    BY <2>2, <2>3 DEF Op
<1>2. n = Switched(o)
  BY DEF Switched, Op
<1>3. /\ n.pc = o.pc /\ n.try = o.try /\ n.ran = o.ran /\ n.late = o.late
      /\ n.route = o.route /\ n.answer = o.answer
      /\ n.signed_off = o.signed_off
  BY DEF Op
<1>4. ~n.during /\ (o.pc = "told" => n.old)
  BY DEF Op
<1> HIDE DEF n
<1>5. Ok(n, ~en, se)
  BY <1>3, <1>4
  DEF Ok, Base, Counted, Truthful, SignedOff, Warned, Informed
<1> QED
  BY <1>1, <1>2, <1>5

(* and the cache is outdated. *)
LEMMA SwitchStep == ASSUME GateInv, SetMode PROVE GateInv'
<1>1. /\ enabled' = ~enabled /\ cache' = cache /\ outdated' = (cache' # "none")
      /\ session' = session
  BY DEF SetMode, Deleted, GATEWAY_CACHE_KEY
<1>2. op' = [q \in Procs |-> Switched(op[q])]
  BY DEF SetMode, Switched
<1>3. \A q \in Procs : /\ Switched(op[q]) \in Op
                       /\ Ok(Switched(op[q]), ~enabled, session)
  BY Known, SwitchedOk
<1>4. TypeOK'
  BY <1>1, <1>2, <1>3 DEF GateInv, TypeOK
<1>5. CacheOk'
  BY <1>1 DEF CacheOk
<1>6. \A q \in Procs : Ok(op'[q], enabled', session')
  BY <1>1, <1>2, <1>3
<1> QED
  BY <1>4, <1>5, <1>6 DEF GateInv

(* A session is closed for good. *)
LEMMA CloseStep == ASSUME GateInv, CloseSession PROVE GateInv'
<1>1. /\ session' = FALSE /\ UNCHANGED <<enabled, cache, op, outdated>>
  BY DEF CloseSession
<1>2. \A q \in Procs : Ok(op[q], enabled, FALSE)
  BY Known DEF Ok, Base, SignedOff
<1> QED
  BY <1>1, <1>2 DEF GateInv, TypeOK, CacheOk

(* The guards that want a session, a role and a permission. *)
LEMMA GuardsStep ==
    ASSUME GateInv, NEW p \in Procs, Guards(p) PROVE GateInv'
<1> DEFINE o == op[p]
           n == Checked(o)
<1>1. o \in Op /\ Ok(o, enabled, session) /\ Base(o, enabled, session)
  BY Known
<1>2. /\ o.pc = "session" /\ o.pc \in Early
      /\ UNCHANGED <<enabled, cache, session, outdated>>
      /\ \/ Admitted(o) /\ Goto(p, n)
         \/ Goto(p, Answer(o, "refused"))
  BY DEF Guards, At, Early
<1>3. o.ran = 0 /\ o.late = 0
  BY <1>1, <1>2 DEF Base, Counted
<1> HIDE DEF o
<1>4. CASE Admitted(o) /\ Goto(p, n)
  <2>1. n \in Op
    BY <1>1, CheckedType
  <2>2. ~o.signed_off
    BY <1>1, <1>2, <1>4 DEF Admitted, Authenticated, Base, SignedOff
  <2>3. o.route.read \/ o.try = 0
    BY <1>1, <1>2 DEF Base, Counted
  <2>4. 0 <= o.try
    BY <1>1 DEF Op
  <2>5. Counted(n)
    BY <1>1, <1>3, <2>3, <2>4, CheckedFields DEF Counted, Early
  <2>6. Truthful(n)
    BY <1>1, <1>2, CheckedFields DEF Truthful, Base
  <2>7. SignedOff(n, session)
    BY <1>1, <2>2, CheckedFields DEF SignedOff
  <2>8. Warned(n, enabled) /\ Informed(n, enabled)
    BY <1>1, CheckedFields DEF Warned, Informed
  <2> QED
    BY <1>2, <1>4, <2>1, <2>5, <2>6, <2>7, <2>8, Moves DEF Ok, Base
<1>5. CASE Goto(p, Answer(o, "refused"))
  BY <1>1, <1>2, <1>3, <1>5, Answered, Moves DEF Answers
<1> QED
  BY <1>2, <1>4, <1>5

(* The call itself: sent, executed, answered. *)
LEMMA SendStep ==
    ASSUME GateInv, NEW p \in Procs, Send(p) PROVE GateInv'
<1> DEFINE o == op[p]
           n == [o EXCEPT !.pc = "waiting"]
<1>1. o \in Op /\ Ok(o, enabled, session) /\ Base(o, enabled, session)
  BY Known
<1>2. /\ o.pc = "forward"
      /\ UNCHANGED <<enabled, cache, session, outdated>>
      /\ Goto(p, n) \/ Goto(p, Again(o, "forward", Answer(o, "error")))
  BY DEF Send, At
<1> HIDE DEF o
<1>3. n \in Op
  BY <1>1 DEF Op
<1>4. /\ n.pc = "waiting" /\ n.try = o.try /\ n.ran = o.ran
      /\ n.late = o.late /\ n.route = o.route /\ n.answer = o.answer
      /\ n.signed_off = o.signed_off /\ n.during = o.during
  BY <1>1 DEF Op
<1> HIDE DEF n
<1>5. Ok(n, enabled, session)
  BY <1>1, <1>2, <1>4
  DEF Ok, Base, Counted, Truthful, SignedOff, Warned, Informed, Early
<1>6. /\ Answer(o, "error") \in Op
      /\ Ok(Answer(o, "error"), enabled, session)
  BY <1>1, <1>2, Answered DEF Answers
<1>7. o.ran + o.late <= o.try + 1
  BY <1>1, <1>2 DEF Base, Counted, Op
<1>8. /\ Again(o, "forward", Answer(o, "error")) \in Op
      /\ Ok(Again(o, "forward", Answer(o, "error")), enabled, session)
  BY <1>1, <1>2, <1>6, <1>7, Resent DEF Base
<1> QED
  BY <1>2, <1>3, <1>5, <1>8, Moves

(* It is executed, *)
LEMMA ExecuteStep ==
    ASSUME GateInv, NEW p \in Procs, Execute(p) PROVE GateInv'
<1> DEFINE o == op[p]
           m == [o EXCEPT !.ran = @ + 1]
           n == [m EXCEPT !.pc = "executed"]
<1>1. o \in Op /\ Ok(o, enabled, session) /\ Base(o, enabled, session)
  BY Known
<1>2. /\ o.pc = "waiting"
      /\ UNCHANGED <<enabled, cache, session, outdated>>
      /\ Goto(p, [o EXCEPT !.pc = "executed", !.ran = @ + 1])
  BY DEF Execute, At
<1> HIDE DEF o
<1>3. o.ran + o.late <= o.try
  BY <1>1, <1>2 DEF Base, Counted
<1>4. o.ran + 1 \in 0..(MaxRetries + 1)
  BY <1>1, <1>3 DEF Op
<1>5. n \in Op
  <2>1. m \in Op
    BY <1>1, <1>4 DEF Op
  <2> HIDE DEF m
  <2> QED
    BY <2>1 DEF Op
<1>6. /\ n.pc = "executed" /\ n.try = o.try /\ n.ran = o.ran + 1
      /\ n.late = o.late /\ n.route = o.route /\ n.answer = o.answer
      /\ n.signed_off = o.signed_off /\ n.during = o.during
  BY <1>1 DEF Op
<1>7. n = [o EXCEPT !.pc = "executed", !.ran = @ + 1]
  BY <1>1 DEF Op
<1> HIDE DEF n
<1>8. Counted(n)
  BY <1>1, <1>2, <1>3, <1>6 DEF Base, Counted, Early, Op
<1>9. ~o.signed_off
  BY <1>1, <1>2 DEF Base, SignedOff
<1>10. Truthful(n)
  BY <1>1, <1>2, <1>6 DEF Base, Truthful
<1>11. SignedOff(n, session) /\ Warned(n, enabled) /\ Informed(n, enabled)
  BY <1>1, <1>6, <1>9 DEF Base, SignedOff, Warned, Informed
<1> QED
  BY <1>2, <1>5, <1>7, <1>8, <1>10, <1>11, Moves DEF Ok, Base

(* It ends with an answer of the service, or without one.                  *)
LEMMA ReplyStep ==
    ASSUME GateInv, NEW p \in Procs, Refuse(p) \/ Reply(p) \/ Lose(p)
    PROVE  GateInv'
<1> DEFINE o == op[p]
<1>1. o \in Op /\ Ok(o, enabled, session) /\ Base(o, enabled, session)
  BY Known
<1>2. /\ o.pc \in {"waiting", "executed"}
      /\ UNCHANGED <<enabled, cache, session, outdated>>
  BY DEF Refuse, Reply, Lose, At
<1>3. o.ran + o.late <= o.try + 1
  BY <1>1, <1>2 DEF Base, Counted, Op
<1> HIDE DEF o
<1>4. /\ Answer(o, "error") \in Op
      /\ Ok(Answer(o, "error"), enabled, session)
  BY <1>1, <1>2, Answered DEF Answers
<1>5. CASE Refuse(p)
  <2>1. Goto(p, Answer(o, "error"))
    BY <1>5 DEF Refuse, o
  <2> QED
    BY <1>2, <1>4, <2>1, Moves
<1>6. CASE Reply(p)
  <2>1. o.pc = "executed" /\ Goto(p, Answer(o, "ok"))
    BY <1>6 DEF Reply, At, o
  <2>2. o.ran > 0
    BY <1>1, <2>1 DEF Base, Counted
  <2> QED
    BY <1>1, <1>2, <2>1, <2>2, Answered, Moves DEF Answers
<1>7. CASE Lose(p)
  <2>1. Goto(p, Again(o, "forward", Answer(o, "error")))
    BY <1>7 DEF Lose, o
  <2>2. /\ Again(o, "forward", Answer(o, "error")) \in Op
        /\ Ok(Again(o, "forward", Answer(o, "error")), enabled, session)
    BY <1>1, <1>2, <1>3, <1>4, Resent DEF Base
  <2> QED
    BY <1>2, <2>1, <2>2, Moves
<1> QED
  BY <1>5, <1>6, <1>7

(* The gateway gives an attempt up that the service may still execute.      *)
LEMMA GiveUpStep ==
    ASSUME GateInv, NEW p \in Procs, GiveUp(p) PROVE GateInv'
<1> DEFINE o == op[p]
           n == [o EXCEPT !.late = @ + 1]
<1>1. o \in Op /\ Ok(o, enabled, session) /\ Base(o, enabled, session)
  BY Known
<1>2. /\ o.pc = "waiting"
      /\ UNCHANGED <<enabled, cache, session, outdated>>
      /\ Goto(p, Again(n, "forward", Answer(n, "error")))
  BY DEF GiveUp, At
<1> HIDE DEF o
<1>3. o.ran + o.late <= o.try /\ (o.route.read \/ o.try = 0)
  BY <1>1, <1>2 DEF Base, Counted
<1>4. o.late + 1 \in 0..(MaxRetries + 1)
  BY <1>1, <1>3 DEF Op
<1>5. n \in Op
  BY <1>1, <1>4 DEF Op
<1>6. /\ n.pc = "waiting" /\ n.try = o.try /\ n.ran = o.ran
      /\ n.late = o.late + 1 /\ n.route = o.route /\ n.answer = o.answer
      /\ n.signed_off = o.signed_off /\ n.during = o.during
  BY <1>1, <1>2 DEF Op
<1> HIDE DEF n
<1>7. ~n.signed_off /\ n.answer \in {"none", "timeout"}
  BY <1>1, <1>2, <1>6 DEF Base, SignedOff, Truthful
<1>8. n.ran + n.late <= n.try + 1
  BY <1>1, <1>3, <1>6 DEF Op
<1>9. Truthful(n) /\ SignedOff(n, session) /\ Warned(n, enabled)
  BY <1>1, <1>6, <1>7 DEF Truthful, SignedOff, Warned, Base
<1>10. Answer(n, "error") \in Op
  BY <1>5, AnswerType DEF Answers
<1>11. Ok(Answer(n, "error"), enabled, session)
  <2> DEFINE a == Answer(n, "error")
  <2>1. "error" \in Answers
    BY DEF Answers
  <2>2. /\ a.pc = "done" /\ a.ran = n.ran /\ a.late = n.late
        /\ a.route.read = n.route.read
        /\ a.answer \in {"error", "timeout"}
        /\ ~a.signed_off /\ ~a.during
    BY <1>5, <1>7, <2>1, AnswerFields
  <2> HIDE DEF a
  <2>3. n.ran + n.late <= IF n.route.read THEN MaxRetries + 1 ELSE 1
    BY <1>3, <1>5, <1>6, <1>8 DEF Op, Class
  <2>4. Counted(a)
    BY <2>2, <2>3 DEF Counted, Early
  <2>5. Truthful(a)
    BY <2>2 DEF Truthful
  <2>6. SignedOff(a, session) /\ Warned(a, enabled) /\ Informed(a, enabled)
    BY <2>2 DEF SignedOff, Warned, Informed
  <2> QED
    BY <2>4, <2>5, <2>6 DEF a, Ok, Base
<1>12. /\ Again(n, "forward", Answer(n, "error")) \in Op
       /\ Ok(Again(n, "forward", Answer(n, "error")), enabled, session)
  BY <1>5, <1>6, <1>8, <1>9, <1>10, <1>11, Resent
<1> QED
  BY <1>2, <1>12, Moves

(* What was given up is executed nevertheless. *)
LEMMA LateStep ==
    ASSUME GateInv, NEW p \in Procs, ExecuteLate(p) PROVE GateInv'
<1> DEFINE o == op[p]
           m == [o EXCEPT !.late = @ - 1]
           n == [m EXCEPT !.ran = @ + 1]
<1>1. o \in Op /\ Ok(o, enabled, session) /\ Base(o, enabled, session)
  BY Known
<1>2. /\ o.late > 0
      /\ UNCHANGED <<enabled, cache, session, outdated>>
      /\ Goto(p, [o EXCEPT !.late = @ - 1, !.ran = @ + 1])
  BY DEF ExecuteLate
<1> HIDE DEF o
<1>3. o.pc \in {"forward", "waiting", "executed", "done"}
  BY <1>1, <1>2 DEF Base, Counted, Early, Op
<1>4. o.ran + o.late <= MaxRetries + 1
  BY <1>1, <1>3 DEF Base, Counted, Op
<1>5. o.late - 1 \in 0..(MaxRetries + 1) /\ o.ran + 1 \in 0..(MaxRetries + 1)
  BY <1>1, <1>2, <1>4 DEF Op
<1>6. n \in Op
  <2>1. m \in Op
    BY <1>1, <1>5 DEF Op
  <2>2. m.ran = o.ran
    BY <1>1 DEF Op
  <2> HIDE DEF m
  <2> QED
    BY <1>5, <2>1, <2>2 DEF Op
<1>7. /\ n.pc = o.pc /\ n.try = o.try /\ n.ran = o.ran + 1
      /\ n.late = o.late - 1 /\ n.route = o.route /\ n.answer = o.answer
      /\ n.signed_off = o.signed_off /\ n.during = o.during
  BY <1>1 DEF Op
<1>8. n = [o EXCEPT !.late = @ - 1, !.ran = @ + 1]
  BY <1>1 DEF Op
<1> HIDE DEF n
<1>9. n.ran + n.late = o.ran + o.late /\ n.ran > 0
  BY <1>1, <1>7 DEF Op
<1>10. Counted(n)
  BY <1>1, <1>3, <1>7, <1>9 DEF Base, Counted, Early
<1>11. ~o.signed_off /\ o.answer # "refused"
  BY <1>1, <1>2 DEF Base, SignedOff, Truthful
<1>12. Truthful(n)
  BY <1>1, <1>7, <1>9, <1>11 DEF Base, Truthful
<1>13. SignedOff(n, session) /\ Warned(n, enabled) /\ Informed(n, enabled)
  BY <1>1, <1>3, <1>7, <1>11 DEF Base, SignedOff, Warned, Informed
<1> QED
  BY <1>2, <1>6, <1>8, <1>10, <1>12, <1>13, Moves DEF Ok, Base

(* An idle request has no claim on anything. *)
LEMMA IdleOk == ASSUME NEW en, NEW se PROVE Ok(Idle, en, se)
BY DEF Idle, Ok, Base, Counted, Truthful, SignedOff, Warned, Informed, Early

(* The next request finds its place idle. *)
LEMMA EndStep == ASSUME GateInv, NEW p \in Procs, End(p) PROVE GateInv'
BY IdleType, IdleOk, Moves DEF End

-----------------------------------------------------------------------------
(* The theorems.                                                           *)

(* The invariant holds at first, *)
LEMMA InitInv == Init => GateInv
<1> SUFFICES ASSUME Init PROVE GateInv
  OBVIOUS
<1>1. TypeOK
  BY IdleType DEF Init, TypeOK
<1>2. CacheOk
  BY DEF Init, CacheOk
<1>3. \A p \in Procs : Ok(op[p], enabled, session)
  BY IdleOk DEF Init
<1> QED
  BY <1>1, <1>2, <1>3 DEF GateInv

(* after each step, *)
LEMMA StepInv == GateInv /\ [Next]_vars => GateInv'
<1> SUFFICES ASSUME GateInv, [Next]_vars PROVE GateInv'
  OBVIOUS
<1>1. CASE UNCHANGED vars
  BY <1>1 DEF vars, GateInv, TypeOK, CacheOk
<1>2. ASSUME NEW p \in Procs, Arrive(p) \/ TimeOut(p) \/ Guards(p) \/ End(p)
      PROVE  GateInv'
  BY <1>2, ArriveStep, TimeOutStep, GuardsStep, EndStep
<1>3. ASSUME NEW p \in Procs, Guard(p) PROVE GateInv'
  BY <1>3, GuardStep, FetchStep, StoreStep DEF Guard
<1>4. ASSUME NEW p \in Procs, Proxy(p) PROVE GateInv'
  BY <1>4, SendStep, ExecuteStep, ReplyStep, GiveUpStep, LateStep DEF Proxy
<1>5. CASE CacheExpires \/ SetMode \/ CloseSession
  BY <1>5, ExpireStep, SwitchStep, CloseStep
<1> QED
  BY <1>1, <1>2, <1>3, <1>4, <1>5 DEF Next

(* and so in every state of every behaviour. *)
LEMMA Inductive == Spec => []GateInv
BY InitInv, StepInv, PTL DEF Spec

(* The variables keep to their types: no counter of attempts runs over.    *)
THEOREM TypeCorrect == Spec => []TypeOK
<1>1. GateInv => TypeOK
  BY DEF GateInv
<1> QED
  BY <1>1, Inductive, PTL

(* However often ResilientHttpClient gives an attempt up or repeats it,    *)
(* what is not a read is executed once at most, and a read once for each   *)
(* attempt.                                                                *)
THEOREM WrittenOnce == Spec => []WritesOnce
<1>1. GateInv => WritesOnce
  <2> SUFFICES ASSUME GateInv, NEW p \in Procs
               PROVE  op[p].ran + op[p].late
                        <= IF op[p].route.read THEN MaxRetries + 1 ELSE 1
    BY DEF WritesOnce
  <2>1. op[p] \in Op /\ Base(op[p], enabled, session)
    BY Known
  <2> DEFINE o == op[p]
  <2> HIDE DEF o
  <2>2. o \in Op /\ Counted(o)
    BY <2>1 DEF o, Base
  <2>3. o.ran + o.late <= IF o.route.read THEN MaxRetries + 1 ELSE 1
    BY <2>2 DEF Counted, Early, Op, Class
  <2> QED
    BY <2>3 DEF o
<1> QED
  BY <1>1, Inductive, PTL

(* A success reported by the gateway has been executed, what it refused is *)
(* never executed.                                                         *)
THEOREM AnswersAreTrue == Spec => []AnswerIsTrue
<1>1. GateInv => AnswerIsTrue
  BY Known DEF Base, Truthful, AnswerIsTrue
<1> QED
  BY <1>1, Inductive, PTL

(* JwtSessionGuard lets nothing through of a session closed before.        *)
THEOREM ClosedIsStopped == Spec => []ClosedSessionStopped
<1>1. GateInv => ClosedSessionStopped
  BY Known DEF Base, SignedOff, ClosedSessionStopped
<1> QED
  BY <1>1, Inductive, PTL

(* What MaintenanceGuard finds in Redis is the mode of config-service,     *)
(* unless it is from before the last switch, for which nothing deletes it. *)
(* A request that comes and goes during maintenance passes the guard in    *)
(* four ways only: such an entry or answer; no answer from config-service; *)
(* an answer that Redis did not take; and, if it is not a read, a look-up  *)
(* sent with its own method, which config-service does not know.           *)
THEOREM MaintenanceKept == Spec => []MaintenanceHolds
<1>1. GateInv => MaintenanceHolds
  BY Known DEF GateInv, CacheOk, Ok, Informed, Pardoned, MaintenanceHolds, At
<1> QED
  BY <1>1, Inductive, PTL

-----------------------------------------------------------------------------
(* A request is served in a bounded number of steps, whatever the breakers, *)
(* the services and the cache do: Left bounds the steps still to come.  An  *)
(* attempt at a call has at most three, and one that was given up may be    *)
(* executed later.                                                          *)

Left(o) ==
    LET again == 3 * (MaxRetries - o.try)
        proxy == 3 * MaxRetries + 5 IN
    CASE o.pc = "idle"     -> 0
      [] o.pc = "done"     -> o.late + 1
      [] o.pc = "executed" -> o.late + 2 + again
      [] o.pc = "waiting"  -> o.late + 3 + again
      [] o.pc = "forward"  -> o.late + 4 + again
      [] o.pc = "session"  -> proxy
      [] o.pc = "told"     -> proxy + 1 + again
      [] o.pc = "asked"    -> proxy + 2 + again
      [] o.pc = "fetch"    -> proxy + 3 + again
      [] o.pc = "guard"    -> proxy + 4 + again

Advances(p) == Guard(p) \/ Guards(p) \/ Proxy(p) \/ End(p)

ServedSoon ==
    \A p \in Procs :
        /\ Left(op'[p]) \in 0..(6 * MaxRetries + 9)
        /\ op[p].pc # "idle" => Left(op'[p]) <= Left(op[p])
        /\ Advances(p) => Left(op'[p]) < Left(op[p])

\* What is left is a number, never more than for a request that arrives.
LEMMA LeftRange ==
    ASSUME NEW o \in Op, Counted(o) PROVE Left(o) \in 0..(6 * MaxRetries + 9)
<1>1. o.try \in 0..MaxRetries /\ o.late \in Nat /\ o.ran \in Nat
  BY DEF Op
<1>2. o.route.read \in BOOLEAN
  BY DEF Op, Class
<1>3. o.pc \in {"idle", "guard", "fetch", "asked", "told", "session",
               "forward", "waiting", "executed", "done"}
  BY DEF Op
<1>4. o.late <= MaxRetries + 1
  BY DEF Op
<1>5. o.pc \in {"forward", "waiting"} => o.late <= o.try
  BY <1>1 DEF Counted
<1>6. o.pc = "executed" => o.late <= o.try + 1
  BY <1>1 DEF Counted
<1>7. o.pc \in {"session", "told", "asked", "fetch", "guard"} => o.late = 0
  BY DEF Counted, Early
<1>8. CASE o.pc \in {"forward", "waiting", "executed"}
  <2>1. Left(o) \in Nat /\ Left(o) <= 3 * MaxRetries + 4
    BY <1>1, <1>5, <1>6, <1>8 DEF Left
  <2> QED
    BY <2>1
<1>9. CASE o.pc \in {"idle", "done"}
  <2>1. Left(o) \in Nat /\ Left(o) <= MaxRetries + 2
    BY <1>1, <1>4, <1>9 DEF Left
  <2> QED
    BY <2>1
<1>10. CASE o.pc \in {"guard", "fetch", "asked", "told", "session"}
  <2>1. Left(o) \in Nat /\ Left(o) <= 6 * MaxRetries + 9
    BY <1>1, <1>10 DEF Left
  <2> QED
    BY <2>1
<1> QED
  BY <1>3, <1>8, <1>9, <1>10

LEMMA AnswerLess ==
    ASSUME NEW o \in Op, Counted(o), NEW a, o.pc \notin {"idle", "done"}
    PROVE  Left(Answer(o, a)) < Left(o)
<1>1. Answer(o, a).pc = "done" /\ Answer(o, a).late = o.late
  BY DEF Answer, Idle, NoClass
<1>2. o.try \in 0..MaxRetries /\ o.late \in Nat
  BY DEF Op
<1>3. o.pc \in {"guard", "fetch", "asked", "told", "session",
               "forward", "waiting", "executed"}
  BY DEF Op
<1>4. o.pc \in {"session", "told", "asked", "fetch", "guard"} => o.late = 0
  BY DEF Counted, Early
<1>5. Left(Answer(o, a)) = o.late + 1
  BY <1>1 DEF Left
<1>6. o.late + 1 < Left(o)
  BY <1>2, <1>3, <1>4 DEF Left
<1> QED
  BY <1>5, <1>6

LEMMA PassLess ==
    ASSUME NEW o \in Op, o.pc \in {"guard", "fetch", "asked", "told"},
           NEW n, n.pc = "session"
    PROVE  Left(n) < Left(o)
<1>2. o.try \in 0..MaxRetries
  BY DEF Op
<1>3. Left(n) = 3 * MaxRetries + 5
  BY DEF Left
<1>4. 3 * MaxRetries + 5 < Left(o)
  BY <1>2 DEF Left
<1> QED
  BY <1>3, <1>4

\* Going on within an attempt, or with the next one.
LEMMA PcLess ==
    ASSUME NEW o \in Op, NEW n, n.try = o.try, n.late = o.late,
           \/ o.pc = "guard" /\ n.pc = "fetch"
           \/ o.pc = "fetch" /\ n.pc = "asked"
           \/ o.pc = "asked" /\ n.pc = "told"
           \/ o.pc = "forward" /\ n.pc = "waiting"
           \/ o.pc = "waiting" /\ n.pc = "executed"
    PROVE  Left(n) < Left(o)
<1>1. o.try \in 0..MaxRetries /\ o.late \in Nat
  BY DEF Op
<1> QED
  BY <1>1 DEF Left

LEMMA RetryLess ==
    ASSUME NEW o \in Op, NEW n, n.try = o.try + 1,
           \/ /\ o.pc \in {"fetch", "asked", "told"} /\ n.pc = "fetch"
           \/ /\ o.pc \in {"forward", "waiting", "executed"} /\ n.pc = "forward"
              /\ n.late = o.late
           \/ /\ o.pc = "waiting" /\ n.pc = "forward" /\ n.late = o.late + 1
    PROVE  Left(n) < Left(o)
<1>1. o.try \in 0..MaxRetries /\ o.late \in Nat
  BY DEF Op
<1> QED
  BY <1>1 DEF Left

\* What becomes of a request whose attempt has failed.
LEMMA AgainLess ==
    ASSUME NEW o \in Op, NEW x \in Op, x.try = o.try, NEW failed,
           Left(failed) < Left(o), NEW pc \in {"fetch", "forward"},
           \/ o.pc \in {"fetch", "asked", "told"} /\ pc = "fetch"
           \/ /\ o.pc \in {"forward", "waiting", "executed"} /\ pc = "forward"
              /\ x.late = o.late
           \/ o.pc = "waiting" /\ pc = "forward" /\ x.late = o.late + 1
    PROVE  Left(Again(x, pc, failed)) < Left(o)
<1> DEFINE n == [x EXCEPT !.pc = pc, !.try = x.try + 1]
<1>1. n.pc = pc /\ n.try = o.try + 1 /\ n.late = x.late
  BY DEF Op
<1>2. Again(x, pc, failed) = n \/ Again(x, pc, failed) = failed
  BY DEF Again
<1> HIDE DEF n
<1>3. Left(n) < Left(o)
  BY <1>1, RetryLess
<1> QED
  BY <1>2, <1>3

\* Each action of a request that is its own turn, not the client's clock.
LEMMA GuardLess ==
    ASSUME GateInv, NEW p \in Procs, Guard(p)
    PROVE  \E new : Goto(p, new) /\ Left(new) < Left(op[p])
<1> DEFINE o == op[p]
<1>1. o \in Op /\ Counted(o)
  BY Known DEF Base
<1> DEFINE Down == \E new : Goto(p, new) /\ Left(new) < Left(o)
<1>2. ASSUME NEW a, o.pc \in {"guard", "told"}, Goto(p, Answer(o, a)) PROVE Down
  BY <1>1, <1>2, AnswerLess
<1>3. ASSUME o.pc \in {"guard", "fetch", "asked", "told"},
             NEW n, n.pc = "session", Goto(p, n)
      PROVE  Down
  BY <1>1, <1>3, PassLess
<1> DEFINE f == FailOpen(o, "unreachable")
<1>12. \A e : Pass(o, e).pc = "session" /\ FailOpen(o, e).pc = "session"
  BY <1>1, PassFields, Zenon DEF FailOpen
<1>13. \A e : o.pc \in {"fetch", "asked", "told"}
                => Left(FailOpen(o, e)) < Left(o)
  BY <1>1, <1>12, PassLess
<1>4. CASE GuardBypass(p)
  <2>1. o.pc = "guard"
    BY <1>4 DEF GuardBypass, At
  <2>2. Goto(p, Pass(o, "status"))
    BY <1>4, Zenon DEF GuardBypass
  <2> QED
    BY <1>3, <1>12, <2>1, <2>2, Zenon
<1>5. CASE GuardCached(p)
  <2>1. o.pc = "guard"
    BY <1>5 DEF GuardCached, At
  <2>2. \/ \E a : Goto(p, Answer(o, a))
        \/ \E e : Goto(p, Pass(o, e))
    BY <1>5, Zenon DEF GuardCached
  <2>3. ASSUME NEW a, Goto(p, Answer(o, a)) PROVE Down
    BY <1>2, <2>1, <2>3
  <2>4. ASSUME NEW e, Goto(p, Pass(o, e)) PROVE Down
    <3> DEFINE n == Pass(o, e)
    <3>1. n.pc = "session" /\ Goto(p, n)
      BY <1>12, <2>4, Zenon
    <3> HIDE DEF n
    <3> QED
      BY <1>3, <2>1, <3>1
  <2> HIDE DEF Down
  <2>5. Down
    BY <2>2, <2>3, <2>4, Zenon
  <2> QED
    BY <2>5 DEF Down
<1>6. CASE GuardMiss(p)
  <2> DEFINE n == [o EXCEPT !.pc = "fetch"]
  <2>1. /\ Goto(p, n) /\ n.pc = "fetch" /\ n.try = o.try /\ n.late = o.late
        /\ o.pc = "guard"
    BY <1>1, <1>6 DEF GuardMiss, At, Op
  <2> HIDE DEF n
  <2> QED
    BY <1>1, <2>1, PcLess
<1>7. CASE FetchSend(p)
  <2>1. o.pc = "fetch"
    BY <1>7 DEF FetchSend, At
  <2>2. Left(f) < Left(o)
    BY <1>13, <2>1
  <2>3. Left(Again(o, "fetch", f)) < Left(o)
    BY <1>1, <2>1, <2>2, AgainLess
  <2> DEFINE n == [o EXCEPT !.pc = "asked"]
  <2>4. n.pc = "asked" /\ n.try = o.try /\ n.late = o.late
    BY <1>1 DEF Op
  <2>5. Goto(p, n) \/ Goto(p, Again(o, "fetch", f))
    BY <1>7 DEF FetchSend
  <2> HIDE DEF n
  <2>6. Left(n) < Left(o)
    BY <1>1, <2>1, <2>4, PcLess
  <2> QED
    BY <2>3, <2>5, <2>6
<1>8. CASE FetchAnswer(p)
  <2>1. o.pc = "asked"
    BY <1>8 DEF FetchAnswer, At
  <2> DEFINE n == [o EXCEPT !.pc = "told", !.told = enabled]
  <2>2. n.pc = "told" /\ n.try = o.try /\ n.late = o.late
    BY <1>1 DEF Op
  <2>3. Goto(p, n) \/ Goto(p, FailOpen(o, "method"))
    BY <1>8 DEF FetchAnswer
  <2> HIDE DEF n
  <2>4. Left(n) < Left(o)
    BY <1>1, <2>1, <2>2, PcLess
  <2> QED
    BY <1>13, <2>1, <2>3, <2>4
<1>9. CASE FetchFail(p)
  <2>1. o.pc \in {"asked", "told"}
    BY <1>9 DEF FetchFail
  <2> DEFINE x == [o EXCEPT !.told = FALSE, !.old = FALSE]
  <2>2. x \in Op /\ x.try = o.try
    BY <1>1 DEF Op
  <2>3. Goto(p, Again(x, "fetch", f))
    BY <1>9 DEF FetchFail
  <2> HIDE DEF x
  <2>4. Left(f) < Left(o)
    BY <1>13, <2>1
  <2>5. Left(Again(x, "fetch", f)) < Left(o)
    BY <1>1, <2>1, <2>2, <2>4, AgainLess
  <2> QED
    BY <2>3, <2>5
<1>10. CASE FetchStore(p)
  <2>1. o.pc = "told"
    BY <1>10 DEF FetchStore, At
  <2>2. \/ \E a : Goto(p, Answer(o, a))
        \/ \E e : Goto(p, Pass(o, e))
    BY <1>10, Zenon DEF FetchStore
  <2>3. ASSUME NEW a, Goto(p, Answer(o, a)) PROVE Down
    BY <1>2, <2>1, <2>3
  <2>4. ASSUME NEW e, Goto(p, Pass(o, e)) PROVE Down
    <3> DEFINE n == Pass(o, e)
    <3>1. n.pc = "session" /\ Goto(p, n)
      BY <1>12, <2>4, Zenon
    <3> HIDE DEF n
    <3> QED
      BY <1>3, <2>1, <3>1
  <2> HIDE DEF Down
  <2>5. Down
    BY <2>2, <2>3, <2>4, Zenon
  <2> QED
    BY <2>5 DEF Down
<1>11. CASE FetchNotStored(p)
  <2>1. o.pc = "told" /\ Goto(p, FailOpen(o, "unstored"))
    BY <1>11 DEF FetchNotStored, At
  <2> QED
    BY <1>13, <2>1
<1> QED
  BY <1>4, <1>5, <1>6, <1>7, <1>8, <1>9, <1>10, <1>11 DEF Guard

LEMMA GuardsLess ==
    ASSUME GateInv, NEW p \in Procs, Guards(p)
    PROVE  \E new : Goto(p, new) /\ Left(new) < Left(op[p])
<1> DEFINE o == op[p]
<1>1. o \in Op /\ Counted(o) /\ o.pc = "session"
  BY Known DEF Base, Guards, At
<1>2. o.late = 0 /\ o.try \in 0..MaxRetries
  BY <1>1 DEF Counted, Early, Op
<1>3. Checked(o).pc = "forward" /\ Checked(o).try = o.try /\ Checked(o).late = o.late
  BY <1>1, CheckedFields
<1>4. Left(o) = 3 * MaxRetries + 5
  BY <1>1 DEF Left
<1>5. Left(Checked(o)) = 3 * (MaxRetries - o.try) + 4
  BY <1>2, <1>3 DEF Left
<1>6. Left(Checked(o)) < Left(o)
  BY <1>2, <1>4, <1>5
<1>7. Left(Answer(o, "refused")) < Left(o)
  BY <1>1, AnswerLess
<1>8. Goto(p, Checked(o)) \/ Goto(p, Answer(o, "refused"))
  BY DEF Guards
<1> QED
  BY <1>6, <1>7, <1>8

LEMMA ProxyLess ==
    ASSUME GateInv, NEW p \in Procs, Proxy(p) \/ End(p)
    PROVE  \E new : Goto(p, new) /\ Left(new) < Left(op[p])
<1> DEFINE o == op[p]
<1>1. o \in Op /\ Counted(o)
  BY Known DEF Base
<1> DEFINE Down == \E new : Goto(p, new) /\ Left(new) < Left(o)
<1>2. o.try \in 0..MaxRetries /\ o.late \in Nat /\ o.ran \in Nat
  BY <1>1 DEF Op
<1>3. ASSUME NEW a, o.pc \in {"waiting", "executed"}, Goto(p, Answer(o, a)) PROVE Down
  BY <1>1, <1>3, AnswerLess
<1>4. ASSUME o.pc \in {"forward", "waiting", "executed"},
             Goto(p, Again(o, "forward", Answer(o, "error")))
      PROVE  Down
  <2>1. Left(Answer(o, "error")) < Left(o)
    BY <1>1, <1>4, AnswerLess
  <2>2. Left(Again(o, "forward", Answer(o, "error"))) < Left(o)
    BY <1>1, <1>4, <2>1, AgainLess
  <2> QED
    BY <1>4, <2>2
<1>5. CASE Send(p)
  <2> DEFINE n == [o EXCEPT !.pc = "waiting"]
  <2>1. /\ n.pc = "waiting" /\ n.try = o.try /\ n.late = o.late
        /\ o.pc = "forward"
    BY <1>1, <1>5 DEF Op, Send, At
  <2>2. Goto(p, n) \/ Goto(p, Again(o, "forward", Answer(o, "error")))
    BY <1>5 DEF Send
  <2> HIDE DEF n
  <2>3. Left(n) < Left(o)
    BY <1>1, <2>1, PcLess
  <2> QED
    BY <1>4, <2>1, <2>2, <2>3
<1>6. CASE Execute(p)
  <2> DEFINE n == [o EXCEPT !.pc = "executed", !.ran = o.ran + 1]
  <2>1. /\ Goto(p, n) /\ n.pc = "executed" /\ n.try = o.try /\ n.late = o.late
        /\ o.pc = "waiting"
    BY <1>1, <1>6 DEF Op, Execute, At
  <2> HIDE DEF n
  <2>2. Left(n) < Left(o)
    BY <1>1, <2>1, PcLess
  <2> QED
    BY <2>1, <2>2
<1>7. CASE Refuse(p) \/ Reply(p)
  BY <1>3, <1>7 DEF Refuse, Reply, At
<1>8. CASE Lose(p)
  BY <1>4, <1>8 DEF Lose
<1>9. CASE GiveUp(p)
  <2> DEFINE x == [o EXCEPT !.late = o.late + 1]
  <2>1. o.pc = "waiting"
    BY <1>9 DEF GiveUp, At
  <2>2. o.late + 1 \in 0..(MaxRetries + 1)
    <3>1. o.late <= o.try
      BY <1>1, <1>2, <2>1 DEF Counted
    <3> QED
      BY <1>2, <3>1
  <2>3. x \in Op /\ x.try = o.try /\ x.late = o.late + 1
    BY <1>1, <2>2 DEF Op
  <2>4. Goto(p, Again(x, "forward", Answer(x, "error")))
    BY <1>9 DEF GiveUp
  <2>5. Answer(x, "error").pc = "done" /\ Answer(x, "error").late = x.late
    BY DEF Answer, Idle, NoClass
  <2> HIDE DEF x
  <2>6. Left(Answer(x, "error")) = o.late + 2
    BY <1>2, <2>3, <2>5 DEF Left
  <2>7. Left(o) = o.late + 3 + 3 * (MaxRetries - o.try)
    BY <2>1 DEF Left
  <2>8. Left(Answer(x, "error")) < Left(o)
    BY <1>2, <2>6, <2>7
  <2>9. Left(Again(x, "forward", Answer(x, "error"))) < Left(o)
    BY <1>1, <2>1, <2>3, <2>8, AgainLess
  <2> QED
    BY <2>4, <2>9
<1>10. CASE ExecuteLate(p)
  <2> DEFINE n == [o EXCEPT !.late = o.late - 1, !.ran = o.ran + 1]
  <2>1. /\ Goto(p, n) /\ n.pc = o.pc /\ n.try = o.try /\ n.late = o.late - 1
        /\ o.late > 0
    BY <1>1, <1>10 DEF Op, ExecuteLate
  <2>2. o.pc \in {"forward", "waiting", "executed", "done"}
    BY <1>1, <2>1 DEF Counted, Early, Op
  <2> HIDE DEF n
  <2>3. Left(n) < Left(o)
    BY <1>2, <2>1, <2>2 DEF Left
  <2> QED
    BY <2>1, <2>3
<1>11. CASE End(p)
  <2>1. Goto(p, Idle) /\ o.pc = "done" /\ Idle.pc = "idle"
    BY <1>11 DEF End, At, Idle
  <2>2. Left(Idle) < Left(o)
    BY <1>2, <2>1 DEF Left
  <2> QED
    BY <2>1, <2>2
<1> QED
  BY <1>5, <1>6, <1>7, <1>8, <1>9, <1>10, <1>11 DEF Proxy

LEMMA ServedStep == GateInv /\ GateInv' /\ [Next]_vars => [ServedSoon]_vars
<1> SUFFICES ASSUME GateInv, GateInv', Next PROVE ServedSoon
  BY DEF vars
<1>1. ASSUME NEW q \in Procs
      PROVE  /\ op[q] \in Op /\ Counted(op[q]) /\ op'[q] \in Op /\ Counted(op'[q])
             /\ Left(op[q]) \in 0..(6 * MaxRetries + 9)
             /\ Left(op'[q]) \in 0..(6 * MaxRetries + 9)
  <2>1. /\ op[q] \in Op /\ Counted(op[q]) /\ op'[q] \in Op /\ Counted(op'[q])
    BY DEF GateInv, TypeOK, Ok, Base
  <2> QED
    BY <2>1, LeftRange
<1>2. ASSUME NEW p \in Procs, Advances(p)
      PROVE  \E new : Goto(p, new) /\ Left(new) < Left(op[p])
  BY <1>2, GuardLess, GuardsLess, ProxyLess DEF Advances
<1>3. ASSUME NEW p \in Procs, NEW new, Goto(p, new)
      PROVE  \A q \in Procs : op'[q] = IF q = p THEN new ELSE op[q]
  BY <1>3 DEF Goto, GateInv, TypeOK
<1>4. ASSUME NEW q \in Procs, Advances(q) PROVE Left(op'[q]) < Left(op[q])
  BY <1>2, <1>3, <1>4
<1>5. ASSUME NEW q \in Procs, op[q].pc # "idle" PROVE Left(op'[q]) <= Left(op[q])
  <2>1. ASSUME op'[q].pc = op[q].pc, op'[q].try = op[q].try, op'[q].late = op[q].late
        PROVE  Left(op'[q]) = Left(op[q])
    BY <2>1 DEF Left
  <2>2. ASSUME NEW p \in Procs, NEW new, Goto(p, new), p # q
        PROVE  op'[q] = op[q]
    BY <1>3, <2>2
  <2>3. CASE Advances(q)
    BY <1>1, <1>4, <2>3
  <2>4. CASE TimeOut(q)
    <3>1. op'[q] = [op[q] EXCEPT !.answer = "timeout"]
      BY <1>3, <2>4 DEF TimeOut
    <3> QED
      BY <1>1, <2>1, <3>1 DEF Op
  <2>5. CASE SetMode
    <3>1. op'[q] = [op[q] EXCEPT !.during = FALSE, !.passed = "none",
                                !.old = @ \/ op[q].pc = "told"]
      BY <2>5 DEF SetMode
    <3> QED
      BY <1>1, <2>1, <3>1 DEF Op
  <2>6. CASE CacheExpires \/ CloseSession
    BY <1>1, <2>6 DEF CacheExpires, CloseSession
  <2>7. ASSUME NEW p \in Procs, p # q, Arrive(p) \/ TimeOut(p) \/ Advances(p)
        PROVE  op'[q] = op[q]
    BY <1>2, <2>2, <2>7 DEF Arrive, TimeOut
  <2>8. ~Arrive(q)
    BY <1>5 DEF Arrive, At
  <2> QED
    BY <1>1, <2>3, <2>4, <2>5, <2>6, <2>7, <2>8 DEF Next, Advances
<1> QED
  BY <1>1, <1>4, <1>5 DEF ServedSoon

(* A request makes at most 6 * MaxRetries + 9 steps between its arrival and  *)
(* its end, two calls with their retries among them: no breaker that opens, *)
(* no service that does not answer, no switch of the mode and no other       *)
(* request makes it start over.                                             *)
THEOREM RequestsAreServedSoon == Spec => [][ServedSoon]_vars
BY ServedStep, Inductive, PTL DEF Spec
=============================================================================

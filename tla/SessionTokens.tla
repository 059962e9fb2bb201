--------------------------- MODULE SessionTokens ---------------------------
(***************************************************************************)
(* Sessions and refresh tokens of auth-service: the tables Session and     *)
(* RefreshToken in PostgreSQL, the keys session:<id> in Redis, and the use *)
(* cases that open, rotate and close sessions, each split at the points    *)
(* where it awaits the database or Redis.  Requests are served by Procs;   *)
(* any of them may run any use case, so all interleavings are covered.     *)
(*                                                                         *)
(* PostgreSQL runs at READ COMMITTED (Prisma's default): a statement sees  *)
(* committed rows only, and an update waits for the transaction that has   *)
(* already updated the row.  Only a login runs in a transaction.           *)
(***************************************************************************)
EXTENDS Naturals, FiniteSets

CONSTANTS
    Users,              \* user accounts
    Devices,            \* devices a user logs in from
    MaxSessions,        \* bound: rows of Session ever inserted
    MaxTokens,          \* bound: refresh tokens ever issued
    Procs,              \* requests being served at the same time
    MaxActive,          \* sessions a user may have (3 in the code)
    MaxFailures,        \* bound: requests that die and calls rejected
    NoUser, NoDevice

ASSUME NullsAreNotIds == NoUser \notin Users /\ NoDevice \notin Devices

ASSUME BoundsAreNat ==
    /\ MaxSessions \in Nat /\ MaxTokens \in Nat
    /\ MaxActive \in Nat \ {0} /\ MaxFailures \in Nat

\* The ids are uuids, never reused; here they are numbered in the order the
\* rows are inserted, so that s < x says that s has the earlier startedAt.
Sessions  == 1..MaxSessions
Tokens    == 1..MaxTokens
NoSession == 0
NoToken   == 0

VARIABLES
    row,                \* row[s]: what the table Session holds for id s
    owner,              \* owner[s]: its column userId
    cache,              \* ids that have a key session:<id> in Redis
    token,              \* token[t]: what the table RefreshToken holds for t
    op,                 \* op[p]: the request p is serving and its locals
    failures,           \* requests that died and calls rejected so far
    \* History, read by properties only.
    closed,             \* ids whose closing some request finished
    evicted,            \* ids a later login revoked to make room
    abandoned           \* ids some request was to remove from Redis and gave up

db      == <<row, owner, token>>
history == <<closed, evicted, abandoned>>
vars    == <<row, owner, token, cache, op, failures,
             closed, evicted, abandoned>>

-----------------------------------------------------------------------------
(* Types.                                                                  *)

\* "pending" is inserted but not committed, "aborted" was rolled back.
RowState   == {"unused", "pending", "active", "revoked", "deleted", "aborted"}
Committed  == {"active", "revoked", "deleted"}

\* "deleted" also stands for a row past expiresAt that the job has not reached
\* yet: its token is refused before the row is read.
TokenState == {"unused", "live", "revoked", "deleted"}

\* parent is history: the token this one was exchanged for.
TokenRow == [state   : TokenState,
             session : Sessions \cup {NoSession},
             family  : Tokens \cup {NoToken},
             parent  : Tokens \cup {NoToken}]

LoginPC   == {"pick", "store", "commit"}
RefreshPC == {"check", "revoke", "create"}
Parts     == {"row", "tokens", "cache", "list", "mark"}

\* todo: calls of a Promise.all that have not returned yet; failed: one of
\* them was rejected, so nothing comes after the others; ids: sessions a
\* "close everything" still has to remove from Redis; late is history: the
\* refresh began on a session whose closing was already finished.
Op == [pc     : {"idle", "close", "sweep"} \cup LoginPC \cup RefreshPC,
       user   : Users \cup {NoUser},
       device : Devices \cup {NoDevice},
       sess   : Sessions \cup {NoSession},
       victim : Sessions \cup {NoSession},
       tok    : Tokens \cup {NoToken},
       todo   : SUBSET Parts,
       ids    : SUBSET Sessions,
       failed : BOOLEAN,
       late   : BOOLEAN]

Idle == [pc     |-> "idle",    user   |-> NoUser,  device |-> NoDevice,
         sess   |-> NoSession, victim |-> NoSession, tok  |-> NoToken,
         todo   |-> {},        ids    |-> {},
         failed |-> FALSE,     late   |-> FALSE]

FreshToken == [state  |-> "unused", session |-> NoSession,
               family |-> NoToken,  parent  |-> NoToken]

TypeOK ==
    /\ row     \in [Sessions -> RowState]
    /\ owner   \in [Sessions -> Users \cup {NoUser}]
    /\ cache   \subseteq Sessions
    /\ token   \in [Tokens -> TokenRow]
    /\ op      \in [Procs -> Op]
    /\ failures  \in Nat
    /\ closed    \subseteq Sessions
    /\ evicted   \subseteq Sessions
    /\ abandoned \subseteq Sessions

Init ==
    /\ row     = [s \in Sessions |-> "unused"]
    /\ owner   = [s \in Sessions |-> NoUser]
    /\ cache   = {}
    /\ token   = [t \in Tokens |-> FreshToken]
    /\ op      = [p \in Procs |-> Idle]
    /\ failures  = 0
    /\ closed    = {}
    /\ evicted   = {}
    /\ abandoned = {}

-----------------------------------------------------------------------------
(* Queries.                                                                *)

Active(u) == {s \in Sessions : row[s] = "active" /\ owner[s] = u}

\* The request goes on at "pc"; Goto never changes another request.
Goto(p, new) == op' = [op EXCEPT ![p] = new]

\* Fault: the sessions are counted before the device row is saved.
LockedDeviceNever(u, d) == FALSE

\* A login between its insert and its commit holds the lock of the row it
\* evicts, and from its first statement on the lock of its device's row.
LockedRow(s)       == \E p \in Procs : /\ op[p].pc = "commit"
                                       /\ op[p].victim = s /\ s # NoSession
LockedDevice(u, d) == \E p \in Procs : /\ op[p].pc \in LoginPC
                                       /\ op[p].user = u /\ op[p].device = d

\* The gateway lets a request of session s through: the client got its token
\* when the login committed, and the guard finds the key in Redis.
Authenticated(s) == s \in cache /\ row[s] \in Committed

\* The token rows t in S with revokedAt = null get one.
Revoke(S) ==
    token' = [t \in Tokens |->
                IF t \in S /\ token[t].state = "live"
                THEN [token[t] EXCEPT !.state = "revoked"] ELSE token[t]]

TokensOf(s)   == {t \in Tokens : token[t].session = s}
FamilyOf(t)   == {x \in Tokens : token[x].family = token[t].family}
TokensOfUser(u) ==
    {t \in Tokens : \E s \in Sessions : token[t].session = s /\ owner[s] = u}

Used   == {s \in Sessions : row[s] # "unused"}
Issued == {t \in Tokens : token[t].state # "unused"}

\* x is the id a new row gets.
IsNext(x, taken) == x \notin taken /\ 1..(x - 1) \subseteq taken

\* Bounds: a request that will need an id starts only when one is left.
SessionsToSpare ==
    Cardinality(Used) + Cardinality({p \in Procs : op[p].pc \in {"pick", "store"}})
        < MaxSessions
TokensToSpare ==
    Cardinality(Issued)
      + Cardinality({p \in Procs : op[p].pc \in LoginPC \cup RefreshPC})
        < MaxTokens

-----------------------------------------------------------------------------
(* Login: completeLoginSession, one transaction.                           *)

Full(u) == Cardinality(Active(u)) >= MaxActive

(* The device row is saved, and locked, before the active sessions are     *)
(* counted; with MaxActive of them the oldest has to go.                   *)
LoginCount(p, u, d) ==
    /\ op[p].pc = "idle"
    /\ SessionsToSpare /\ TokensToSpare
    /\ ~LockedDevice(u, d)
    /\ Goto(p, [Idle EXCEPT !.user = u, !.device = d,
                            !.pc = IF Full(u) THEN "pick" ELSE "store"])
    /\ UNCHANGED <<db, cache, failures, history>>

(* revokeOldestActiveSession, first statement: find the oldest. *)
LoginPick(p) ==
    /\ op[p].pc = "pick"
    /\ LET u == op[p].user IN
       \/ /\ Active(u) = {}
          /\ Goto(p, [op[p] EXCEPT !.pc = "store"])
       \/ \E v \in Active(u) :
             /\ \A s \in Active(u) : v <= s
             /\ Goto(p, [op[p] EXCEPT !.pc = "store", !.victim = v])
    /\ UNCHANGED <<db, cache, failures, history>>

(* Second statement: update the oldest, whatever became of it meanwhile    *)
(* (the update finds no row, and the login fails, if it was deleted); then *)
(* insert the new session and put it in Redis, before the commit.          *)
LoginStore(p) ==
    LET v == op[p].victim IN
    /\ op[p].pc = "store"
    /\ ~LockedRow(v)
    /\ IF v # NoSession /\ row[v] = "deleted"
       THEN Goto(p, Idle) /\ UNCHANGED <<db, cache>>
       ELSE \E s \in Sessions :
              /\ IsNext(s, Used)
              /\ row'     = [row EXCEPT ![s] = "pending"]
              /\ owner'   = [owner EXCEPT ![s] = op[p].user]
              /\ cache'   = cache \cup {s}
              /\ Goto(p, [op[p] EXCEPT !.pc = "commit", !.sess = s])
              /\ UNCHANGED token
    /\ UNCHANGED <<failures, history>>

\* Fault: the oldest session is taken to exist.
EvictedByAlways(o) == {o.victim}

EvictedBy(o) == {o.victim} \ {NoSession}

\* Fault: all logins of the system share one family.
FirstTokenSharedFamily(t, s) ==
    [state |-> "live", session |-> s, family |-> 1, parent |-> NoToken]

FirstToken(t, s) ==
    [state |-> "live", session |-> s, family |-> t, parent |-> NoToken]

(* The first refresh token of a new family is inserted and the transaction *)
(* commits: the new row appears and the evicted one is revoked.            *)
LoginCommit(p) ==
    LET s == op[p].sess IN
    /\ op[p].pc = "commit"
    /\ row' = [x \in Sessions |-> IF x = s THEN "active"
                                  ELSE IF x \in EvictedBy(op[p]) THEN "revoked"
                                  ELSE row[x]]
    /\ \E t \in Tokens :
          /\ IsNext(t, Issued)
          /\ token' = [token EXCEPT ![t] = FirstToken(t, s)]
    /\ evicted' = evicted \cup EvictedBy(op[p])
    /\ Goto(p, Idle)
    /\ UNCHANGED <<owner, cache, failures, closed, abandoned>>

-----------------------------------------------------------------------------
(* Refresh: RefreshTokenUseCase, no transaction.                           *)

(* findByJti.  A live token goes on; a revoked one closes the session and  *)
(* its whole family; an expired or unknown one is refused.                 *)
RefreshFind(p, t) ==
    LET s == token[t].session IN
    /\ op[p].pc = "idle"
    /\ \/ /\ token[t].state = "live"
          /\ TokensToSpare
          /\ Goto(p, [Idle EXCEPT !.pc = "check", !.tok = t, !.sess = s,
                                  !.late = s \in closed])
       \/ /\ token[t].state = "revoked"
          /\ Goto(p, [Idle EXCEPT !.pc = "close", !.tok = t, !.sess = s,
                                  !.todo = {"tokens", "cache"}])
    /\ UNCHANGED <<db, cache, failures, history>>

\* Fault: a valid signature and a live row are taken to be enough.
HasSessionAlways(s) == TRUE

HasSession(s) == s \in cache

(* getSession: without a key in Redis the refresh is refused. *)
RefreshCheck(p) ==
    /\ op[p].pc = "check"
    /\ Goto(p, IF HasSession(op[p].sess)
               THEN [op[p] EXCEPT !.pc = "revoke"] ELSE Idle)
    /\ UNCHANGED <<db, cache, failures, history>>

\* Fault: the presented token is kept beside its successor.
PresentedKept(o) == {}

Presented(o) == {o.tok}

\* Fault: a refresh also renews the session's key in Redis.
RefreshRevokeRenews(p) ==
    /\ op[p].pc = "revoke"
    /\ Revoke(Presented(op[p]))
    /\ cache' = cache \cup {op[p].sess}
    /\ Goto(p, IF token[op[p].tok].state = "deleted" THEN Idle
               ELSE [op[p] EXCEPT !.pc = "create"])
    /\ UNCHANGED <<row, owner, failures, history>>

(* revoke: retires the presented token without looking at revokedAt again; *)
(* the update fails when the row is gone.                                  *)
RefreshRevoke(p) ==
    /\ op[p].pc = "revoke"
    /\ Revoke(Presented(op[p]))
    /\ Goto(p, IF token[op[p].tok].state = "deleted" THEN Idle
               ELSE [op[p] EXCEPT !.pc = "create"])
    /\ UNCHANGED <<row, owner, cache, failures, history>>

(* create: the successor in the same family; the foreign key refuses it    *)
(* when the session row is gone.                                           *)
RefreshCreate(p) ==
    LET t == op[p].tok IN
    /\ op[p].pc = "create"
    /\ IF row[op[p].sess] = "deleted" THEN UNCHANGED token
       ELSE \E n \in Tokens :
              /\ IsNext(n, Issued)
              /\ token' = [token EXCEPT ![n] =
                             [state  |-> "live", session |-> op[p].sess,
                              family |-> token[t].family, parent |-> t]]
    /\ Goto(p, Idle)
    /\ UNCHANGED <<row, owner, cache, failures, history>>

-----------------------------------------------------------------------------
(* Closing one session: LogoutUseCase, RevokeSessionUseCase and the answer *)
(* to a reused token.  The calls of the Promise.all end in any order.      *)

Close(s) == [Idle EXCEPT !.pc = "close", !.sess = s,
                         !.todo = {"row", "tokens", "cache"}]

LogoutBegin(p, s) ==
    /\ op[p].pc = "idle"
    /\ Authenticated(s)
    /\ Goto(p, Close(s))
    /\ UNCHANGED <<db, cache, failures, history>>

(* Another session of the same user, which must still be active. *)
RevokeSessionBegin(p, caller, s) ==
    /\ op[p].pc = "idle"
    /\ Authenticated(caller)
    /\ s \in Active(owner[caller])
    /\ Goto(p, Close(s))
    /\ UNCHANGED <<db, cache, failures, history>>

(* One more call of the Promise.all has returned; with the last one the    *)
(* request answers, and the session counts as closed if none was rejected. *)
Returned(p, part) ==
    /\ op[p].pc = "close" /\ part \in op[p].todo
    /\ IF op[p].todo = {part}
       THEN /\ Goto(p, Idle)
            /\ closed' = IF op[p].failed THEN closed ELSE closed \cup {op[p].sess}
       ELSE /\ Goto(p, [op[p] EXCEPT !.todo = @ \ {part}])
            /\ UNCHANGED closed
    /\ UNCHANGED <<owner, failures, evicted, abandoned>>

(* revokeById: waits for a login that is evicting the row. *)
CloseRow(p) ==
    LET s == op[p].sess IN
    /\ Returned(p, "row")
    /\ row[s] = "active" => ~LockedRow(s)
    /\ row' = IF row[s] = "active" THEN [row EXCEPT ![s] = "revoked"] ELSE row
    /\ UNCHANGED <<cache, token>>

(* revokeBySession, or revokeByFamily when a reused token is answered. *)
CloseTokens(p) ==
    /\ Returned(p, "tokens")
    /\ Revoke(IF op[p].tok = NoToken THEN TokensOf(op[p].sess)
                                     ELSE FamilyOf(op[p].tok))
    /\ UNCHANGED <<row, cache>>

\* Fault: nothing to remove when the row was revoked already.
CloseCacheIfActive(p) ==
    /\ Returned(p, "cache")
    /\ cache' = IF row[op[p].sess] = "active" THEN cache \ {op[p].sess}
                                              ELSE cache
    /\ UNCHANGED <<row, token>>

(* revokeSession: DEL session:<id>. *)
CloseCache(p) ==
    /\ Returned(p, "cache")
    /\ cache' = cache \ {op[p].sess}
    /\ UNCHANGED <<row, token>>

-----------------------------------------------------------------------------
(* Closing every session of a user: LogoutAllUseCase, and the last steps   *)
(* of changing and of resetting the password.                              *)

(* A reset needs no session, so nothing is required of the user. *)
SweepBegin(p, u) ==
    /\ op[p].pc = "idle"
    /\ Goto(p, [Idle EXCEPT !.pc = "sweep", !.user = u,
                            !.todo = {"list", "tokens"}])
    /\ UNCHANGED <<db, cache, failures, history>>

(* The sweep is over with its last call, and when the first Promise.all of *)
(* the two was rejected, with the last call of that one.                   *)
SweepGoto(p, new) ==
    Goto(p, IF new.todo = {} /\ (new.failed \/ new.ids = {}) THEN Idle ELSE new)

(* revokeAllUserSessions, first statement: the ids of the active rows. *)
SweepList(p) ==
    LET ids == Active(op[p].user) IN
    /\ op[p].pc = "sweep" /\ "list" \in op[p].todo
    /\ SweepGoto(p, [op[p] EXCEPT !.ids  = ids,
                       !.todo = (@ \ {"list"})
                                \cup (IF ids = {} THEN {} ELSE {"mark"})])
    /\ abandoned' = IF op[p].failed THEN abandoned \cup ids ELSE abandoned
    /\ UNCHANGED <<db, cache, failures, closed, evicted>>

\* Fault: the second statement selects by user instead of by the listed ids.
ListedByUser(o) == Active(o.user)

Listed(o) == o.ids

(* Second statement: revoke exactly those rows. *)
SweepMark(p) ==
    /\ op[p].pc = "sweep" /\ "mark" \in op[p].todo
    /\ \A s \in Listed(op[p]) : ~LockedRow(s)
    /\ row' = [s \in Sessions |->
                 IF s \in Listed(op[p]) /\ row[s] = "active"
                 THEN "revoked" ELSE row[s]]
    /\ SweepGoto(p, [op[p] EXCEPT !.todo = @ \ {"mark"}])
    /\ UNCHANGED <<owner, token, cache, failures, history>>

(* revokeAllByUser, in parallel with the two statements above. *)
SweepTokens(p) ==
    /\ op[p].pc = "sweep" /\ "tokens" \in op[p].todo
    /\ Revoke(TokensOfUser(op[p].user))
    /\ SweepGoto(p, [op[p] EXCEPT !.todo = @ \ {"tokens"}])
    /\ UNCHANGED <<row, owner, cache, failures, history>>

\* Fault: an id is ticked off only when its key was there.
SweepPurgePresent(p, s) ==
    /\ op[p].pc = "sweep" /\ op[p].todo = {} /\ s \in op[p].ids \cap cache
    /\ cache'  = cache \ {s}
    /\ closed' = closed \cup {s}
    /\ SweepGoto(p, [op[p] EXCEPT !.ids = @ \ {s}])
    /\ UNCHANGED <<db, failures, evicted, abandoned>>

(* Then one DEL for each listed id, in any order. *)
SweepPurge(p, s) ==
    /\ op[p].pc = "sweep" /\ op[p].todo = {} /\ s \in op[p].ids
    /\ cache'  = cache \ {s}
    /\ closed' = closed \cup {s}
    /\ SweepGoto(p, [op[p] EXCEPT !.ids = @ \ {s}])
    /\ UNCHANGED <<db, failures, evicted, abandoned>>

-----------------------------------------------------------------------------
(* Time, the cleanup jobs, requests that die and calls that are rejected.  *)

(* The key of a session reaches its time to live. *)
CacheExpire(s) ==
    /\ s \in cache /\ row[s] # "pending"
    /\ cache' = cache \ {s}
    /\ UNCHANGED <<db, op, failures, history>>

(* A token reaches expiresAt and TokenCleanupService, every hour, deletes   *)
(* its row; a request that has already read the row goes on.                *)
CleanExpiredRefreshTokens(t) ==
    /\ token[t].state \in {"live", "revoked"}
    /\ token' = [token EXCEPT ![t].state = "deleted"]
    /\ UNCHANGED <<row, owner, cache, op, failures, history>>

(* TokenCleanupService, every midnight: all revoked rows, however recent   *)
(* (endedAt is never set by the code), and by cascade their tokens.        *)
CleanOldSessions ==
    LET old == {s \in Sessions : row[s] = "revoked"} IN
    /\ old # {} /\ \A s \in old : ~LockedRow(s)
    /\ row'   = [s \in Sessions |-> IF s \in old THEN "deleted" ELSE row[s]]
    /\ token' = [t \in Tokens |-> IF token[t].session \in old
                                  THEN [token[t] EXCEPT !.state = "deleted"]
                                  ELSE token[t]]
    /\ UNCHANGED <<owner, cache, op, failures, history>>

\* The sessions a request has undertaken to remove from Redis.
Closing(o) ==
    CASE o.pc = "close" /\ "cache" \in o.todo -> {o.sess}
      [] o.pc = "sweep" /\ ~o.failed          -> o.ids
      [] OTHER                                -> {}

(* The process dies, or a call awaited alone is rejected: what was done     *)
(* stays done, except that the transaction of a login is rolled back (Redis *)
(* is not part of it and keeps the key of a session that never came to be). *)
Fail(p) ==
    /\ op[p].pc # "idle"
    /\ failures < MaxFailures
    /\ failures' = failures + 1
    /\ row' = IF op[p].pc = "commit"
              THEN [row EXCEPT ![op[p].sess] = "aborted"] ELSE row
    /\ abandoned' = abandoned \cup Closing(op[p])
    /\ Goto(p, Idle)
    /\ UNCHANGED <<owner, token, cache, closed, evicted>>

\* A rejected call never took effect, or it does and only its answer is lost;
\* a query has no effect without its answer.
Lost(part) == IF part = "list" THEN {{part}} ELSE {{part}, {}}

(* One call of a Promise.all is rejected.  The client gets the error, and   *)
(* what was to follow is not begun: the ids of a sweep stay in Redis.  The  *)
(* calls beside it were sent with it, and go on.                            *)
Reject(p, part) ==
    /\ op[p].pc \in {"close", "sweep"} /\ part \in op[p].todo
    /\ failures < MaxFailures
    /\ failures' = failures + 1
    /\ \E lost \in Lost(part) :
          /\ Goto(p, IF op[p].todo \subseteq lost THEN Idle
                     ELSE [op[p] EXCEPT !.todo = @ \ lost, !.failed = TRUE])
          /\ abandoned' = abandoned \cup op[p].ids
                            \cup (IF "cache" \in lost THEN Closing(op[p]) ELSE {})
    /\ UNCHANGED <<db, cache, closed, evicted>>

(* One DEL of a sweep's second Promise.all is rejected; the others go on. *)
RejectPurge(p, s) ==
    /\ op[p].pc = "sweep" /\ op[p].todo = {} /\ s \in op[p].ids
    /\ failures < MaxFailures
    /\ failures' = failures + 1
    /\ abandoned' = abandoned \cup {s}
    /\ SweepGoto(p, [op[p] EXCEPT !.ids = @ \ {s}])
    /\ UNCHANGED <<db, cache, closed, evicted>>

-----------------------------------------------------------------------------

Login(p)   == LoginPick(p) \/ LoginStore(p) \/ LoginCommit(p)
Refresh(p) == RefreshCheck(p) \/ RefreshRevoke(p) \/ RefreshCreate(p)
CloseOne(p) == CloseRow(p) \/ CloseTokens(p) \/ CloseCache(p)
CloseAll(p) == \/ SweepList(p) \/ SweepMark(p) \/ SweepTokens(p)
               \/ \E s \in Sessions : SweepPurge(p, s)

\* The next step of a request that has begun.
Step(p) == Login(p) \/ Refresh(p) \/ CloseOne(p) \/ CloseAll(p)

Rejection(p) == \/ \E part \in Parts : Reject(p, part)
                \/ \E s \in Sessions : RejectPurge(p, s)

Begin(p) ==
    \/ \E u \in Users, d \in Devices : LoginCount(p, u, d)
    \/ \E t \in Tokens : RefreshFind(p, t)
    \/ \E s \in Sessions : LogoutBegin(p, s)
    \/ \E c, s \in Sessions : RevokeSessionBegin(p, c, s)
    \/ \E u \in Users : SweepBegin(p, u)

Environment ==
    \/ \E s \in Sessions : CacheExpire(s)
    \/ \E t \in Tokens : CleanExpiredRefreshTokens(t)
    \/ CleanOldSessions
    \/ \E p \in Procs : Fail(p) \/ Rejection(p)

Next == (\E p \in Procs : Begin(p) \/ Step(p)) \/ Environment

Spec == Init /\ [][Next]_vars

\* Node runs the continuation of an await that has settled: a request that
\* has begun takes its next step.  Nothing obliges a client to begin one, a key
\* to expire, a job to run, a request to die or a call to be rejected.
Fairness == \A p \in Procs : WF_vars(Step(p))

FairSpec == Spec /\ Fairness

-----------------------------------------------------------------------------
(* Properties.                                                             *)

InCloseOf(s) == \E p \in Procs : s \in Closing(op[p])

(* A session whose closing was reported as done - logout, revocation, theft *)
(* answer, or one of the ids a "close everything" removed - is never again  *)
(* accepted by the gateway, whatever logins, refreshes, failures and jobs   *)
(* ran at the same time.                                                    *)
ClosedSessionsAreDead == closed \cap cache = {}

(* A refresh that begins after its session was closed never reaches the     *)
(* point where it retires the token and issues a new pair, even if the      *)
(* token it presents is still live in the table (an in-flight refresh may   *)
(* have inserted it after the closing revoked the others).                  *)
NoRotationAfterClose ==
    \A p \in Procs : op[p].late => op[p].pc \notin {"revoke", "create"}

(* A session that the database says is over and that Redis still accepts is *)
(* one of three things: evicted by a later login, being removed by a request *)
(* right now, or one whose removal a request gave up, because it died or one *)
(* of its parallel calls was rejected.  Nothing else breaks the agreement    *)
(* between the two stores.                                                   *)
RevokedIsDeadOrExcused ==
    \A s \in cache : row[s] \in {"revoked", "deleted"} =>
        s \in evicted \cup abandoned \/ InCloseOf(s)

(* All tokens of a family belong to the session of its first token, so      *)
(* revoking a family never touches another session.                         *)
FamilyOneSession ==
    \A t \in Tokens : token[t].state # "unused" =>
        /\ token[token[t].family].state # "unused"
        /\ token[token[t].family].session = token[t].session

(* A token that was exchanged is never live beside its successor, not even  *)
(* when the request that exchanges it dies half way.                        *)
ExchangedTokenIsRetired ==
    \A t \in Tokens : token[t].parent # NoToken =>
        token[token[t].parent].state # "live"

(* No user has more active sessions than the limit, however many logins     *)
(* from his device overlap.  It is the lock on the row of the device that    *)
(* puts them in a row: nothing does so for logins from two devices.         *)
SessionCap ==
    Cardinality(Devices) = 1 =>
        \A u \in Users : Cardinality(Active(u)) <= MaxActive

(* "Immediate revocation": unless somebody is removing it right now, Redis  *)
(* does not accept a session the database says is over.                     *)
RevokedIsDead ==
    \A s \in cache : row[s] \in {"revoked", "deleted"} => InCloseOf(s)

(* The session store implements the promise of SessionAuthority: an id that *)
(* leaves Redis never comes back, and a closed one is out.                  *)
Authority == INSTANCE SessionAuthority
                WITH opened <- Used,
                     valid  <- cache
AuthoritySpec == Authority!AbsSpec

(* Every request that began ends, although logins hold row locks that other *)
(* logins, logouts and sweeps wait for.                                     *)
RequestsEnd == \A p \in Procs : op[p].pc # "idle" ~> op[p].pc = "idle"

(* A session somebody undertook to close leaves Redis, unless the request    *)
(* died or one of its parallel calls was rejected.                           *)
ClosingTakesEffect ==
    \A s \in Sessions : InCloseOf(s) ~> s \notin cache \/ s \in abandoned

=============================================================================

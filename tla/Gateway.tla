------------------------------ MODULE Gateway ------------------------------
(***************************************************************************)
(* api-gateway: the way of a request through its middlewares, its four     *)
(* guards and its HTTP client, together with the maintenance switch of     *)
(* config-service that the first guard asks for.                           *)
(*                                                                         *)
(* A service behind the gateway is what the client sees of it: a call is   *)
(* executed or refused, and its answer arrives or does not.  The circuit   *)
(* breaker (opossum) may let a call through, reject it or give it up.      *)
(***************************************************************************)
EXTENDS ApiRoutes, Naturals

CONSTANTS
    Procs,              \* requests being served at the same time
    MaxRetries          \* retries of ResilientHttpClient.request

ASSUME RetriesAreNat == MaxRetries \in Nat

VARIABLES
    enabled,            \* MaintenanceConfig.enabled
    cache,              \* gateway:maintenance:status in Redis
    session,            \* session:<sid> is in Redis
    op,                 \* op[p]: the request p is serving
    \* History, read by properties only.
    outdated            \* the cached status is older than the last switch

vars == <<enabled, cache, session, op, outdated>>

-----------------------------------------------------------------------------
(* Requests.                                                               *)

\* A route, as far as the handling of a request depends on it.
Class == [read   : BOOLEAN,             \* idempotent, so the client retries
          access : {"public", "session", "admin"},
          bypass : BOOLEAN,
          served : BOOLEAN]

ClassOf(r) == [read   |-> r.call.method = "GET", access |-> r.access,
               bypass |-> IsBypass(r), served |-> IsServed(r)]

NoClass == [read |-> FALSE, access |-> "public", bypass |-> FALSE,
            served |-> FALSE]

\* Who sends it: nobody (no valid access token), a user, one with the role
\* SUPER_ADMIN but not the permission, one with both.
Callers == {"nobody", "user", "role_only", "admin"}

Answers == {"none", "ok", "refused", "error", "timeout"}

\* What the guard lets a request pass by: the status, or what stood in for it.
\* "outdated": a status older than the last switch.  "method": the look-up had
\* the method of the request, and config-service answered that there is no such
\* path.  "unreachable": there was no answer.  "unstored": there was one, and
\* Redis did not take it.
Grounds == {"none", "status", "outdated", "method", "unreachable", "unstored"}

Op == [pc      : {"idle", "guard", "fetch", "asked", "told", "session",
                  "forward", "waiting", "executed", "done"},
       route   : Class,
       caller  : Callers,
       try     : 0..MaxRetries,
       told    : BOOLEAN,               \* the status config-service has sent
       answer  : Answers,
       ran     : 0..(MaxRetries + 1),   \* times the service has executed it
       late    : 0..(MaxRetries + 1),   \* attempts given up but under way
       \* History.
       signed_off : BOOLEAN,            \* its session was closed before it came
       during  : BOOLEAN,               \* maintenance was on ever since it came
       old     : BOOLEAN,               \* told is older than the last switch
       passed  : Grounds]               \* how it got past the guard, if during

TypeOK ==
    /\ enabled \in BOOLEAN /\ session \in BOOLEAN /\ outdated \in BOOLEAN
    /\ cache \in {"none", "on", "off"}
    /\ op \in [Procs -> Op]

Idle == [pc |-> "idle", route |-> NoClass, caller |-> "nobody", try |-> 0,
         told |-> FALSE, answer |-> "none", ran |-> 0, late |-> 0,
         signed_off |-> FALSE, during |-> FALSE, old |-> FALSE,
         passed |-> "none"]

Init ==
    /\ enabled \in BOOLEAN
    /\ cache = "none" /\ outdated = FALSE
    /\ session = TRUE
    /\ op = [p \in Procs |-> Idle]

At(p, pc)    == op[p].pc = pc
Goto(p, new) == op' = [op EXCEPT ![p] = new]

\* The client gets the first answer only.
Answer(o, a) == [Idle EXCEPT !.pc = "done", !.route.read = o.route.read,
                             !.ran = o.ran, !.late = o.late,
                             !.signed_off = o.signed_off,
                             !.answer = IF o.answer = "none" THEN a
                                        ELSE o.answer]

-----------------------------------------------------------------------------
(* Middlewares.                                                            *)

\* A caller is told apart only where a guard does so.
CallersOf(access) ==
    CASE access = "public"  -> {"nobody"}
      [] access = "session" -> {"nobody", "user"}
      [] access = "admin"   -> Callers

Arrived(c, caller) ==
    [Idle EXCEPT !.pc = "guard", !.route = c, !.caller = caller,
                 !.signed_off = ~session /\ caller # "nobody",
                 !.during = enabled /\ ~c.bypass]

Classes == {ClassOf(r) : r \in Routes}
Allowed == {ClassOf(r) : r \in {x \in Routes : x.call.method \in ALLOWED_METHODS}}

\* methodGuard; then the content type may be wrong or a rate limit reached.
Arrive(p) ==
    /\ At(p, "idle")
    /\ \E c \in Classes : \E caller \in CallersOf(c.access) :
        \/ c \in Allowed /\ Goto(p, Arrived(c, caller))
        \/ Goto(p, Answer(Arrived(c, caller), "refused"))
    /\ UNCHANGED <<enabled, cache, session, outdated>>

\* timeoutMiddleware answers; the request goes on behind its back.
TimeOut(p) ==
    /\ op[p].pc \notin {"idle", "done"} /\ op[p].answer = "none"
    /\ Goto(p, [op[p] EXCEPT !.answer = "timeout"])
    /\ UNCHANGED <<enabled, cache, session, outdated>>

-----------------------------------------------------------------------------
(* ResilientHttpClient: what becomes of a request when an attempt at a     *)
(* call has failed.  failed is the request once no attempt is left.        *)

\* Fault: one retry too many.
RetriesOnceMore(o) == o.route.read /\ o.try <= MaxRetries

\* Fault: any method is repeated.
RetriesAll(o) == o.try < MaxRetries

\* shouldRetry.  The error of an open breaker is no AxiosError, and is taken
\* for one without an answer.
MayRetry(o) == o.route.read /\ o.try < MaxRetries

Again(o, pc, failed) ==
    IF MayRetry(o) THEN [o EXCEPT !.pc = pc, !.try = @ + 1] ELSE failed

-----------------------------------------------------------------------------
(* MaintenanceGuard.                                                       *)

\* The guard has let the request pass.
Pass(o, ground) == [o EXCEPT !.pc = "session", !.try = 0, !.told = FALSE,
                             !.old = FALSE,
                             !.passed = IF o.during THEN ground ELSE "none"]

GuardBypass(p) ==
    /\ At(p, "guard") /\ op[p].route.bypass
    /\ Goto(p, Pass(op[p], "status"))
    /\ UNCHANGED <<enabled, cache, session, outdated>>

GuardCached(p) ==
    /\ At(p, "guard") /\ ~op[p].route.bypass /\ cache # "none"
    /\ Goto(p, IF cache = "on" THEN Answer(op[p], "refused")
               ELSE Pass(op[p], IF outdated THEN "outdated" ELSE "status"))
    /\ UNCHANGED <<enabled, cache, session, outdated>>

\* The entry is missing, or Redis does not answer.
GuardMiss(p) ==
    /\ At(p, "guard") /\ ~op[p].route.bypass
    /\ Goto(p, [op[p] EXCEPT !.pc = "fetch"])
    /\ UNCHANGED <<enabled, cache, session, outdated>>

\* fetchAndCache fails open, whatever went wrong.
FailOpen(o, ground) == Pass(o, ground)

\* The breaker may be open.
FetchSend(p) ==
    /\ At(p, "fetch")
    /\ \/ Goto(p, [op[p] EXCEPT !.pc = "asked"])
       \/ Goto(p, Again(op[p], "fetch", FailOpen(op[p], "unreachable")))
    /\ UNCHANGED <<enabled, cache, session, outdated>>

\* GetMaintenanceStatusUseCase.  The call has the method of the request, and
\* only GET maintenance/status is there: the others get a 404.
FetchAnswer(p) ==
    /\ At(p, "asked")
    /\ Goto(p, IF op[p].route.read
               THEN [op[p] EXCEPT !.pc = "told", !.told = enabled]
               ELSE FailOpen(op[p], "method"))
    /\ UNCHANGED <<enabled, cache, session, outdated>>

\* No answer, a 5xx, or the breaker's own timeout.
FetchFail(p) ==
    /\ op[p].pc \in {"asked", "told"}
    /\ Goto(p, Again([op[p] EXCEPT !.told = FALSE, !.old = FALSE],
                     "fetch", FailOpen(op[p], "unreachable")))
    /\ UNCHANGED <<enabled, cache, session, outdated>>

\* The status is stored for CACHE_TTL_SECONDS, then looked at.
FetchStore(p) ==
    /\ At(p, "told")
    /\ cache' = IF op[p].told THEN "on" ELSE "off"
    /\ outdated' = op[p].old
    /\ Goto(p, IF op[p].told THEN Answer(op[p], "refused")
               ELSE Pass(op[p], IF op[p].old THEN "outdated" ELSE "status"))
    /\ UNCHANGED <<enabled, session>>

\* Fault: what is assumed when nothing is known is stored, too.
FailAndStore(p) ==
    /\ At(p, "told")
    /\ cache' = "off"
    /\ outdated' = op[p].old
    /\ Goto(p, FailOpen(op[p], "unstored"))
    /\ UNCHANGED <<enabled, session>>

\* When it cannot be stored the guard fails open as well, whatever it was told.
FetchNotStored(p) ==
    /\ At(p, "told")
    /\ Goto(p, FailOpen(op[p], "unstored"))
    /\ UNCHANGED <<enabled, cache, session, outdated>>

CacheExpires ==
    /\ cache # "none" /\ cache' = "none"
    /\ outdated' = FALSE
    /\ UNCHANGED <<enabled, session, op>>

-----------------------------------------------------------------------------
(* SetMaintenanceModeUseCase, called with the internal key: the path of    *)
(* the gateway to it is one of those that the wildcard garbles.            *)

GATEWAY_CACHE_KEY == "gateway:maintenance:status"

\* RedisConfigCacheService puts its namespace in front of every key.
Deleted == "config-service:gateway:maintenance:status"

SetMode ==
    /\ enabled' = ~enabled
    /\ cache' = IF Deleted = GATEWAY_CACHE_KEY THEN "none" ELSE cache
    /\ outdated' = (cache' # "none")
    /\ op' = [p \in Procs |->
                [op[p] EXCEPT !.during = FALSE, !.passed = "none",
                              !.old = @ \/ op[p].pc = "told"]]
    /\ UNCHANGED session

-----------------------------------------------------------------------------
(* JwtSessionGuard, RolesGuard, PermissionGuard.                           *)

\* Fault: the token alone is looked at, as the services do.
TokenOnly(o) == o.caller # "nobody"

\* The token is good and its session is still in Redis.
Authenticated(o) == o.caller # "nobody" /\ session

RoleGranted(o)  == o.route.access # "admin" \/ o.caller \in {"role_only", "admin"}
Permitted(o)    == o.route.access # "admin" \/ o.caller = "admin"

Admitted(o) ==
    \/ o.route.access = "public"
    \/ Authenticated(o) /\ RoleGranted(o) /\ Permitted(o)

\* What the guards went by is not looked at again.
Checked(o) == [o EXCEPT !.pc = "forward", !.caller = "nobody",
                        !.route.access = "public", !.route.bypass = FALSE,
                        !.during = FALSE, !.passed = "none"]

\* Without Redis nobody is admitted to what is not public.
Guards(p) ==
    /\ At(p, "session")
    /\ \/ Admitted(op[p]) /\ Goto(p, Checked(op[p]))
       \/ /\ Admitted(op[p]) => op[p].route.access # "public"
          /\ Goto(p, Answer(op[p], "refused"))
    /\ UNCHANGED <<enabled, cache, session, outdated>>

\* auth-service closes the session: see SessionTokens.
CloseSession ==
    /\ session /\ session' = FALSE
    /\ UNCHANGED <<enabled, cache, op, outdated>>

-----------------------------------------------------------------------------
(* AuthProxy, CompanyProxy and ConfigProxy.                                *)

Send(p) ==
    /\ At(p, "forward")
    /\ \/ Goto(p, [op[p] EXCEPT !.pc = "waiting"])
       \/ Goto(p, Again(op[p], "forward", Answer(op[p], "error")))
    /\ UNCHANGED <<enabled, cache, session, outdated>>

\* The service executes the call.  It looks at the token again where it is
\* guarded, not at the session.
Execute(p) ==
    /\ At(p, "waiting") /\ op[p].route.served
    /\ Goto(p, [op[p] EXCEPT !.pc = "executed", !.ran = @ + 1])
    /\ UNCHANGED <<enabled, cache, session, outdated>>

\* A 4xx, because there is no such path or the service refuses the call.
Refuse(p) ==
    /\ At(p, "waiting")
    /\ Goto(p, Answer(op[p], "error"))
    /\ UNCHANGED <<enabled, cache, session, outdated>>

\* Fault: a call without an answer is taken for a success.
ReplyAnyway(p) ==
    /\ op[p].pc \in {"waiting", "executed"}
    /\ Goto(p, Answer(op[p], "ok"))
    /\ UNCHANGED <<enabled, cache, session, outdated>>

Reply(p) ==
    /\ At(p, "executed")
    /\ Goto(p, Answer(op[p], "ok"))
    /\ UNCHANGED <<enabled, cache, session, outdated>>

\* No answer or a 5xx; the call was executed, or was not and never will be.
Lose(p) ==
    /\ op[p].pc \in {"waiting", "executed"}
    /\ Goto(p, Again(op[p], "forward", Answer(op[p], "error")))
    /\ UNCHANGED <<enabled, cache, session, outdated>>

\* A timeout of axios or of the breaker gives up a call that is still under way.
GiveUp(p) ==
    /\ At(p, "waiting") /\ op[p].route.served
    /\ LET late == [op[p] EXCEPT !.late = @ + 1] IN
        Goto(p, Again(late, "forward", Answer(late, "error")))
    /\ UNCHANGED <<enabled, cache, session, outdated>>

ExecuteLate(p) ==
    /\ op[p].late > 0
    /\ Goto(p, [op[p] EXCEPT !.late = @ - 1, !.ran = @ + 1])
    /\ UNCHANGED <<enabled, cache, session, outdated>>

End(p) ==
    /\ At(p, "done")
    /\ Goto(p, Idle)
    /\ UNCHANGED <<enabled, cache, session, outdated>>

Guard(p) == GuardBypass(p) \/ GuardCached(p) \/ GuardMiss(p) \/ FetchSend(p)
            \/ FetchAnswer(p) \/ FetchFail(p) \/ FetchStore(p)
            \/ FetchNotStored(p)
Proxy(p) == Send(p) \/ Execute(p) \/ Refuse(p) \/ Reply(p) \/ Lose(p)
            \/ GiveUp(p) \/ ExecuteLate(p)

Next ==
    \/ \E p \in Procs : Arrive(p) \/ TimeOut(p) \/ Guard(p) \/ Guards(p)
                        \/ Proxy(p) \/ End(p)
    \/ CacheExpires \/ SetMode \/ CloseSession

Spec == Init /\ [][Next]_vars

-----------------------------------------------------------------------------
(* Properties.                                                             *)

\* What the client of the gateway asks for is done once at most, unless it is
\* a read, whatever is retried, given up or late.
WritesOnce ==
    \A p \in Procs :
        op[p].ran + op[p].late <= IF op[p].route.read THEN MaxRetries + 1 ELSE 1

\* A success has been executed; a refusal of the gateway never is.
AnswerIsTrue ==
    \A p \in Procs :
        /\ op[p].answer = "ok" => op[p].ran > 0
        /\ op[p].answer = "refused" => op[p].ran + op[p].late = 0

\* Nothing is executed for a request that came after its session was closed,
\* although the services themselves would still take its access token.
ClosedSessionStopped ==
    \A p \in Procs : op[p].signed_off => op[p].ran + op[p].late = 0

\* What the guard finds in Redis is what config-service says, unless it is from
\* before the last switch; and a request that comes and goes during maintenance
\* is let through by nothing but such an entry, a Redis that did not take the
\* answer, a config-service that gave none - or by not being a read.
MaintenanceHolds ==
    /\ cache # "none" => outdated \/ (cache = "on" <=> enabled)
    /\ \A p \in Procs :
        At(p, "session") /\ op[p].during =>
            \/ op[p].passed \in {"outdated", "unstored", "unreachable"}
            \/ op[p].passed = "method" /\ ~op[p].route.read

\* "If config-service is not available, the traffic is let through" - and only
\* then: a request that comes and goes during maintenance is refused, unless
\* config-service gave no answer.
MaintenanceIsEnforced ==
    \A p \in Procs :
        At(p, "session") /\ op[p].during => op[p].passed = "unreachable"

=============================================================================

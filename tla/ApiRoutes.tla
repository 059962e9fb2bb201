----------------------------- MODULE ApiRoutes -----------------------------
(***************************************************************************)
(* The contract between api-gateway and the services behind it: what the   *)
(* controllers of the gateway forward, and what the controllers of the     *)
(* services offer.  A path is the sequence of its segments below the       *)
(* prefix and the version that both sides agree on (/auth/v1, /company/v1, *)
(* /config/v1); a segment that is a parameter is written with its colon.   *)
(***************************************************************************)
EXTENDS Sequences, ErrorCatalogue, Permissions, SignedTokens

\* A call as a client makes it or as a controller offers it.
Call(method, path) == [method |-> method, path |-> path]

Calls(method, paths) == {Call(method, path) : path \in paths}

-----------------------------------------------------------------------------
(* The controllers of the services.                                        *)

\* AuthController, without and with JwtAuthGuard.
AuthOpen == Calls("POST",
    {<<"verify-email">>, <<"resend-verification">>, <<"forgot-password">>,
     <<"reset-password">>, <<"register">>, <<"login">>,
     <<"login", "verify-2fa">>, <<"complete-first-login">>, <<"refresh">>})

SessionCalls == Calls("POST", {<<"logout">>, <<"logout-all">>})

SecondFactorCalls == Calls("POST",
    {<<"2fa", "enable">>, <<"2fa", "verify">>, <<"2fa", "disable">>,
     <<"2fa", "recovery-codes", "regenerate">>})

CountryCalls ==
    {Call("GET", <<"trusted-countries">>), Call("POST", <<"trusted-countries">>),
     Call("DELETE", <<"trusted-countries", ":country">>)}

ListedSessionCalls ==
    {Call("GET", <<"sessions">>), Call("DELETE", <<"sessions", ":sessionId">>)}

AuthGuarded ==
    SessionCalls \cup SecondFactorCalls \cup CountryCalls
    \cup ListedSessionCalls \cup Calls("POST", {<<"change-password">>})

ProfilePath == <<"users", "me", "profile">>

UserProfileGuarded ==
    {Call("POST", ProfilePath), Call("GET", ProfilePath),
     Call("PATCH", ProfilePath), Call("POST", Append(ProfilePath, "avatar"))}

CompanyGuarded ==
    Calls("POST", {<<"companies">>, <<"companies", ":id", "logo">>,
                   <<"companies", ":id", "workers">>})
    \cup Calls("GET", {<<"companies">>, <<"companies", ":id">>})
    \cup Calls("PATCH", {<<"companies", ":id">>})
    \cup Calls("DELETE", {<<"companies", ":id">>,
                          <<"companies", ":id", "logo">>})

MembersPath == <<"companies", ":id", "members">>
MemberPath  == Append(MembersPath, ":membershipId")

MembershipGuarded ==
    {Call("POST", MembersPath), Call("GET", MembersPath),
     Call("PATCH", MemberPath), Call("DELETE", MemberPath),
     Call("POST", Append(MemberPath, "accept")),
     Call("POST", Append(MemberPath, "decline"))}

MaintenanceInternal ==
    {Call("GET", <<"maintenance", "status">>),
     Call("POST", <<"maintenance", "mode">>),
     Call("POST", <<"maintenance", "windows">>),
     Call("GET", <<"maintenance", "windows">>),
     Call("DELETE", <<"maintenance", "windows", ":id">>)}

FeatureFlagInternal ==
    {Call("POST", <<"feature-flags">>), Call("GET", <<"feature-flags">>),
     Call("DELETE", <<"feature-flags", ":id">>)}

ConfigInternal == MaintenanceInternal \cup FeatureFlagInternal
                  \cup Calls("GET", {<<"stats">>})

\* What a service runs, and what it runs only for a signed access token.
Served(service) ==
    CASE service = "auth"    -> AuthOpen \cup AuthGuarded \cup UserProfileGuarded
      [] service = "company" -> CompanyGuarded \cup MembershipGuarded
      [] service = "config"  -> ConfigInternal

Guarded(service) ==
    CASE service = "auth"    -> AuthGuarded \cup UserProfileGuarded
      [] service = "company" -> CompanyGuarded \cup MembershipGuarded
      [] service = "config"  -> {}

-----------------------------------------------------------------------------
(* The controllers of the gateway.  to is the call that is forwarded.      *)

Route(service, access, call, to) ==
    [service |-> service, access |-> access, call |-> call, to |-> to]

Forward(service, access, calls) ==
    {Route(service, access, c, c) : c \in calls}

GatewayAuthPublic == Forward("auth", "public", Calls("POST",
    {<<"verify-email">>, <<"resend-verification">>, <<"register">>,
     <<"login">>, <<"refresh">>}))

GatewayAuthSession == Forward("auth", "session",
    Calls("POST", {<<"change-password">>, <<"logout">>, <<"logout-all">>,
                   <<"2fa", "enable">>, <<"2fa", "verify">>,
                   <<"2fa", "disable">>, <<"trusted-countries">>})
    \cup Calls("GET", {<<"sessions">>, <<"trusted-countries">>})
    \cup Calls("DELETE", {<<"sessions", ":sessionId">>,
                          <<"trusted-countries", ":country">>}))

GatewayUser == Forward("auth", "session",
    {Call("POST", ProfilePath), Call("GET", ProfilePath),
     Call("PATCH", ProfilePath), Call("POST", Append(ProfilePath, "avatar"))})

GatewayCompany == Forward("company", "session",
    Calls("POST", {<<"companies">>, <<"companies", ":id", "logo">>,
                   <<"companies", ":id", "workers">>, MembersPath,
                   Append(MemberPath, "accept"), Append(MemberPath, "decline")})
    \cup Calls("GET", {<<"companies">>, <<"companies", ":id">>, MembersPath})
    \cup Calls("PATCH", {<<"companies", ":id">>, MemberPath})
    \cup Calls("DELETE", {<<"companies", ":id">>,
                          <<"companies", ":id", "logo">>, MemberPath}))

\* The wildcard *path holds the segments as a list, and "/" + list joins them
\* with commas: one segment is left, that no controller has.
Joined(path) == IF Len(path) = 1 THEN path ELSE <<"segments,joined">>

\* @All takes every method, and config-service has the path for GET only.
AnyMethod == {Call(method, <<"maintenance", "status">>) :
                method \in {"POST", "PUT", "PATCH", "DELETE"}}

GatewayConfig ==
    Forward("config", "public",
        Calls("GET", {<<"maintenance", "status">>, <<"feature-flags">>})
        \cup AnyMethod)
    \cup {Route("config", "admin", c, Call(c.method, Joined(c.path))) :
            c \in ConfigInternal \ Calls("GET", {<<"maintenance", "status">>,
                                                 <<"feature-flags">>})}

Routes == GatewayAuthPublic \cup GatewayAuthSession \cup GatewayUser
          \cup GatewayCompany \cup GatewayConfig

IsServed(r) == r.to \in Served(r.service)

\* methodGuardMiddleware refuses what is not in its list: PATCH is not.
ALLOWED_METHODS == {"GET", "POST", "PUT", "DELETE"}

IsReached(r) == r.call.method \in ALLOWED_METHODS /\ IsServed(r)

\* MaintenanceGuard.isBypassRoute.
IsBypass(r) == r.service = "config" /\ r.call.path[1] = "maintenance"

-----------------------------------------------------------------------------
(* What travels with a call.                                               *)

\* The path of a route at the gateway, below /v1.  The controllers for
\* profiles and for companies have their prefix in the path already.
PublicPath(r) ==
    IF r.service = "config" \/ r.call \in AuthOpen \cup AuthGuarded
    THEN <<r.service>> \o r.call.path ELSE r.call.path

\* A browser sends a cookie with every path below the one it was set for.
Cookie(name, path) == [name |-> name, path |-> path]

IsBelow(path, prefix) ==
    Len(prefix) <= Len(path) /\ SubSeq(path, 1, Len(prefix)) = prefix

\* setAuthCookies, clearAuthCookies, and the one that refresh sets itself.
SetAuthCookies ==
    {Cookie("accessToken", <<>>), Cookie("refreshToken", <<"auth">>)}

ClearAuthCookies ==
    {Cookie("accessToken", <<>>), Cookie("refreshToken", <<>>)}

RefreshCookies == {Cookie("refreshToken", <<"auth">>)}

\* The calls that open a session, and those of them the gateway has a route
\* for; it hands the cookies on there.
OpensSession ==
    Calls("POST", {<<"login">>, <<"login", "verify-2fa">>,
                   <<"complete-first-login">>})

SetBy(call) ==
    CASE call \in OpensSession            -> SetAuthCookies
      [] call = Call("POST", <<"refresh">>) -> RefreshCookies
      [] OTHER                             -> {}

\* The guards want the access token, refresh the other one.
Wants(r) ==
    IF r.access # "public" THEN {"accessToken"}
    ELSE IF r.call = Call("POST", <<"refresh">>) THEN {"refreshToken"} ELSE {}

\* Wherever a cookie is wanted it is sent, from the moment a session is open;
\* and what a call that sets cookies has set replaces what was there.  Closing
\* the session takes the access token away; the refresh token stays with the
\* browser, because it is cleared for a path it was not set for.
CookiesAgree(r) ==
    /\ \A name \in Wants(r) :
        \A open \in OpensSession : \E c \in SetBy(open) :
            c.name = name /\ IsBelow(PublicPath(r), c.path)
    /\ SetBy(r.call) \subseteq SetAuthCookies
    /\ r.to \in SessionCalls =>
        {c \in SetAuthCookies : c.name = "accessToken"}
            \subseteq ClearAuthCookies

\* The handlers that take a file.
Uploads == {Call("POST", Append(ProfilePath, "avatar")),
            Call("POST", <<"companies", ":id", "logo">>)}

\* headerValidationMiddleware: where it wants a form, and not JSON.
MULTIPART_ROUTES == {Append(ProfilePath, "avatar")}
MULTIPART_ROUTE_PATTERNS == {<<"companies", ":id", "logo">>}

ExpectsMultipart(r) ==
    PublicPath(r) \in MULTIPART_ROUTES \cup MULTIPART_ROUTE_PATTERNS

HasBody(call) == call.method \in {"POST", "PUT", "PATCH"}

\* pathSanitizerMiddleware: no segment of a route leads upwards.
IsSanitized(path) == \A i \in DOMAIN path : path[i] # ".."

\* What arrives at the services of the headers of a client, and what they act
\* on (not what only goes into a log line or into the meta of an answer).
forwardHeaders ==
    {"content-type", "authorization", "accept-language", "x-correlation-id",
     "x-country", "x-device-fingerprint", "cookie", "x-forwarded-for"}

Reads(service) ==
    {"accept-language"} \cup
    CASE service = "auth"    -> {"cookie", "x-country", "x-device-fingerprint",
                                 "x-forwarded-for", "x-forwarded-proto"}
      [] service = "company" -> {"cookie"}
      [] service = "config"  -> {"x-internal-api-key"}

\* InternalServiceGuard wants the key that ConfigProxy adds to every call.
Carries(service) ==
    forwardHeaders
    \cup (IF service = "config" THEN {"x-internal-api-key"} ELSE {})

-----------------------------------------------------------------------------

(* Where the two sides do not agree.                                       *)

\* Routes that end in a 404: what the wildcard has joined, and a method that
\* only the gateway has for the path.
LeadsNowhere(r) ==
    \/ r.access = "admin" /\ Len(r.call.path) > 1
    \/ r.call \in AnyMethod

\* Headers that are acted on and do not get through the gateway.
Lost(service) == Reads(service) \ Carries(service)

\* All of it: such a route, the PATCH that the method guard refuses, and the
\* header that decides whether the cookies of auth-service are secure.  Where
\* a service wants a token the gateway does, too; the content type that is
\* wanted is the one the handler takes, and the cookies get to where they are
\* wanted.
Agreed(r) ==
    /\ IsReached(r) <=> ~LeadsNowhere(r) /\ r.call.method # "PATCH"
    /\ r.to \in Guarded(r.service) => r.access # "public"
    /\ HasBody(r.call) => (ExpectsMultipart(r) <=> r.to \in Uploads)
    /\ IsSanitized(PublicPath(r))
    /\ Lost(r.service) = IF r.service = "auth" THEN {"x-forwarded-proto"} ELSE {}
    /\ CookiesAgree(r)

=============================================================================

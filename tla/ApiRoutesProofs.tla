--------------------------- MODULE ApiRoutesProofs ---------------------------
(***************************************************************************)
(* Theorems about the tables behind the gateway: errors, permissions,      *)
(* signed tokens and routes.                                               *)
(***************************************************************************)
EXTENDS ApiRoutes, SequenceTheorems, TLAPS

-----------------------------------------------------------------------------
(* Errors.                                                                 *)

\* A code with the status that HttpErrorMapper has for it.
InMapper(e) == e.status \in HttpStatus /\ e.code \in HttpErrorMapper[e.status]

\* The codes that services raise, in the order of their statuses.
LEMMA MapperEntries ==
    /\ {"VALIDATION_ERROR", "DEVICE_FINGERPRINT_REQUIRED",
        "TWO_FACTOR_CREDENTIAL_REQUIRED", "INVALID_VERIFICATION_TOKEN",
        "INVALID_PASSWORD_RESET_TOKEN"} \subseteq HttpErrorMapper[400]
    /\ {"UNAUTHORIZED", "INVALID_CREDENTIALS", "INVALID_REFRESH_TOKEN",
        "INVALID_CURRENT_PASSWORD", "INVALID_TOTP_CODE",
        "INVALID_RECOVERY_CODE", "INVALID_CHALLENGE_TOKEN"}
            \subseteq HttpErrorMapper[401]
    /\ {"FORBIDDEN", "DEVICE_NOT_TRUSTED", "USER_BLOCKED",
        "COUNTRY_NOT_TRUSTED", "SECURITY_CHALLENGE_REQUIRED",
        "PASSWORD_CHANGE_REQUIRED", "EMAIL_NOT_VERIFIED"}
            \subseteq HttpErrorMapper[403]
    /\ {"NOT_FOUND", "TRUSTED_COUNTRY_NOT_FOUND", "SESSION_NOT_FOUND",
        "USER_PROFILE_NOT_FOUND", "COMPANY_NOT_FOUND",
        "MEMBERSHIP_NOT_FOUND", "USER_NOT_FOUND"} \subseteq HttpErrorMapper[404]
    /\ "METHOD_NOT_ALLOWED" \in HttpErrorMapper[405]
    /\ {"CONFLICT", "EMAIL_ALREADY_EXISTS", "TWO_FACTOR_ALREADY_ENABLED",
        "TRUSTED_COUNTRY_ALREADY_EXISTS", "EMAIL_ALREADY_VERIFIED",
        "USER_PROFILE_ALREADY_EXISTS", "MEMBERSHIP_ALREADY_EXISTS",
        "TAX_ID_ALREADY_REGISTERED"} \subseteq HttpErrorMapper[409]
    /\ "UNSUPPORTED_MEDIA_TYPE" \in HttpErrorMapper[415]
    /\ {"SAME_PASSWORD_NOT_ALLOWED", "TWO_FACTOR_NOT_ENABLED",
        "TWO_FACTOR_SETUP_NOT_INITIATED", "TRUSTED_COUNTRY_LIMIT_REACHED"}
            \subseteq HttpErrorMapper[422]
    /\ "TOO_MANY_REQUESTS" \in HttpErrorMapper[429]
    /\ "INTERNAL_ERROR" \in HttpErrorMapper[500]
    /\ "BAD_GATEWAY" \in HttpErrorMapper[502]
    /\ "SERVICE_UNAVAILABLE" \in HttpErrorMapper[503]
    /\ "GATEWAY_TIMEOUT" \in HttpErrorMapper[504]
BY DEF HttpErrorMapper, HttpStatus

LEMMA AuthErrorsStand ==
    \A e \in LoginErrors \cup PasswordErrors \cup SecondFactorErrors
            \cup AccountErrors : InMapper(e) /\ e.status < 500
<1>1. \A e \in LoginErrors : InMapper(e) /\ e.status < 500
  BY MapperEntries DEF LoginErrors, Errors, Error, InMapper, HttpStatus
<1>2. \A e \in PasswordErrors : InMapper(e) /\ e.status < 500
  BY MapperEntries DEF PasswordErrors, Errors, Error, InMapper, HttpStatus
<1>3. \A e \in SecondFactorErrors : InMapper(e) /\ e.status < 500
  BY MapperEntries DEF SecondFactorErrors, Errors, Error, InMapper, HttpStatus
<1>4. \A e \in AccountErrors : InMapper(e) /\ e.status < 500
  BY MapperEntries DEF AccountErrors, Errors, Error, InMapper, HttpStatus
<1> QED
  BY <1>1, <1>2, <1>3, <1>4

LEMMA OtherErrorsStand ==
    \A e \in CompanyErrors \cup ConfigErrors :
        /\ InMapper(e) \/ e = Error("VALIDATION_ERROR", 422)
        /\ e.status < 500 \/ e = Unavailable
<1>1. \A e \in CompanyErrors :
        InMapper(e) /\ (e.status < 500 \/ e = Unavailable)
  BY MapperEntries
  DEF CompanyErrors, Errors, Error, InMapper, HttpStatus, Unavailable
<1>2. \A e \in ConfigErrors :
        /\ InMapper(e) \/ e = Error("VALIDATION_ERROR", 422)
        /\ e.status < 500
  BY MapperEntries DEF ConfigErrors, Error, InMapper, HttpStatus
<1> QED
  BY <1>1, <1>2

\* What has a status has a code for it.
LEMMA StatusHasCode ==
    \A s \in HttpStatus :
        \/ getErrorCodeFromHttpStatus(s) \in HttpErrorMapper[s]
        \/ s = 422 /\ getErrorCodeFromHttpStatus(s) = "VALIDATION_ERROR"
BY MapperEntries DEF getErrorCodeFromHttpStatus, HttpStatus

(* What a service decides reaches the client with its code and its status,  *)
(* and a failure on the way is never taken for a decision: this is about    *)
(* GlobalExceptionFilter and the proxies, for every error of the factories. *)
THEOREM ErrorsKept == ErrorsAgree
<1>1. ASSUME NEW e \in DomainErrors
      PROVE  /\ e.code \in ErrorCode /\ StandsFor(e)
             /\ throwAxiosResponseError(catch(Thrown("domain", e, TRUE))) = e
             /\ IsRepeated(e) => e = Unavailable
  <2>1. /\ InMapper(e) \/ e = Error("VALIDATION_ERROR", 422)
        /\ e.status < 500 \/ e = Unavailable
    BY AuthErrorsStand, OtherErrorsStand DEF DomainErrors
  <2>2. e.code \in ErrorCode
    <3>1. CASE InMapper(e)
      BY <3>1 DEF InMapper, ErrorCode
    <3>2. CASE e = Error("VALIDATION_ERROR", 422)
      <4>1. e.code = "VALIDATION_ERROR" /\ 400 \in HttpStatus
        BY <3>2 DEF Error, HttpStatus
      <4> QED
        BY <4>1, MapperEntries DEF ErrorCode
    <3> QED
      BY <2>1, <3>1, <3>2
  <2>3. StandsFor(e)
    BY <2>1 DEF InMapper, StandsFor
  <2>4. throwAxiosResponseError(catch(Thrown("domain", e, TRUE))) = e
    BY DEF throwAxiosResponseError, catch, Thrown
  <2>5. e.status \in Nat
    BY <2>1 DEF InMapper, HttpStatus, Error
  <2>6. IsRepeated(e) => e = Unavailable
    BY <2>1, <2>5 DEF IsRepeated
  <2> QED
    BY <2>2, <2>3, <2>4, <2>6
<1>2. ASSUME NEW s \in HttpStatus
      PROVE  LET e == catch(Thrown("http", Error("none", s), FALSE)) IN
                 e.status = s /\ StandsFor(e)
  <2>1. catch(Thrown("http", Error("none", s), FALSE))
        = Error(getErrorCodeFromHttpStatus(s), s)
    BY DEF catch, Thrown, normalizeHttpException, Error
  <2>2. /\ Error(getErrorCodeFromHttpStatus(s), s).status = s
        /\ Error(getErrorCodeFromHttpStatus(s), s).code
            = getErrorCodeFromHttpStatus(s)
    BY DEF Error
  <2>3. StandsFor(Error(getErrorCodeFromHttpStatus(s), s))
    BY <2>2, StatusHasCode DEF StandsFor
  <2> QED
    BY <2>1, <2>2, <2>3
<1>3. ASSUME NEW f \in Failures,
             NEW e \in {AuthUnreachable(f), CompanyUnreachable(f),
                        ConfigUnreachable(f)}
      PROVE  IsRepeated(e) /\ StandsFor(e)
  <2>1. e \in {Unavailable, BadGateway}
    BY DEF AuthUnreachable, CompanyUnreachable, ConfigUnreachable
  <2>2. IsRepeated(Unavailable) /\ IsRepeated(BadGateway)
    BY DEF IsRepeated, Unavailable, BadGateway, Error
  <2>3. StandsFor(Unavailable) /\ StandsFor(BadGateway)
    BY MapperEntries DEF StandsFor, Unavailable, BadGateway, Error
  <2> QED
    BY <2>1, <2>2, <2>3
<1> QED
  BY <1>1, <1>2, <1>3 DEF ErrorsAgree

-----------------------------------------------------------------------------
(* Permissions.                                                            *)

LEMMA RolesGiven ==
    /\ ROLE_PERMISSIONS["SUPER_ADMIN"] = Permission
    /\ ROLE_PERMISSIONS["BUSINESS_OWNER"] = Permission \ NotOfOwner
    /\ ROLE_PERMISSIONS["ACCOUNTANT"] =
            Of("org", {"read"}) \cup Of("invoice", {"read", "list"})
            \cup Of("sale", {"read", "list"})
            \cup Of("finance", {"read", "export"})
            \cup Of("report", {"read", "export"})
            \cup Of("profile", {"manage"})
    /\ ROLE_PERMISSIONS["EMPLOYEE"] =
            Of("invoice", {"create", "read", "edit", "list"})
            \cup Of("sale", {"create", "read", "edit", "list"})
            \cup Of("profile", {"manage"})
    /\ ROLE_PERMISSIONS["CUSTOMER"] =
            Of("invoice", {"read-own"})
            \cup Of("payment", {"create", "read"})
            \cup Of("profile", {"manage"})
BY DEF ROLE_PERMISSIONS, UserRole

\* Of is monotone, and two modules have no permission in common.
LEMMA OfGrows ==
    ASSUME NEW module, NEW A, NEW B, A \subseteq B
    PROVE  Of(module, A) \subseteq Of(module, B)
BY DEF Of

LEMMA OfApart ==
    ASSUME NEW m, NEW n, m # n, NEW A, NEW B
    PROVE  Of(m, A) \cap Of(n, B) = {}
BY DEF Of

\* What the catalogue has of the modules that a role may touch.
LEMMA InCatalogue ==
    /\ Of("org", {"read"}) \subseteq Permission \ NotOfOwner
    /\ Of("invoice", {"create", "read", "edit", "list"})
            \subseteq Permission \ NotOfOwner
    /\ Of("sale", {"create", "read", "edit", "list"})
            \subseteq Permission \ NotOfOwner
    /\ Of("finance", {"read", "export"}) \subseteq Permission \ NotOfOwner
    /\ Of("report", {"read", "export"}) \subseteq Permission \ NotOfOwner
    /\ Of("profile", {"manage"}) \subseteq Permission \ NotOfOwner
BY DEF Of, Permission, NotOfOwner, PLATFORM

LEMMA RolesWithin ==
    /\ \A r \in UserRole : ROLE_PERMISSIONS[r] \subseteq Permission
    /\ ROLE_PERMISSIONS["ACCOUNTANT"] \subseteq Permission \ NotOfOwner
    /\ ROLE_PERMISSIONS["EMPLOYEE"] \subseteq Permission \ NotOfOwner
<1>1. ROLE_PERMISSIONS["ACCOUNTANT"] \subseteq Permission \ NotOfOwner
  <2>1. /\ Of("invoice", {"read", "list"})
                \subseteq Of("invoice", {"create", "read", "edit", "list"})
        /\ Of("sale", {"read", "list"})
                \subseteq Of("sale", {"create", "read", "edit", "list"})
    BY DEF Of
  <2> QED
    BY <2>1, RolesGiven, InCatalogue
<1>2. ROLE_PERMISSIONS["EMPLOYEE"] \subseteq Permission \ NotOfOwner
  BY RolesGiven, InCatalogue
<1>3. ROLE_PERMISSIONS["CUSTOMER"] \subseteq Permission
  <2>1. /\ Of("invoice", {"read-own"}) \subseteq Permission
        /\ Of("payment", {"create", "read"}) \subseteq Permission
    BY DEF Of, Permission
  <2> QED
    BY <2>1, RolesGiven, InCatalogue
<1>4. ROLE_PERMISSIONS["BUSINESS_OWNER"] \subseteq Permission
  BY RolesGiven
<1>5. ROLE_PERMISSIONS["SUPER_ADMIN"] \subseteq Permission
  BY RolesGiven
<1> QED
  BY <1>1, <1>2, <1>3, <1>4, <1>5 DEF UserRole

\* Nobody but SUPER_ADMIN has a permission of the platform.
LEMMA PlatformApart ==
    \A r \in UserRole \ AdminRoles : ROLE_PERMISSIONS[r] \cap PLATFORM = {}
<1>1. PLATFORM \subseteq NotOfOwner
  BY DEF NotOfOwner
<1>2. ROLE_PERMISSIONS["CUSTOMER"] \cap PLATFORM = {}
  BY RolesGiven DEF Of, PLATFORM
<1>3. /\ ROLE_PERMISSIONS["BUSINESS_OWNER"] \cap PLATFORM = {}
      /\ ROLE_PERMISSIONS["ACCOUNTANT"] \cap PLATFORM = {}
      /\ ROLE_PERMISSIONS["EMPLOYEE"] \cap PLATFORM = {}
  BY <1>1, RolesGiven, RolesWithin
<1> QED
  BY <1>2, <1>3 DEF UserRole, AdminRoles

(* The seed may run on any rows and any number of times: a role has what    *)
(* ROLE_PERMISSIONS gives it beside what it had, and a second seed changes  *)
(* nothing.                                                                 *)
THEOREM SeedSettles ==
    ASSUME NEW rows, NEW r \in UserRole
    PROVE  /\ findCodesByRole(Seed(rows), r)
                = findCodesByRole(rows, r) \cup ROLE_PERMISSIONS[r]
           /\ Seed(Seed(rows)) = Seed(rows)
<1> DEFINE given == UNION {{<<x, p>> : p \in ROLE_PERMISSIONS[x]} : x \in UserRole}
<1>1. \A p : <<r, p>> \in given <=> p \in ROLE_PERMISSIONS[r]
  <2>1. ASSUME NEW p, <<r, p>> \in given PROVE p \in ROLE_PERMISSIONS[r]
    <3>1. PICK x \in UserRole : <<r, p>> \in {<<x, q>> : q \in ROLE_PERMISSIONS[x]}
      BY <2>1
    <3>2. PICK q \in ROLE_PERMISSIONS[x] : <<r, p>> = <<x, q>>
      BY <3>1
    <3> QED
      BY <3>2
  <2>2. ASSUME NEW p, p \in ROLE_PERMISSIONS[r] PROVE <<r, p>> \in given
    BY <2>2
  <2> QED
    BY <2>1, <2>2
<1>2. \A any : Seed(any) = any \cup given
  BY DEF Seed
<1> HIDE DEF given
<1>3. findCodesByRole(Seed(rows), r)
      = findCodesByRole(rows, r) \cup ROLE_PERMISSIONS[r]
  BY <1>1, <1>2, RolesWithin DEF findCodesByRole
<1>4. Seed(Seed(rows)) = Seed(rows)
  BY <1>2
<1> QED
  BY <1>3, <1>4

LEMMA FreshSeed ==
    \A r \in UserRole : findCodesByRole(Seed({}), r) = ROLE_PERMISSIONS[r]
<1>1. \A r \in UserRole : findCodesByRole({}, r) = {}
  BY DEF findCodesByRole
<1> QED
  BY <1>1, SeedSettles

(* The guards of the gateway admit the roles they name and no other, and    *)
(* the roles mean what is said of them: ConfigController against the seed   *)
(* of auth-service.                                                         *)
THEOREM RolesKept == RolesAgree
<1>1. AdminPermission \in Permission /\ "SUPER_ADMIN" \in UserRole
  BY DEF AdminPermission, Permission, PLATFORM, Of, UserRole
<1>2. ASSUME NEW r \in UserRole
      PROVE  /\ IsAdmitted(r, {}) <=> r \in AdminRoles
             /\ ~IsAdmitted(r, {Override(AdminPermission, FALSE)})
             /\ IsAdmitted(r, {Override(AdminPermission, TRUE)})
                    <=> r \in AdminRoles
             /\ r \notin AdminRoles =>
                    findCodesByRole(Seed({}), r) \cap PLATFORM = {}
             /\ findCodesByRole(Seed(Seed({})), r) = ROLE_PERMISSIONS[r]
  <2>1. Override(AdminPermission, TRUE) # Override(AdminPermission, FALSE)
    <3>1. /\ Override(AdminPermission, TRUE).granted = TRUE
          /\ Override(AdminPermission, FALSE).granted = FALSE
      BY DEF Override
    <3> QED
      BY <3>1
  <2>2. r \in AdminRoles => AdminPermission \in ROLE_PERMISSIONS[r]
    BY <1>1, RolesGiven DEF AdminRoles
  <2>3. IsAdmitted(r, {}) <=> r \in AdminRoles
    BY <1>1, <2>2, FreshSeed DEF IsAdmitted, getEffectivePermissions
  <2>4. ~IsAdmitted(r, {Override(AdminPermission, FALSE)})
    BY <2>1 DEF IsAdmitted, getEffectivePermissions
  <2>5. IsAdmitted(r, {Override(AdminPermission, TRUE)}) <=> r \in AdminRoles
    BY <1>1 DEF IsAdmitted, getEffectivePermissions
  <2>6. r \notin AdminRoles => findCodesByRole(Seed({}), r) \cap PLATFORM = {}
    BY FreshSeed, PlatformApart
  <2>7. findCodesByRole(Seed(Seed({})), r) = ROLE_PERMISSIONS[r]
    BY FreshSeed, SeedSettles
  <2> QED
    BY <2>3, <2>4, <2>5, <2>6, <2>7
<1>3. \A p \in ROLE_PERMISSIONS["ACCOUNTANT"] :
        p[2] \in {"read", "list", "export"} \/ p[1] = "profile"
  BY RolesGiven DEF Of
<1>4. /\ ROLE_PERMISSIONS["EMPLOYEE"] \subseteq ROLE_PERMISSIONS["BUSINESS_OWNER"]
      /\ ROLE_PERMISSIONS["ACCOUNTANT"] \subseteq ROLE_PERMISSIONS["BUSINESS_OWNER"]
  BY RolesGiven, RolesWithin
<1> QED
  BY <1>2, <1>3, <1>4 DEF RolesAgree

-----------------------------------------------------------------------------
(* Signed tokens.                                                          *)

(* Access, refresh and change tokens are each taken by their own verifiers  *)
(* only, though access and challenge tokens share a secret - but for one    *)
(* thing: VerifyLoginChallengeUseCase looks at no reason, so it takes the   *)
(* token for a change of the password for a login challenge.  This is about *)
(* JwtTokenService against the guards of the gateway and of the services.   *)
THEOREM TokensKept == TokensAgree
<1> USE DEF Token, generateAccessToken, generateRefreshToken,
            generateChallengeToken
<1>1. /\ generateAccessToken.secret = "JWT_ACCESS_SECRET"
      /\ generateAccessToken.audience = "api-gateway"
      /\ generateAccessToken.claims = {"sub", "sid", "role"}
      /\ generateRefreshToken.secret = "JWT_REFRESH_SECRET"
      /\ ChangeToken.secret = "JWT_ACCESS_SECRET"
      /\ ChangeToken.audience = "mfa-challenge"
      /\ ChangeToken.reason = "PASSWORD_CHANGE_REQUIRED"
  BY DEF ChangeToken
<1>2. \A t \in LoginChallenges :
        /\ t.secret = "JWT_ACCESS_SECRET" /\ t.audience = "mfa-challenge"
        /\ t.reason # "PASSWORD_CHANGE_REQUIRED"
  BY DEF LoginChallenges, Reasons
<1> USE DEF Verified, Tokens
<1> HIDE DEF Token, generateAccessToken, generateRefreshToken,
             generateChallengeToken
<1>3. Verified("JWT_ACCESS_SECRET", "api-gateway") = {generateAccessToken}
  BY <1>1, <1>2
<1>4. verifyRefreshToken = {generateRefreshToken}
  BY <1>1, <1>2 DEF verifyRefreshToken
<1>5. verifyChallengeToken = LoginChallenges \cup {ChangeToken}
  BY <1>1, <1>2 DEF verifyChallengeToken
<1>6. decodeChangeToken = {ChangeToken}
  BY <1>1, <1>2, <1>5 DEF decodeChangeToken
<1> HIDE DEF Verified, Tokens
<1>7. SessionGuardTakes = {generateAccessToken}
      /\ ServiceGuardTakes = {generateAccessToken}
  BY <1>1, <1>3 DEF SessionGuardTakes, ServiceGuardTakes
<1> QED
  BY <1>4, <1>5, <1>6, <1>7 DEF TokensAgree, LoginChallengeTakes

-----------------------------------------------------------------------------
(* Paths.                                                                  *)

LEMMA ShortPaths ==
    ASSUME NEW S, NEW a \in S, NEW b \in S, NEW c \in S
    PROVE  /\ <<a>> \in Seq(S) /\ Len(<<a>>) = 1 /\ <<a>>[1] = a
           /\ <<a, b>> \in Seq(S) /\ Len(<<a, b>>) = 2 /\ <<a, b>>[1] = a
           /\ <<a, b, c>> \in Seq(S) /\ Len(<<a, b, c>>) = 3
           /\ <<a, b, c>>[1] = a /\ <<a, b, c>>[3] = c
<1>1. <<a>> \in Seq(S) /\ Len(<<a>>) = 1 /\ <<a>>[1] = a
  OBVIOUS
<1>2. <<a, b>> \in Seq(S) /\ Len(<<a, b>>) = 2 /\ <<a, b>>[1] = a
  OBVIOUS
<1>3. /\ <<a, b, c>> \in Seq(S) /\ Len(<<a, b, c>>) = 3
      /\ <<a, b, c>>[1] = a /\ <<a, b, c>>[3] = c
  OBVIOUS
<1> QED
  BY <1>1, <1>2, <1>3

LEMMA LongerPath ==
    ASSUME NEW S, NEW path \in Seq(S), NEW x \in S
    PROVE  /\ Append(path, x) \in Seq(S)
           /\ Len(Append(path, x)) = Len(path) + 1
           /\ \A i \in 1..Len(path) : Append(path, x)[i] = path[i]
BY AppendProperties

\* A path below the name of a service.
LEMMA Prefixed ==
    ASSUME NEW S, NEW path \in Seq(S), NEW x \in S
    PROVE  /\ <<x>> \o path \in Seq(S)
           /\ (<<x>> \o path)[1] = x
           /\ IsBelow(<<x>> \o path, <<x>>)
<1> DEFINE q == <<x>> \o path
           single == <<x>>
           head == SubSeq(q, 1, 1)
<1>1. <<x>> \in Seq(S) /\ Len(<<x>>) = 1 /\ <<x>>[1] = x
  BY ShortPaths
<1>2. q \in Seq(S) /\ Len(q) = Len(path) + 1 /\ q[1] = x /\ Len(path) \in Nat
  BY <1>1, ConcatProperties
<1> HIDE DEF q
<1>3. \A i \in 1..1 : q[i] \in S
  BY <1>2
<1>4. head \in Seq(S) /\ Len(head) = 1 /\ head[1] = x
  BY <1>2, <1>3, SubSeqProperties
<1>5. single \in Seq(S) /\ Len(single) = 1 /\ single[1] = x
  BY <1>1
<1>6. head = single
  <2> HIDE DEF head, single
  <2>1. \A i \in 1..Len(head) : head[i] = single[i]
    BY <1>4, <1>5
  <2> QED
    BY <1>4, <1>5, <2>1, SeqEqual
<1> QED
  BY <1>1, <1>2, <1>6 DEF IsBelow, q

LEMMA BelowRoot ==
    ASSUME NEW S, NEW path \in Seq(S)
    PROVE  IsBelow(path, <<>>)
BY DEF IsBelow

-----------------------------------------------------------------------------
(* Calls.                                                                  *)

\* The first segments of the calls of each controller, and all segments.
OpenNames    == {"verify-email", "resend-verification", "forgot-password",
                 "reset-password", "register", "login",
                 "complete-first-login", "refresh"}
GuardedNames == {"logout", "logout-all", "2fa", "trusted-countries",
                 "sessions", "change-password"}
ConfigNames  == {"maintenance", "feature-flags", "stats"}

Segment ==
    OpenNames \cup GuardedNames \cup ConfigNames
    \cup {"auth", "company", "config", "users", "companies"}
    \cup {"verify-2fa", "enable", "verify", "disable", "recovery-codes",
          "regenerate", ":country", ":sessionId", "me", "profile", "avatar",
          ":id", "logo", "workers", "members", ":membershipId", "accept",
          "decline", "status", "mode", "windows", "segments,joined"}

IsPath(path, names) ==
    /\ path \in Seq(Segment) /\ Len(path) \in Nat \ {0}
    /\ path[1] \in names

LEMMA PathsOf ==
    ASSUME NEW names, NEW a \in names, a \in Segment,
           NEW b \in Segment, NEW c \in Segment
    PROVE  /\ IsPath(<<a>>, names) /\ IsPath(<<a, b>>, names)
           /\ IsPath(<<a, b, c>>, names)
BY ShortPaths DEF IsPath

LEMMA PathGrows ==
    ASSUME NEW names, NEW path, IsPath(path, names), NEW x \in Segment
    PROVE  /\ IsPath(Append(path, x), names)
           /\ Len(Append(path, x)) = Len(path) + 1
<1>1. 1 \in 1..Len(path)
  BY DEF IsPath
<1> QED
  BY <1>1, LongerPath DEF IsPath

LEMMA OpenCalls == \A c \in AuthOpen : c.method = "POST" /\ IsPath(c.path, OpenNames)
<1> DEFINE paths == {<<"verify-email">>, <<"resend-verification">>,
                     <<"forgot-password">>, <<"reset-password">>,
                     <<"register">>, <<"login">>, <<"login", "verify-2fa">>,
                     <<"complete-first-login">>, <<"refresh">>}
<1>1. \A a \in OpenNames : IsPath(<<a>>, OpenNames)
  BY PathsOf DEF Segment
<1>2. IsPath(<<"login", "verify-2fa">>, OpenNames)
  BY PathsOf DEF Segment, OpenNames
<1>3. \A path \in paths : IsPath(path, OpenNames)
  BY <1>1, <1>2 DEF OpenNames
<1>4. AuthOpen = Calls("POST", paths)
  BY DEF AuthOpen
<1> HIDE DEF paths
<1> QED
  BY <1>3, <1>4 DEF Calls, Call

LEMMA GuardedCalls == \A c \in AuthGuarded : IsPath(c.path, GuardedNames)
<1> DEFINE open == {<<"2fa", "enable">>, <<"2fa", "verify">>, <<"2fa", "disable">>,
                    <<"2fa", "recovery-codes", "regenerate">>}
<1>1. \A a \in GuardedNames : IsPath(<<a>>, GuardedNames)
  BY PathsOf DEF Segment
<1>2. \A path \in open : IsPath(path, GuardedNames)
  BY PathsOf DEF Segment, GuardedNames
<1>3. IsPath(<<"trusted-countries", ":country">>, GuardedNames)
      /\ IsPath(<<"sessions", ":sessionId">>, GuardedNames)
  BY PathsOf DEF Segment, GuardedNames
<1>4. \A c \in SecondFactorCalls : IsPath(c.path, GuardedNames)
  <2>1. SecondFactorCalls = Calls("POST", open)
    BY DEF SecondFactorCalls
  <2> HIDE DEF open
  <2> QED
    BY <1>2, <2>1 DEF Calls, Call
<1>5. \A c \in SessionCalls \cup Calls("POST", {<<"change-password">>}) :
        IsPath(c.path, GuardedNames)
  BY <1>1 DEF SessionCalls, Calls, Call, GuardedNames
<1>6. \A c \in CountryCalls \cup ListedSessionCalls : IsPath(c.path, GuardedNames)
  BY <1>1, <1>3 DEF CountryCalls, ListedSessionCalls, Call, GuardedNames
<1> QED
  BY <1>4, <1>5, <1>6 DEF AuthGuarded

LEMMA ConfigCalls == \A c \in ConfigInternal : IsPath(c.path, ConfigNames)
<1>1. \A a \in ConfigNames : IsPath(<<a>>, ConfigNames)
  BY PathsOf DEF Segment
<1>2. \A b \in {"status", "mode", "windows"} :
        IsPath(<<"maintenance", b>>, ConfigNames)
  BY PathsOf DEF Segment, ConfigNames
<1>3. /\ IsPath(<<"maintenance", "windows", ":id">>, ConfigNames)
      /\ IsPath(<<"feature-flags", ":id">>, ConfigNames)
  BY PathsOf DEF Segment, ConfigNames
<1>4. \A c \in MaintenanceInternal : IsPath(c.path, ConfigNames)
  BY <1>2, <1>3 DEF MaintenanceInternal, Call
<1>5. \A c \in FeatureFlagInternal : IsPath(c.path, ConfigNames)
  BY <1>1, <1>3 DEF FeatureFlagInternal, Call, ConfigNames
<1>6. \A c \in Calls("GET", {<<"stats">>}) : IsPath(c.path, ConfigNames)
  BY <1>1 DEF Calls, Call, ConfigNames
<1> QED
  BY <1>4, <1>5, <1>6 DEF ConfigInternal

-----------------------------------------------------------------------------
(* Uploads.                                                                *)

Multipart == MULTIPART_ROUTES \cup MULTIPART_ROUTE_PATTERNS

\* The middleware wants a form exactly where the handler takes a file.
UploadKnown(c) == HasBody(c) => (c.path \in Multipart <=> c \in Uploads)

LEMMA UploadsAre == Uploads = {Call("POST", path) : path \in Multipart}
BY DEF Uploads, Multipart, MULTIPART_ROUTES, MULTIPART_ROUTE_PATTERNS

LEMMA KnownByPath ==
    ASSUME NEW method, NEW path, method = "POST" \/ path \notin Multipart
    PROVE  UploadKnown(Call(method, path))
<1>1. Call(method, path).path = path /\ Call(method, path).method = method
      /\ \A x : Call("POST", x).path = x /\ Call("POST", x).method = "POST"
  BY DEF Call
<1> QED
  BY <1>1, UploadsAre DEF UploadKnown

UserPath(path)    == IsPath(path, {"users"})
CompanyPath(path) == IsPath(path, {"companies"})

LEMMA ProfilePaths ==
    /\ UserPath(ProfilePath) /\ Len(ProfilePath) = 3
    /\ UserPath(Append(ProfilePath, "avatar"))
    /\ Len(Append(ProfilePath, "avatar")) = 4
<1>1. UserPath(ProfilePath) /\ Len(ProfilePath) = 3
  <2>1. "users" \in Segment /\ "me" \in Segment /\ "profile" \in Segment
    BY DEF Segment
  <2> QED
    BY <2>1, PathsOf, ShortPaths DEF UserPath, ProfilePath
<1>2. "avatar" \in Segment
  BY DEF Segment
<1>3. /\ UserPath(Append(ProfilePath, "avatar"))
      /\ Len(Append(ProfilePath, "avatar")) = Len(ProfilePath) + 1
  BY <1>1, <1>2, PathGrows, Zenon DEF UserPath
<1> QED
  BY <1>1, <1>3

LEMMA CompanyPaths ==
    /\ CompanyPath(<<"companies">>) /\ Len(<<"companies">>) = 1
    /\ CompanyPath(<<"companies", ":id">>) /\ Len(<<"companies", ":id">>) = 2
    /\ \A x \in {"logo", "workers", "members"} :
        /\ CompanyPath(<<"companies", ":id", x>>)
        /\ Len(<<"companies", ":id", x>>) = 3 /\ <<"companies", ":id", x>>[3] = x
    /\ CompanyPath(MembersPath)
    /\ CompanyPath(MemberPath) /\ Len(MemberPath) = 4
    /\ \A x \in {"accept", "decline"} :
        /\ CompanyPath(Append(MemberPath, x))
        /\ Len(Append(MemberPath, x)) = 5
<1>1. {"companies", ":id", "logo", "workers", "members", ":membershipId",
       "accept", "decline"} \subseteq Segment
  BY DEF Segment
<1>2. /\ CompanyPath(<<"companies">>) /\ Len(<<"companies">>) = 1
      /\ CompanyPath(<<"companies", ":id">>) /\ Len(<<"companies", ":id">>) = 2
  BY <1>1, PathsOf, ShortPaths DEF CompanyPath
<1>3. \A x \in {"logo", "workers", "members"} :
        /\ CompanyPath(<<"companies", ":id", x>>)
        /\ Len(<<"companies", ":id", x>>) = 3 /\ <<"companies", ":id", x>>[3] = x
  BY <1>1, PathsOf, ShortPaths DEF CompanyPath
<1>4. CompanyPath(MembersPath) /\ Len(MembersPath) = 3
  BY <1>3 DEF MembersPath
<1>5. CompanyPath(MemberPath) /\ Len(MemberPath) = 4
  <2>1. CompanyPath(MemberPath) /\ Len(MemberPath) = Len(MembersPath) + 1
    BY <1>1, <1>4, PathGrows, Zenon DEF CompanyPath, MemberPath
  <2> QED
    BY <1>4, <2>1
<1>6. \A x \in {"accept", "decline"} :
        /\ CompanyPath(Append(MemberPath, x))
        /\ Len(Append(MemberPath, x)) = 5
  <2>1. ASSUME NEW x \in {"accept", "decline"}
        PROVE  /\ CompanyPath(Append(MemberPath, x))
               /\ Len(Append(MemberPath, x)) = Len(MemberPath) + 1
    <3>1. x \in Segment
      BY <1>1
    <3> QED
      BY <1>5, <3>1, PathGrows, Zenon DEF CompanyPath
  <2> QED
    BY <1>5, <2>1
<1> QED
  BY <1>2, <1>3, <1>4, <1>5, <1>6

LEMMA Heads ==
    /\ \A path : UserPath(path) => path \in Seq(Segment) /\ path[1] = "users"
    /\ \A path : CompanyPath(path) =>
                    path \in Seq(Segment) /\ path[1] = "companies"
BY DEF UserPath, CompanyPath, IsPath

LEMMA MultipartShapes ==
    \A path \in Multipart :
        \/ path[1] = "users" /\ Len(path) = 4
        \/ path[1] = "companies" /\ Len(path) = 3 /\ path[3] = "logo"
BY Heads, ProfilePaths, CompanyPaths
DEF Multipart, MULTIPART_ROUTES, MULTIPART_ROUTE_PATTERNS

\* The calls about profiles and companies, on both sides of the gateway.
ProfileCalls == {Call(m, ProfilePath) : m \in {"POST", "GET", "PATCH"}}
                \cup {Call("POST", Append(ProfilePath, "avatar"))}

LEMMA ProfilesKnown ==
    /\ UserProfileGuarded = ProfileCalls
    /\ \A c \in ProfileCalls : UserPath(c.path) /\ UploadKnown(c)
<1>1. UserProfileGuarded = ProfileCalls
  BY DEF UserProfileGuarded, ProfileCalls
<1>2. ProfilePath \notin Multipart
  <2>1. ProfilePath[1] = "users" /\ Len(ProfilePath) = 3
    BY Heads, ProfilePaths
  <2> QED
    BY <2>1, MultipartShapes
<1>3. ASSUME NEW m \in {"POST", "GET", "PATCH"}
      PROVE  /\ UserPath(Call(m, ProfilePath).path)
             /\ UploadKnown(Call(m, ProfilePath))
  BY <1>2, ProfilePaths, KnownByPath DEF Call
<1>4. /\ UserPath(Call("POST", Append(ProfilePath, "avatar")).path)
      /\ UploadKnown(Call("POST", Append(ProfilePath, "avatar")))
  BY ProfilePaths, KnownByPath DEF Call
<1> QED
  BY <1>1, <1>3, <1>4 DEF ProfileCalls

CompanyCalls == CompanyGuarded \cup MembershipGuarded

LEMMA CompaniesKnown ==
    \A c \in CompanyCalls : CompanyPath(c.path) /\ UploadKnown(c)
<1>1. ASSUME NEW m \in {"PATCH", "GET", "DELETE"},
             NEW path \in {<<"companies">>, <<"companies", ":id">>,
                           <<"companies", ":id", "logo">>, MembersPath, MemberPath},
             m = "PATCH" => path \in {<<"companies", ":id">>, MemberPath}
      PROVE  CompanyPath(Call(m, path).path) /\ UploadKnown(Call(m, path))
  <2>1. CompanyPath(path)
    BY CompanyPaths
  <2>2. m = "PATCH" => path \notin Multipart
    <3>1. m = "PATCH" => path[1] = "companies" /\ Len(path) \in {2, 4}
      BY <1>1, <2>1, CompanyPaths, Heads
    <3> QED
      BY <3>1, MultipartShapes
  <2>3. UploadKnown(Call(m, path))
    <3>1. CASE m = "PATCH"
      BY <2>2, <3>1, KnownByPath
    <3>2. CASE m # "PATCH"
      BY <3>2 DEF UploadKnown, HasBody, Call
    <3> QED
      BY <3>1, <3>2
  <2> QED
    BY <2>1, <2>3 DEF Call
<1>2. ASSUME NEW path \in {<<"companies">>, <<"companies", ":id", "logo">>,
                           <<"companies", ":id", "workers">>, MembersPath,
                           Append(MemberPath, "accept"),
                           Append(MemberPath, "decline")}
      PROVE  CompanyPath(Call("POST", path).path) /\ UploadKnown(Call("POST", path))
  BY CompanyPaths, KnownByPath DEF Call
<1>3. \A c \in CompanyGuarded : CompanyPath(c.path) /\ UploadKnown(c)
  BY <1>1, <1>2 DEF CompanyGuarded, Calls
<1>4. \A c \in MembershipGuarded : CompanyPath(c.path) /\ UploadKnown(c)
  BY <1>1, <1>2 DEF MembershipGuarded
<1> QED
  BY <1>3, <1>4 DEF CompanyCalls

-----------------------------------------------------------------------------
(* Routes.                                                                 *)

\* Cookies: the access token goes with every path, the other one with those
\* of auth-service.
LEMMA CookiesKnown ==
    ASSUME NEW r, PublicPath(r) \in Seq(Segment),
           r.access = "public" /\ r.call = Call("POST", <<"refresh">>) =>
                IsBelow(PublicPath(r), <<"auth">>)
    PROVE  CookiesAgree(r)
<1>1. \A open \in OpensSession : SetBy(open) = SetAuthCookies
  <2>1. \A open \in OpensSession : open.path[1] \in {"login", "complete-first-login"}
    BY DEF OpensSession, Calls, Call
  <2>2. Call("POST", <<"refresh">>).path[1] = "refresh"
    BY DEF Call
  <2> QED
    BY <2>1, <2>2, Zenon DEF SetBy
<1>2. /\ Cookie("accessToken", <<>>) \in SetAuthCookies
      /\ Cookie("refreshToken", <<"auth">>) \in SetAuthCookies
      /\ Cookie("accessToken", <<>>).name = "accessToken"
      /\ Cookie("accessToken", <<>>).path = <<>>
      /\ Cookie("refreshToken", <<"auth">>).name = "refreshToken"
      /\ Cookie("refreshToken", <<"auth">>).path = <<"auth">>
  BY DEF SetAuthCookies, Cookie
<1>3. IsBelow(PublicPath(r), <<>>)
  BY BelowRoot
<1>4. ASSUME NEW name \in Wants(r), NEW open \in OpensSession
      PROVE  \E c \in SetBy(open) : c.name = name /\ IsBelow(PublicPath(r), c.path)
  <2>1. CASE name = "accessToken"
    BY <1>1, <1>2, <1>3, <2>1
  <2>2. CASE name # "accessToken"
    <3>1. /\ r.access = "public" /\ r.call = Call("POST", <<"refresh">>)
          /\ name = "refreshToken"
      BY <1>4, <2>2 DEF Wants
    <3> QED
      BY <1>1, <1>2, <3>1
  <2> QED
    BY <2>1, <2>2
<1>5. SetBy(r.call) \subseteq SetAuthCookies
  BY DEF SetBy, SetAuthCookies, RefreshCookies
<1>6. {c \in SetAuthCookies : c.name = "accessToken"} \subseteq ClearAuthCookies
  BY DEF SetAuthCookies, ClearAuthCookies, Cookie
<1> QED
  BY <1>4, <1>5, <1>6 DEF CookiesAgree

LEMMA HeadersCarried ==
    /\ Lost("auth") = {"x-forwarded-proto"}
    /\ Lost("company") = {} /\ Lost("config") = {}
<1>1. Lost("auth") = {"x-forwarded-proto"}
  BY DEF Lost, Reads, Carries, forwardHeaders
<1>2. Lost("company") = {}
  BY DEF Lost, Reads, Carries, forwardHeaders
<1>3. Lost("config") = {}
  BY DEF Lost, Reads, Carries, forwardHeaders
<1> QED
  BY <1>1, <1>2, <1>3

LEMMA SegmentsSanitized == \A path \in Seq(Segment) : IsSanitized(path)
<1>1. ".." \notin Segment
  BY DEF Segment, OpenNames, GuardedNames, ConfigNames
<1>2. ASSUME NEW path \in Seq(Segment), NEW i \in DOMAIN path
      PROVE  path[i] # ".."
  <2>1. path[i] \in Segment
    BY ElementOfSeq, LenProperties
  <2> QED
    BY <1>1, <2>1
<1> QED
  BY <1>2 DEF IsSanitized

LEMMA AgreedIf ==
    ASSUME NEW r, r.service \in {"auth", "company", "config"},
           PublicPath(r) \in Seq(Segment),
           IsReached(r) <=> ~LeadsNowhere(r) /\ r.call.method # "PATCH",
           r.to \in Guarded(r.service) => r.access # "public",
           HasBody(r.call) => (PublicPath(r) \in Multipart <=> r.to \in Uploads),
           r.access = "public" /\ r.call = Call("POST", <<"refresh">>) =>
                IsBelow(PublicPath(r), <<"auth">>)
    PROVE  Agreed(r)
BY CookiesKnown, HeadersCarried, SegmentsSanitized
DEF Agreed, ExpectsMultipart, Multipart

\* A call that is forwarded as it came, to a service that has it.
LEMMA ReachedIf ==
    ASSUME NEW r, IsServed(r), r.access \in {"public", "session"},
           r.call \notin AnyMethod, r.call.method \in {"GET", "POST", "PATCH", "DELETE"}
    PROVE  IsReached(r) <=> ~LeadsNowhere(r) /\ r.call.method # "PATCH"
BY DEF IsReached, LeadsNowhere, ALLOWED_METHODS

\* The methods of the services, and what @All adds to them.
LEMMA MethodsOf ==
    /\ \A c \in AuthOpen \cup AuthGuarded \cup ProfileCalls \cup CompanyCalls :
            c.method \in {"GET", "POST", "PATCH", "DELETE"}
    /\ \A c \in ConfigInternal : c.method \in {"GET", "POST", "DELETE"}
    /\ \A c \in AnyMethod : /\ c.path = <<"maintenance", "status">>
                             /\ c.method \in {"POST", "PUT", "PATCH", "DELETE"}
<1>1. \A c \in AuthOpen \cup AuthGuarded : c.method \in {"GET", "POST", "DELETE"}
  BY DEF AuthOpen, AuthGuarded, SessionCalls, SecondFactorCalls, CountryCalls,
         ListedSessionCalls, Calls, Call
<1>2. \A c \in ProfileCalls : c.method \in {"GET", "POST", "PATCH"}
  BY DEF ProfileCalls, Call
<1>3. \A c \in CompanyCalls : c.method \in {"GET", "POST", "PATCH", "DELETE"}
  BY DEF CompanyCalls, CompanyGuarded, MembershipGuarded, Calls, Call
<1>4. \A c \in ConfigInternal : c.method \in {"GET", "POST", "DELETE"}
  BY DEF ConfigInternal, MaintenanceInternal, FeatureFlagInternal, Calls, Call
<1>5. \A c \in AnyMethod : /\ c.path = <<"maintenance", "status">>
                           /\ c.method \in {"POST", "PUT", "PATCH", "DELETE"}
  BY DEF AnyMethod, Call
<1> QED
  BY <1>1, <1>2, <1>3, <1>4, <1>5

\* The path of AnyMethod is there for GET, and begins as no other does.
LEMMA AnyMethodApart ==
    /\ AnyMethod \cap ConfigInternal = {}
    /\ \A c : c.path[1] # "maintenance" => c \notin AnyMethod
<1> DEFINE status == <<"maintenance", "status">>
<1>1. status[1] = "maintenance" /\ status[2] = "status" /\ Len(status) = 2
  OBVIOUS
<1> HIDE DEF status
<1>2. \A c \in MaintenanceInternal : c.path = status => c.method = "GET"
  <2>1. \A c \in MaintenanceInternal :
            \/ c.method = "GET" \/ c.path[2] \in {"mode", "windows"}
    BY DEF MaintenanceInternal, Call
  <2> QED
    BY <1>1, <2>1
<1>3. \A c \in FeatureFlagInternal \cup Calls("GET", {<<"stats">>}) :
        c.path[1] \in {"feature-flags", "stats"}
  BY DEF FeatureFlagInternal, Calls, Call
<1>4. \A c \in ConfigInternal : c.path = status => c.method = "GET"
  BY <1>1, <1>2, <1>3 DEF ConfigInternal
<1>5. \A c \in AnyMethod : c.path = status /\ c.method # "GET"
  BY MethodsOf DEF status
<1> QED
  BY <1>1, <1>4, <1>5

\* A route that forwards the call it offers.
LEMMA Forwarded ==
    ASSUME NEW service, NEW access, NEW calls, NEW r \in Forward(service, access, calls)
    PROVE  /\ r.service = service /\ r.access = access
           /\ r.call = r.to /\ r.call \in calls
BY DEF Forward, Route

\* A path that the gateway offers below the name of the service.
LEMMA BelowService ==
    ASSUME NEW r, NEW names, IsPath(r.call.path, names),
           r.service \in {"auth", "company", "config"},
           r.service = "config" \/ r.call \in AuthOpen \cup AuthGuarded
    PROVE  /\ PublicPath(r) \in Seq(Segment)
           /\ IsBelow(PublicPath(r), <<r.service>>)
           /\ PublicPath(r) \notin Multipart
<1>1. PublicPath(r) = <<r.service>> \o r.call.path
  BY DEF PublicPath
<1>2. r.service \in Segment /\ r.call.path \in Seq(Segment)
  BY DEF Segment, IsPath
<1>3. /\ PublicPath(r) \in Seq(Segment) /\ IsBelow(PublicPath(r), <<r.service>>)
      /\ PublicPath(r)[1] = r.service
  BY <1>1, <1>2, Prefixed
<1>4. PublicPath(r) \notin Multipart
  BY <1>3, MultipartShapes
<1> QED
  BY <1>3, <1>4

\* A path that has the prefix of its controller in it already.
LEMMA AtRoot ==
    ASSUME NEW r, UserPath(r.call.path) \/ CompanyPath(r.call.path),
           r.service \in {"auth", "company"}
    PROVE  /\ PublicPath(r) = r.call.path /\ PublicPath(r) \in Seq(Segment)
           /\ r.call # Call("POST", <<"refresh">>)
<1>1. r.call.path[1] \in {"users", "companies"} /\ r.call.path \in Seq(Segment)
  BY Heads
<1>2. \A c \in AuthOpen \cup AuthGuarded : c.path[1] \notin {"users", "companies"}
  BY OpenCalls, GuardedCalls DEF IsPath, OpenNames, GuardedNames
<1>3. PublicPath(r) = r.call.path
  BY <1>1, <1>2 DEF PublicPath
<1>4. Call("POST", <<"refresh">>) \in AuthOpen
  BY DEF AuthOpen, Calls
<1> QED
  BY <1>1, <1>2, <1>3, <1>4

\* No file goes to a path that begins otherwise.
LEMMA NoUpload ==
    ASSUME NEW c, c.path[1] \notin {"users", "companies"}
    PROVE  c \notin Uploads
<1>1. \A path : Call("POST", path).path = path
  BY DEF Call
<1> QED
  BY <1>1, UploadsAre, MultipartShapes

LEMMA PublicAgreed == \A r \in GatewayAuthPublic : Agreed(r)
<1> DEFINE calls == Calls("POST",
                {<<"verify-email">>, <<"resend-verification">>, <<"register">>,
                 <<"login">>, <<"refresh">>})
<1>1. calls \subseteq AuthOpen
  BY DEF AuthOpen, Calls
<1>2. GatewayAuthPublic = Forward("auth", "public", calls)
  BY DEF GatewayAuthPublic
<1> HIDE DEF calls
<1> SUFFICES ASSUME NEW r \in GatewayAuthPublic PROVE Agreed(r)
  OBVIOUS
<1>3. /\ r.service = "auth" /\ r.access = "public"
      /\ r.call = r.to /\ r.call \in AuthOpen
  BY <1>1, <1>2, Forwarded
<1>4. IsPath(r.call.path, OpenNames)
  BY <1>3, OpenCalls
<1>5. r.call.path[1] \notin GuardedNames \cup {"users", "companies"}
  BY <1>4 DEF IsPath, OpenNames, GuardedNames
<1>6. r.to \notin Guarded(r.service)
  <2>1. \A c \in AuthGuarded \cup UserProfileGuarded :
            c.path[1] \in GuardedNames \cup {"users"}
    BY GuardedCalls, ProfilesKnown, Heads DEF IsPath
  <2>2. Guarded("auth") = AuthGuarded \cup UserProfileGuarded
    BY DEF Guarded
  <2> QED
    BY <1>3, <1>5, <2>1, <2>2
<1>7. r.to \notin Uploads
  BY <1>3, <1>5, NoUpload
<1>8. IsServed(r)
  BY <1>3 DEF IsServed, Served
<1>9. /\ PublicPath(r) \in Seq(Segment) /\ IsBelow(PublicPath(r), <<"auth">>)
      /\ PublicPath(r) \notin Multipart
  BY <1>3, <1>4, BelowService
<1>10. r.call \notin AnyMethod
  BY <1>4, AnyMethodApart DEF IsPath, OpenNames
<1>11. IsReached(r) <=> ~LeadsNowhere(r) /\ r.call.method # "PATCH"
  BY <1>3, <1>8, <1>10, MethodsOf, ReachedIf
<1> QED
  BY <1>3, <1>6, <1>7, <1>9, <1>11, AgreedIf

LEMMA SessionAgreed == \A r \in GatewayAuthSession : Agreed(r)
<1> DEFINE calls ==
        Calls("POST", {<<"change-password">>, <<"logout">>, <<"logout-all">>,
                       <<"2fa", "enable">>, <<"2fa", "verify">>,
                       <<"2fa", "disable">>, <<"trusted-countries">>})
        \cup Calls("GET", {<<"sessions">>, <<"trusted-countries">>})
        \cup Calls("DELETE", {<<"sessions", ":sessionId">>,
                              <<"trusted-countries", ":country">>})
<1>1. calls \subseteq AuthGuarded
  BY DEF AuthGuarded, SessionCalls, SecondFactorCalls, CountryCalls,
         ListedSessionCalls, Calls
<1>2. GatewayAuthSession = Forward("auth", "session", calls)
  BY DEF GatewayAuthSession
<1> HIDE DEF calls
<1> SUFFICES ASSUME NEW r \in GatewayAuthSession PROVE Agreed(r)
  OBVIOUS
<1>3. /\ r.service = "auth" /\ r.access = "session"
      /\ r.call = r.to /\ r.call \in AuthGuarded
  BY <1>1, <1>2, Forwarded
<1>4. IsPath(r.call.path, GuardedNames)
  BY <1>3, GuardedCalls
<1>5. r.to \notin Uploads
  BY <1>3, <1>4, NoUpload DEF IsPath, GuardedNames
<1>6. IsServed(r)
  BY <1>3 DEF IsServed, Served
<1>7. PublicPath(r) \in Seq(Segment) /\ PublicPath(r) \notin Multipart
  BY <1>3, <1>4, BelowService
<1>8. r.call \notin AnyMethod
  BY <1>4, AnyMethodApart DEF IsPath, GuardedNames
<1>9. IsReached(r) <=> ~LeadsNowhere(r) /\ r.call.method # "PATCH"
  BY <1>3, <1>6, <1>8, MethodsOf, ReachedIf
<1> QED
  BY <1>3, <1>5, <1>7, <1>9, AgreedIf

LEMMA UserAgreed == \A r \in GatewayUser : Agreed(r)
<1> DEFINE calls == {Call("POST", ProfilePath), Call("GET", ProfilePath),
                     Call("PATCH", ProfilePath),
                     Call("POST", Append(ProfilePath, "avatar"))}
<1>1. calls \subseteq UserProfileGuarded
  BY DEF UserProfileGuarded
<1>2. GatewayUser = Forward("auth", "session", calls)
  BY DEF GatewayUser
<1> HIDE DEF calls
<1> SUFFICES ASSUME NEW r \in GatewayUser PROVE Agreed(r)
  OBVIOUS
<1>3. /\ r.service = "auth" /\ r.access = "session"
      /\ r.call = r.to /\ r.call \in UserProfileGuarded
  BY <1>1, <1>2, Forwarded
<1>4. UserPath(r.call.path) /\ UploadKnown(r.call)
  BY <1>3, ProfilesKnown
<1>5. PublicPath(r) = r.call.path /\ PublicPath(r) \in Seq(Segment)
  BY <1>3, <1>4, AtRoot
<1>6. HasBody(r.call) => (PublicPath(r) \in Multipart <=> r.to \in Uploads)
  BY <1>3, <1>4, <1>5 DEF UploadKnown
<1>7. IsServed(r)
  BY <1>3 DEF IsServed, Served
<1>8. r.call \notin AnyMethod
  BY <1>4, Heads, AnyMethodApart
<1>9. IsReached(r) <=> ~LeadsNowhere(r) /\ r.call.method # "PATCH"
  BY <1>3, <1>7, <1>8, ProfilesKnown, MethodsOf, ReachedIf
<1> QED
  BY <1>3, <1>5, <1>6, <1>9, AgreedIf

LEMMA CompanyAgreed == \A r \in GatewayCompany : Agreed(r)
<1> DEFINE calls ==
        Calls("POST", {<<"companies">>, <<"companies", ":id", "logo">>,
                       <<"companies", ":id", "workers">>, MembersPath,
                       Append(MemberPath, "accept"), Append(MemberPath, "decline")})
        \cup Calls("GET", {<<"companies">>, <<"companies", ":id">>, MembersPath})
        \cup Calls("PATCH", {<<"companies", ":id">>, MemberPath})
        \cup Calls("DELETE", {<<"companies", ":id">>,
                              <<"companies", ":id", "logo">>, MemberPath})
<1>1. calls \subseteq CompanyCalls
  BY DEF CompanyCalls, CompanyGuarded, MembershipGuarded, Calls
<1>2. GatewayCompany = Forward("company", "session", calls)
  BY DEF GatewayCompany
<1> HIDE DEF calls
<1> SUFFICES ASSUME NEW r \in GatewayCompany PROVE Agreed(r)
  OBVIOUS
<1>3. /\ r.service = "company" /\ r.access = "session"
      /\ r.call = r.to /\ r.call \in CompanyCalls
  BY <1>1, <1>2, Forwarded
<1>4. CompanyPath(r.call.path) /\ UploadKnown(r.call)
  BY <1>3, CompaniesKnown
<1>5. PublicPath(r) = r.call.path /\ PublicPath(r) \in Seq(Segment)
  BY <1>3, <1>4, AtRoot
<1>6. HasBody(r.call) => (PublicPath(r) \in Multipart <=> r.to \in Uploads)
  BY <1>3, <1>4, <1>5 DEF UploadKnown
<1>7. IsServed(r)
  BY <1>3 DEF IsServed, Served, CompanyCalls
<1>8. r.call \notin AnyMethod
  BY <1>4, Heads, AnyMethodApart
<1>9. IsReached(r) <=> ~LeadsNowhere(r) /\ r.call.method # "PATCH"
  BY <1>3, <1>7, <1>8, MethodsOf, ReachedIf
<1> QED
  BY <1>3, <1>5, <1>6, <1>9, AgreedIf

LEMMA ConfigAgreed == \A r \in GatewayConfig : Agreed(r)
<1> DEFINE open == Calls("GET", {<<"maintenance", "status">>, <<"feature-flags">>})
           closed == {Route("config", "admin", c, Call(c.method, Joined(c.path))) :
                        c \in ConfigInternal \ open}
           calls == open \cup AnyMethod
<1>1. GatewayConfig = Forward("config", "public", calls) \cup closed
  BY DEF GatewayConfig
<1>2. open \subseteq ConfigInternal
  BY DEF ConfigInternal, MaintenanceInternal, FeatureFlagInternal, Calls
<1>3. \A c \in AnyMethod : IsPath(c.path, ConfigNames)
  <2>1. "maintenance" \in Segment /\ "status" \in Segment
    BY DEF Segment, ConfigNames
  <2>2. IsPath(<<"maintenance", "status">>, ConfigNames)
    BY <2>1, PathsOf DEF ConfigNames
  <2>3. \A c \in AnyMethod : c.path = <<"maintenance", "status">>
    BY DEF AnyMethod, Call
  <2> QED
    BY <2>2, <2>3
<1> HIDE DEF open
<1>4. Guarded("config") = {} /\ Served("config") = ConfigInternal
  BY DEF Guarded, Served
<1> SUFFICES ASSUME NEW r \in GatewayConfig PROVE Agreed(r)
  OBVIOUS
<1>5. /\ r.service = "config" /\ IsPath(r.call.path, ConfigNames)
      /\ IsReached(r) <=> ~LeadsNowhere(r) /\ r.call.method # "PATCH"
      /\ r.to.path[1] \in ConfigNames \cup {"segments,joined"}
  <2>1. CASE r \in Forward("config", "public", calls)
    <3>1. r.service = "config" /\ r.call = r.to /\ r.call \in open \cup AnyMethod
      <4> HIDE DEF calls
      <4>1. r.service = "config" /\ r.call = r.to /\ r.call \in calls
        BY <2>1, Forwarded
      <4> QED
        BY <4>1 DEF calls
    <3>2. IsPath(r.call.path, ConfigNames)
      BY <1>2, <1>3, <3>1, ConfigCalls
    <3>3. IsServed(r) <=> r.call \notin AnyMethod
      BY <1>2, <1>4, <3>1, AnyMethodApart DEF IsServed
    <3>4. r.access = "public"
      BY <2>1, Forwarded
    <3>5. r.call \notin AnyMethod => r.call.method \in ALLOWED_METHODS \ {"PATCH"}
      BY <1>2, <3>1, MethodsOf DEF ALLOWED_METHODS
    <3>6. IsReached(r) <=> ~LeadsNowhere(r) /\ r.call.method # "PATCH"
      BY <3>3, <3>4, <3>5 DEF IsReached, LeadsNowhere
    <3> QED
      BY <3>1, <3>2, <3>6 DEF IsPath
  <2>2. CASE r \in closed
    <3>1. PICK c \in ConfigInternal :
            r = Route("config", "admin", c, Call(c.method, Joined(c.path)))
      BY <2>2
    <3>2. /\ r.service = "config" /\ r.call = c /\ r.access = "admin"
          /\ r.to = Call(c.method, Joined(c.path)) /\ r.to.path = Joined(c.path)
      BY <3>1 DEF Route, Call
    <3>3. Joined(c.path)[1] \in ConfigNames \cup {"segments,joined"}
      BY ConfigCalls DEF Joined, IsPath
    <3>4. c.method \in ALLOWED_METHODS \ {"PATCH"} /\ c \notin AnyMethod
      BY MethodsOf, AnyMethodApart DEF ALLOWED_METHODS
    <3>5. CASE Len(c.path) = 1
      <4>1. Joined(c.path) = c.path
        BY <3>5 DEF Joined
      <4>2. Call(c.method, c.path) = c
        BY DEF ConfigInternal, MaintenanceInternal, FeatureFlagInternal, Calls, Call
      <4>3. IsServed(r)
        BY <1>4, <3>2, <4>1, <4>2 DEF IsServed
      <4>4. IsReached(r) /\ ~LeadsNowhere(r) /\ r.call.method # "PATCH"
        BY <3>2, <3>4, <3>5, <4>3 DEF IsReached, LeadsNowhere
      <4> QED
        BY <3>2, <3>3, <4>4, ConfigCalls
    <3>6. CASE Len(c.path) # 1
      <4>1. Len(c.path) > 1
        <5>1. Len(c.path) \in Nat \ {0}
          BY <3>1, ConfigCalls DEF IsPath
        <5>2. \A n \in Nat \ {0} : n # 1 => n > 1
          OBVIOUS
        <5> QED
          BY <3>6, <5>1, <5>2, Zenon
      <4>2. r.to.path[1] = "segments,joined"
        <5>1. r.to.path = <<"segments,joined">>
          BY <3>2, <3>6 DEF Joined
        <5>2. <<"segments,joined">>[1] = "segments,joined"
          OBVIOUS
        <5> QED
          BY <5>1, <5>2, Zenon
      <4>3. ~IsServed(r)
        <5>1. \A x \in ConfigInternal : x.path[1] # "segments,joined"
          BY ConfigCalls DEF IsPath, ConfigNames
        <5> QED
          BY <1>4, <3>2, <4>2, <5>1 DEF IsServed
      <4>4. ~IsReached(r) /\ LeadsNowhere(r)
        BY <3>2, <4>1, <4>3 DEF IsReached, LeadsNowhere
      <4> QED
        BY <3>2, <3>3, <4>4, ConfigCalls
    <3> QED
      BY <3>5, <3>6
  <2> QED
    BY <1>1, <2>1, <2>2
<1>6. r.to \notin Uploads
  BY <1>5, NoUpload DEF ConfigNames
<1>7. PublicPath(r) \in Seq(Segment) /\ PublicPath(r) \notin Multipart
  BY <1>5, BelowService
<1>8. r.call # Call("POST", <<"refresh">>)
  <2>1. r.call.path[1] # "refresh"
    BY <1>5 DEF IsPath, ConfigNames
  <2>2. Call("POST", <<"refresh">>).path[1] = "refresh"
    BY DEF Call
  <2> QED
    BY <2>1, <2>2
<1> HIDE DEF closed, calls
<1>9. r.service \in {"auth", "company", "config"} /\ r.to \notin Guarded(r.service)
  BY <1>4, <1>5
<1>10. IsReached(r) <=> ~LeadsNowhere(r) /\ r.call.method # "PATCH"
  BY <1>5
<1> QED
  BY <1>6, <1>7, <1>8, <1>9, <1>10, AgreedIf

(* A route of the gateway reaches a handler of the service behind it unless *)
(* it is one of three kinds: what the wildcard of ConfigController joins, a  *)
(* method other than GET that @All takes for maintenance/status, and PATCH,  *)
(* which methodGuardMiddleware refuses.  The only header that a service acts *)
(* on and does not get is x-forwarded-proto, at auth-service.  No route is   *)
(* public whose call the service guards; the content type and the cookies    *)
(* that a handler needs get through.                                         *)
THEOREM RoutesAgreed == \A r \in Routes : Agreed(r)
BY PublicAgreed, SessionAgreed, UserAgreed, CompanyAgreed, ConfigAgreed DEF Routes

=============================================================================

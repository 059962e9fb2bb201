--------------------------- MODULE ErrorCatalogue ---------------------------
(***************************************************************************)
(* The errors of the services: the code and the HTTP status each is raised *)
(* with, what the exception filter of a service answers, and what the      *)
(* proxies of the gateway make of that answer or of its absence.           *)
(***************************************************************************)
EXTENDS Naturals

Error(code, status) == [code |-> code, status |-> status]

Errors(status, codes) == {Error(c, status) : c \in codes}

-----------------------------------------------------------------------------
(* shared/errors.                                                          *)

HttpStatus ==
    {400, 401, 403, 404, 405, 409, 415, 422, 429, 500, 502, 503, 504}

HttpErrorMapper ==
    [s \in HttpStatus |->
        CASE s = 400 ->
                {"VALIDATION_ERROR", "INVALID_REQUEST_PATH", "MALFORMED_URL",
                 "DEVICE_FINGERPRINT_REQUIRED",
                 "TWO_FACTOR_CREDENTIAL_REQUIRED", "INVALID_VERIFICATION_TOKEN",
                 "INVALID_PASSWORD_RESET_TOKEN"}
          [] s = 401 ->
                {"UNAUTHORIZED", "INVALID_CREDENTIALS", "INVALID_REFRESH_TOKEN",
                 "INVALID_CURRENT_PASSWORD", "INVALID_TOTP_CODE",
                 "INVALID_RECOVERY_CODE", "INVALID_CHALLENGE_TOKEN"}
          [] s = 403 ->
                {"FORBIDDEN", "DEVICE_NOT_TRUSTED", "USER_BLOCKED",
                 "COUNTRY_NOT_TRUSTED", "SECURITY_CHALLENGE_REQUIRED",
                 "PASSWORD_CHANGE_REQUIRED", "EMAIL_NOT_VERIFIED"}
          [] s = 404 ->
                {"NOT_FOUND", "TRUSTED_COUNTRY_NOT_FOUND", "SESSION_NOT_FOUND",
                 "USER_PROFILE_NOT_FOUND", "COMPANY_NOT_FOUND",
                 "MEMBERSHIP_NOT_FOUND", "USER_NOT_FOUND"}
          [] s = 405 -> {"METHOD_NOT_ALLOWED"}
          [] s = 409 ->
                {"CONFLICT", "EMAIL_ALREADY_EXISTS",
                 "TWO_FACTOR_ALREADY_ENABLED", "TRUSTED_COUNTRY_ALREADY_EXISTS",
                 "EMAIL_ALREADY_VERIFIED", "USER_PROFILE_ALREADY_EXISTS",
                 "MEMBERSHIP_ALREADY_EXISTS", "TAX_ID_ALREADY_REGISTERED"}
          [] s = 415 -> {"UNSUPPORTED_MEDIA_TYPE"}
          [] s = 422 ->
                {"SAME_PASSWORD_NOT_ALLOWED", "TWO_FACTOR_NOT_ENABLED",
                 "TWO_FACTOR_SETUP_NOT_INITIATED",
                 "TRUSTED_COUNTRY_LIMIT_REACHED"}
          [] s = 429 -> {"TOO_MANY_REQUESTS"}
          [] s = 500 -> {"INTERNAL_ERROR"}
          [] s = 502 -> {"BAD_GATEWAY"}
          [] s = 503 -> {"SERVICE_UNAVAILABLE"}
          [] s = 504 -> {"GATEWAY_TIMEOUT"}]

ErrorCode == UNION {HttpErrorMapper[s] : s \in HttpStatus}

\* 422 is the one status that has no code of its own.
getErrorCodeFromHttpStatus(status) ==
    CASE status = 400 -> "VALIDATION_ERROR"
      [] status = 422 -> "VALIDATION_ERROR"
      [] status = 401 -> "UNAUTHORIZED"
      [] status = 403 -> "FORBIDDEN"
      [] status = 404 -> "NOT_FOUND"
      [] status = 405 -> "METHOD_NOT_ALLOWED"
      [] status = 409 -> "CONFLICT"
      [] status = 415 -> "UNSUPPORTED_MEDIA_TYPE"
      [] status = 429 -> "TOO_MANY_REQUESTS"
      [] status = 502 -> "BAD_GATEWAY"
      [] status = 503 -> "SERVICE_UNAVAILABLE"
      [] status = 504 -> "GATEWAY_TIMEOUT"
      [] OTHER        -> "INTERNAL_ERROR"

-----------------------------------------------------------------------------
(* The factories of the domains.                                           *)

LoginErrors ==
    Errors(401, {"INVALID_CREDENTIALS", "INVALID_REFRESH_TOKEN",
                 "INVALID_CURRENT_PASSWORD"})
    \cup Errors(403, {"USER_BLOCKED", "DEVICE_NOT_TRUSTED",
                      "COUNTRY_NOT_TRUSTED", "SECURITY_CHALLENGE_REQUIRED"})
    \cup {Error("DEVICE_FINGERPRINT_REQUIRED", 400),
          Error("EMAIL_ALREADY_EXISTS", 409)}

PasswordErrors == {Error("PASSWORD_CHANGE_REQUIRED", 403),
                   Error("SAME_PASSWORD_NOT_ALLOWED", 422)}

SecondFactorErrors ==
    Errors(401, {"INVALID_TOTP_CODE", "INVALID_RECOVERY_CODE",
                 "INVALID_CHALLENGE_TOKEN"})
    \cup Errors(422, {"TWO_FACTOR_NOT_ENABLED",
                      "TWO_FACTOR_SETUP_NOT_INITIATED"})
    \cup {Error("TWO_FACTOR_ALREADY_ENABLED", 409),
          Error("TWO_FACTOR_CREDENTIAL_REQUIRED", 400)}

AccountErrors ==
    Errors(400, {"INVALID_VERIFICATION_TOKEN", "INVALID_PASSWORD_RESET_TOKEN"})
    \cup Errors(404, {"TRUSTED_COUNTRY_NOT_FOUND", "SESSION_NOT_FOUND",
                      "USER_PROFILE_NOT_FOUND", "USER_NOT_FOUND"})
    \cup Errors(409, {"TRUSTED_COUNTRY_ALREADY_EXISTS",
                      "EMAIL_ALREADY_VERIFIED",
                      "USER_PROFILE_ALREADY_EXISTS"})
    \cup {Error("TRUSTED_COUNTRY_LIMIT_REACHED", 422),
          Error("EMAIL_NOT_VERIFIED", 403)}

\* notCompanyOwner and the other rules about roles share a code.
CompanyErrors ==
    {Error("VALIDATION_ERROR", 400), Error("FORBIDDEN", 403),
     Error("SERVICE_UNAVAILABLE", 503)}
    \cup Errors(404, {"COMPANY_NOT_FOUND", "MEMBERSHIP_NOT_FOUND",
                      "USER_NOT_FOUND"})
    \cup Errors(409, {"MEMBERSHIP_ALREADY_EXISTS", "CONFLICT",
                      "TAX_ID_ALREADY_REGISTERED"})

ConfigErrors == {Error("NOT_FOUND", 404), Error("CONFLICT", 409),
                 Error("VALIDATION_ERROR", 422)}

DomainErrors == LoginErrors \cup PasswordErrors \cup SecondFactorErrors
                \cup AccountErrors \cup CompanyErrors \cup ConfigErrors

-----------------------------------------------------------------------------
(* The answer of a service.                                                *)

\* What is thrown: an error of the domain, an HttpException of Nest (with or
\* without a code in its body), or anything else.
Thrown(kind, error, coded) == [kind |-> kind, error |-> error, coded |-> coded]

\* The code of an HttpException whose body was not made by errorResponse.
normalizeHttpException(x) ==
    Error(IF x.coded THEN x.error.code
          ELSE getErrorCodeFromHttpStatus(x.error.status), x.error.status)

\* GlobalExceptionFilter.catch.
catch(x) ==
    CASE x.kind = "domain" -> x.error
      [] x.kind = "http"   -> normalizeHttpException(x)
      [] x.kind = "other"  -> Error("INTERNAL_ERROR", 500)

-----------------------------------------------------------------------------
(* The answer of the gateway.                                              *)

\* Fault: the gateway says with its own words what the service has said.
Rephrase(answer) ==
    Error(getErrorCodeFromHttpStatus(answer.status), answer.status)

\* An answer made by errorResponse is thrown as it is, and the filter of the
\* gateway sends the error in it on.
throwAxiosResponseError(answer) == answer

\* No answer: the breaker is open, the service does not answer, the request
\* was never sent, or something else went wrong.
Failures == {"open", "no_response", "not_sent", "unknown"}

Unavailable == Error("SERVICE_UNAVAILABLE", 503)
BadGateway  == Error("BAD_GATEWAY", 502)

AuthUnreachable(failure) ==
    IF failure \in {"open", "no_response"} THEN Unavailable ELSE BadGateway

CompanyUnreachable(failure) ==
    IF failure \in {"open", "no_response"} THEN Unavailable ELSE BadGateway

ConfigUnreachable(failure) ==
    IF failure = "unknown" THEN BadGateway ELSE Unavailable

\* What ResilientHttpClient repeats when it was a read.
IsRepeated(error) == error.status >= 500

-----------------------------------------------------------------------------

\* The status a code stands for, whatever service raises it.  A range of dates
\* that ends before it begins is the exception: VALIDATION_ERROR with 422.
StandsFor(error) ==
    \/ error.code \in HttpErrorMapper[error.status]
    \/ error = Error("VALIDATION_ERROR", 422)

\* What a service decides reaches the client with its code and its status and
\* is not asked for again; only that the directory of accounts is out of reach
\* is.  A failure on the way is never taken for a decision, and is.
ErrorsAgree ==
    /\ \A e \in DomainErrors :
        /\ e.code \in ErrorCode /\ StandsFor(e)
        /\ throwAxiosResponseError(catch(Thrown("domain", e, TRUE))) = e
        /\ IsRepeated(e) => e = Unavailable
    /\ \A s \in HttpStatus :
        LET e == catch(Thrown("http", Error("none", s), FALSE)) IN
            e.status = s /\ StandsFor(e)
    /\ \A f \in Failures :
        \A e \in {AuthUnreachable(f), CompanyUnreachable(f),
                  ConfigUnreachable(f)} : IsRepeated(e) /\ StandsFor(e)

=============================================================================

---------------------------- MODULE SignedTokens ----------------------------
(***************************************************************************)
(* The tokens that auth-service signs and whoever verifies them: which     *)
(* secret and audience each has, which claims it carries, and which of     *)
(* them a verifier goes by.  The two secrets are different values.         *)
(***************************************************************************)

Token(secret, audience, claims, reason) ==
    [secret |-> secret, audience |-> audience, claims |-> claims,
     reason |-> reason]

generateAccessToken ==
    Token("JWT_ACCESS_SECRET", "api-gateway", {"sub", "sid", "role"}, "none")

generateRefreshToken == Token("JWT_REFRESH_SECRET", "none", {"jti"}, "none")

\* One signature for two challenges, told apart by the reason they carry.
generateChallengeToken(reason) ==
    Token("JWT_ACCESS_SECRET", "mfa-challenge",
          {"sub", "fp", "country", "reason"}, reason)

Reasons == {"NEW_DEVICE", "UNTRUSTED_DEVICE", "UNTRUSTED_COUNTRY",
            "TWO_FACTOR_REQUIRED"}

LoginChallenges == {generateChallengeToken(r) : r \in Reasons}
ChangeToken     == generateChallengeToken("PASSWORD_CHANGE_REQUIRED")

Tokens == {generateAccessToken, generateRefreshToken, ChangeToken}
          \cup LoginChallenges

\* verify of jsonwebtoken: the audience is looked at if the caller names one.
Verified(secret, audience) ==
    {t \in Tokens : /\ t.secret = secret
                    /\ audience # "any" => t.audience = audience}

\* JwtSessionGuard wants the role, too; the guards of the services do not.
SessionGuardTakes ==
    {t \in Verified("JWT_ACCESS_SECRET", "api-gateway") :
        {"sub", "sid", "role"} \subseteq t.claims}

ServiceGuardTakes ==
    {t \in Verified("JWT_ACCESS_SECRET", "api-gateway") :
        {"sub", "sid"} \subseteq t.claims}

verifyRefreshToken == Verified("JWT_REFRESH_SECRET", "any")

verifyChallengeToken == Verified("JWT_ACCESS_SECRET", "mfa-challenge")

\* VerifyLoginChallengeUseCase.decodeChallengeToken goes by no reason.
LoginChallengeTakes == verifyChallengeToken

decodeChangeToken ==
    {t \in verifyChallengeToken : t.reason = "PASSWORD_CHANGE_REQUIRED"}

-----------------------------------------------------------------------------

\* What each verifier takes.  The two that share a secret are kept apart by
\* their audience, and a change of the password is let in only with the token
\* made for it.  The second step of a login is not so exact: it takes the
\* token for a change of the password as well.
TokensAgree ==
    /\ SessionGuardTakes = {generateAccessToken}
    /\ ServiceGuardTakes = SessionGuardTakes
    /\ verifyRefreshToken = {generateRefreshToken}
    /\ decodeChangeToken = {ChangeToken}
    /\ LoginChallengeTakes = LoginChallenges \cup {ChangeToken}

=============================================================================

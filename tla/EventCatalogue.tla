--------------------------- MODULE EventCatalogue ---------------------------
(***************************************************************************)
(* The domain events of auth-service (and the invitation of                *)
(* company-service), who listens to each, the mail template a listener     *)
(* asks for, and what notification-service knows of that template.         *)
(***************************************************************************)

\* One handler of NotificationListener: the event it is for, the template it
\* names, the variables it sends along, and whether it has to look the
\* address up first (the event carries only the user's id).
Mail(event, looks_up, template, supplies) ==
    [event |-> event, looks_up |-> looks_up,
     template |-> template, supplies |-> supplies]

Account == {"email", "ip", "country"}

AccountMails ==
    {Mail("UserRegistered", FALSE, "welcome",
          Account \cup {"registeredAt", "verificationUrl"}),
     Mail("PasswordChanged", TRUE, "password-changed",
          Account \cup {"changedAt"}),
     Mail("LoginBlocked", TRUE, "account-locked",
          Account \cup {"blockedUntil"})}

SecondFactorMails ==
    {Mail("TwoFactorEnabled", TRUE, "2fa-enabled",
          Account \cup {"enabledAt"}),
     Mail("TwoFactorDisabled", TRUE, "2fa-disabled",
          Account \cup {"disabledAt"}),
     Mail("RecoveryCodesRegenerated", TRUE, "recovery-codes-regenerated",
          Account \cup {"regeneratedAt"})}

LinkMails ==
    {Mail("VerificationEmailRequested", FALSE, "welcome",
          Account \cup {"registeredAt", "verificationUrl"}),
     Mail("WorkerProvisioned", FALSE, "worker-provisioned",
          {"firstName", "companyName", "loginEmail", "tempPassword",
           "appUrl"}),
     Mail("PasswordResetRequested", FALSE, "password-reset",
          {"email", "requestedAt", "resetUrl"})}

\* company-service asks for it itself, after it has looked the company up.
InvitationMail ==
    Mail("MembershipInvited", TRUE, "membership-invited",
         {"companyName", "role"})

Mails == AccountMails \cup SecondFactorMails \cup LinkMails
         \cup {InvitationMail}

-----------------------------------------------------------------------------
(* The templates.  A variable that a template prints and that is not there *)
(* becomes a dash, so the mail goes out with a hole in it; without its     *)
(* link the button is left out.                                            *)

Template(name, prints, links) ==
    [name |-> name, prints |-> prints, links |-> links]

WelcomeEmail ==
    Template("welcome", Account \cup {"registeredAt"}, {"verificationUrl"})

PasswordChangedEmail ==
    Template("password-changed", Account \cup {"changedAt"}, {})

PasswordResetEmail ==
    Template("password-reset", {"email", "requestedAt"}, {"resetUrl"})

TwoFactorEnabledEmail ==
    Template("2fa-enabled", Account \cup {"enabledAt"}, {})

TwoFactorDisabledEmail ==
    Template("2fa-disabled", Account \cup {"disabledAt"}, {})

RecoveryCodesRegeneratedEmail ==
    Template("recovery-codes-regenerated", Account \cup {"regeneratedAt"}, {})

AccountLockedEmail ==
    Template("account-locked", {"blockedUntil", "ip", "country"}, {})

MaintenanceEmail ==
    Template("maintenance", {"message", "scheduledAt", "duration"}, {})

OtpCodeEmail == Template("otp-code", {"code", "expiresIn"}, {})

WorkerProvisionedEmail ==
    Template("worker-provisioned",
             {"firstName", "companyName", "loginEmail", "tempPassword"},
             {"appUrl"})

MembershipInvitedEmail ==
    Template("membership-invited", {"companyName", "role"}, {"appUrl"})

TEMPLATES ==
    {WelcomeEmail, PasswordChangedEmail, PasswordResetEmail,
     TwoFactorEnabledEmail, TwoFactorDisabledEmail,
     RecoveryCodesRegeneratedEmail, AccountLockedEmail, MaintenanceEmail,
     OtpCodeEmail, WorkerProvisionedEmail, MembershipInvitedEmail}

Renders(mail) == \E t \in TEMPLATES : t.name = mail.template

\* The link to the application only saves typing its address, and no mail
\* but the worker's carries it; a link with a token is all the mail is for.
Optional == {"appUrl"}

\* Nothing the template needs is missing.
IsComplete(mail) ==
    \E t \in TEMPLATES :
        /\ t.name = mail.template
        /\ t.prints \cup (t.links \ Optional) \subseteq mail.supplies

-----------------------------------------------------------------------------
(* The audit trail.                                                        *)

\* AuthActivityReportFactory: the action and the outcome it files for an
\* event.
Report(event, action, outcome) ==
    [event |-> event, action |-> action, outcome |-> outcome]

AttemptReports ==
    {Report("LoginAttempted", "LOGIN_ATTEMPT", "INFO"),
     Report("LoginSucceeded", "LOGIN_SUCCESS", "SUCCESS"),
     Report("LoginFailed",    "LOGIN_FAILED",  "FAILURE")}

BlockedReport == Report("LoginBlocked", "LOGIN_BLOCKED", "BLOCKED")

LoginReports == AttemptReports \cup {BlockedReport}

AccountReports ==
    {Report("PasswordChanged",      "PASSWORD_CHANGED",       "SUCCESS"),
     Report("PasswordChangeFailed", "PASSWORD_CHANGE_FAILED", "FAILURE"),
     Report("Logout",               "LOGOUT",                 "SUCCESS"),
     Report("LogoutAll",            "LOGOUT_ALL",             "SUCCESS")}

SecondFactorReports ==
    {Report("TwoFactorEnabled",  "TWO_FACTOR_ENABLED",  "SUCCESS"),
     Report("TwoFactorVerified", "TWO_FACTOR_SUCCESS",  "SUCCESS"),
     Report("TwoFactorDisabled", "TWO_FACTOR_DISABLED", "SUCCESS"),
     Report("RecoveryCodesRegenerated", "RECOVERY_CODES_REGENERATED",
            "SUCCESS")}

\* Filed by RegisterUserUseCase itself, which waits for it: a success before
\* it publishes the event, a refusal before it answers as if all were well.
RegisterSuccess == Report("UserRegistered",  "REGISTER_SUCCESS", "SUCCESS")
RegisterFailed  == Report("RegisterRefused", "REGISTER_FAILED",  "FAILURE")

RegisterReports == {RegisterSuccess, RegisterFailed}

\* Filed by the exception filter beside the answer.
ChallengeReport ==
    Report("SecurityChallenge", "LOGIN_SECURITY_CHALLENGE_REQUIRED",
           "REJECTED")

FilterReports ==
    {ChallengeReport, Report("InternalError", "INTERNAL_ERROR", "FAILURE")}

\* A report is filed for an event only if a listener hears of it.
AuthActivityListener ==
    {"LoginAttempted", "LoginSucceeded", "LoginFailed", "LoginBlocked"}

PasswordChangeListener == {"PasswordChanged", "PasswordChangeFailed"}

LogoutListener == {"Logout", "LogoutAll"}

TwoFactorListener ==
    {"TwoFactorEnabled", "TwoFactorVerified", "TwoFactorDisabled",
     "RecoveryCodesRegenerated"}

Heard == AuthActivityListener \cup PasswordChangeListener
         \cup LogoutListener \cup TwoFactorListener

Reports ==
    {r \in LoginReports \cup AccountReports \cup SecondFactorReports :
        r.event \in Heard}
    \cup RegisterReports \cup FilterReports

\* What the use cases publish, the invitation, and what is only filed.
Events == {m.event : m \in Mails} \cup {r.event : r \in Reports}

=============================================================================

----------------------------- MODULE TwoFactor -----------------------------
(***************************************************************************)
(* The second factor of one account of auth-service: enrolling, activating *)
(* and disabling it, its recovery codes, and the part of the login that    *)
(* depends on it - the challenge, its answer, the trusted devices and the  *)
(* trusted countries.                                                      *)
(*                                                                         *)
(* Begins where UserAccount ends: the password of every request below was  *)
(* right and the account is ACTIVE; a request for which that is not so is  *)
(* refused and changes nothing.  What completeLoginSession does to the     *)
(* sessions is in SessionTokens, here it is one step.                      *)
(***************************************************************************)
EXTENDS Naturals, FiniteSets, Functions

CONSTANTS
    Devices,            \* fingerprints
    NoDevice,
    Countries,
    NoCountry,          \* the gateway did not find out the country
    Origins,            \* pairs of device and country that logins come from
    Procs,              \* requests being served at the same time
    MaxTrusted,         \* MAX_TRUSTED_COUNTRIES
    PerLot,             \* RECOVERY_CODE_COUNT
    MaxChallenges,      \* bound: challenge tokens out at the same time
    MaxSecrets,         \* bound: TOTP secrets ever generated
    MaxLots             \* bound: lots of recovery codes ever created

ASSUME BoundsAreNat ==
    /\ MaxTrusted \in Nat /\ PerLot \in Nat
    /\ MaxChallenges \in Nat /\ MaxSecrets \in Nat /\ MaxLots \in Nat

ASSUME NullsDiffer == NoCountry \notin Countries /\ NoDevice \notin Devices

ASSUME OriginsArePairs ==
    Origins \subseteq Devices \X (Countries \cup {NoCountry})

VARIABLES
    sec,                \* the secret columns of the row of UserSecurity
    countries,          \* its column trustedCountries: how often the list
                        \* names each country (nothing depends on its order)
    codes,              \* the table RecoveryCode
    devices,            \* the table Device
    challenges,         \* challenge tokens that have not expired
    secrets,            \* secrets so far; secret s is the s-th
    lots,               \* lots so far
    op,                 \* op[p]: the request p is serving
    \* History, read by properties only.
    proved,             \* secrets for which an activation saw a right code
    asked,              \* countries, as the requests that wrote them asked
    hurt                \* what a stale or unfinished request has written

history == <<proved, asked, hurt>>
vars == <<sec, countries, codes, devices, challenges, secrets, lots, op,
          proved, asked, hurt>>

-----------------------------------------------------------------------------
(* Types.                                                                  *)

NoSecret == 0
Secrets  == 1..MaxSecrets
NoCode   == <<0, 0>>
Codes    == (1..MaxLots) \X (1..PerLot)

SecurityRow == [enabled : BOOLEAN, secret : 0..MaxSecrets,
                pending : 0..MaxSecrets]

\* Requests that go on to write the secret columns, on the strength of what
\* they have read of them; to write the codes; to write the countries.
SecretPC  == {"enable_save", "activate_read", "activate_write",
              "disable_totp", "disable_write"}
CodePC    == {"codes_delete", "codes_create", "disable_codes"}
CountryPC == {"login_device", "session", "country_push", "country_write"}
PC == {"idle", "login_profile", "answer_factor", "code_mark", "answer_device",
       "answer_country", "country_again", "regen_totp"}
      \cup SecretPC \cup CodePC \cup CountryPC

List      == [Countries -> Nat]
EmptyList == [c \in Countries |-> 0]

Op == [pc      : PC,
       stale   : BOOLEAN,               \* what it read has been overwritten
       guarded : BOOLEAN,               \* the factor was on ever since it began
       secret  : 0..MaxSecrets,
       code    : Codes \cup {NoCode},
       dead    : BOOLEAN,               \* the code was dead when it began
       dev     : Devices \cup {NoDevice},
       country : Countries \cup {NoCountry},
       two     : BOOLEAN,               \* twoFactorEnabled, as it was read
       odd     : BOOLEAN,               \* the country is not a trusted one
       first   : BOOLEAN,               \* there was no trusted country yet
       fresh   : BOOLEAN,               \* the device has to be inserted
       proven  : BOOLEAN,               \* a factor was right
       list    : List]                  \* the list as read by a removal

\* device is always trusted: the callers of Device.create all say so.
Challenge == [dev : Devices, country : Countries \cup {NoCountry}]

TypeOK ==
    /\ sec \in SecurityRow
    /\ countries \in List
    /\ codes \in [Codes -> {"none", "unused", "used"}]
    /\ devices \subseteq Devices
    /\ challenges \subseteq Challenge
    /\ secrets \in 0..MaxSecrets /\ lots \in 0..MaxLots
    /\ op \in [Procs -> Op]
    /\ proved \subseteq Secrets
    /\ asked \subseteq Countries
    /\ hurt \subseteq {"secret", "codes", "countries"}

Idle == [pc |-> "idle", stale |-> FALSE, guarded |-> FALSE,
         secret |-> NoSecret, code |-> NoCode, dead |-> FALSE,
         dev |-> NoDevice, country |-> NoCountry,
         two |-> FALSE, odd |-> FALSE, first |-> FALSE, fresh |-> FALSE,
         proven |-> FALSE, list |-> EmptyList]

\* An account that RegisterUserUseCase has created: the device it was created
\* on and its country are trusted, each when it is known.
Init ==
    /\ sec = [enabled |-> FALSE, secret |-> NoSecret, pending |-> NoSecret]
    /\ \E home \in Origins :
        /\ devices \in {{}, {home[1]}}
        /\ countries = [c \in Countries |-> IF c = home[2] THEN 1 ELSE 0]
        /\ asked = {home[2]} \ {NoCountry}
    /\ codes = [c \in Codes |-> "none"]
    /\ challenges = {}
    /\ secrets = 0 /\ lots = 0
    /\ op = [p \in Procs |-> Idle]
    /\ proved = {} /\ hurt = {}

-----------------------------------------------------------------------------
(* Steps of a request.                                                     *)

At(p, pc)  == op[p].pc = pc
Goto(p, new) == op' = [op EXCEPT ![p] = new]
Done(p)    == Goto(p, Idle)
Move(p, pc) == Goto(p, [op[p] EXCEPT !.pc = pc])
Begun(pc)  == [Idle EXCEPT !.pc = pc]

\* p writes what the other requests at pcs have read: from now on they are
\* stale.  When p is stale itself, its write is recorded as harmful.
Overwrite(p, new, pcs, what) ==
    /\ op' = [q \in Procs |->
                IF q = p THEN new
                ELSE IF op[q].pc \in pcs THEN [op[q] EXCEPT !.stale = TRUE]
                ELSE op[q]]
    /\ hurt' = IF op[p].stale THEN hurt \cup {what} ELSE hurt

Present(c) == codes[c] # "none"

\* TotpService.verifyToken on a code of the secret in use; without one no code
\* is right.
RightTotp == sec.secret # NoSecret

-----------------------------------------------------------------------------
(* Enrolling: Enable2faUseCase.                                            *)

EnableRead(p) ==
    /\ At(p, "idle") /\ ~sec.enabled
    /\ Goto(p, Begun("enable_save"))
    /\ UNCHANGED <<sec, countries, codes, devices, challenges, secrets, lots>>
    /\ UNCHANGED history

\* saveTotpPendingSecret; the answer shows the new secret to the user.
EnableSave(p) ==
    /\ At(p, "enable_save") /\ secrets < MaxSecrets
    /\ secrets' = secrets + 1
    /\ sec' = [sec EXCEPT !.pending = secrets + 1]
    /\ Overwrite(p, Idle, SecretPC, "secret")
    /\ UNCHANGED <<countries, codes, devices, challenges, lots, proved, asked>>

-----------------------------------------------------------------------------
(* Activating: Verify2faUseCase.                                           *)

\* The user types a code of one of the secrets shown so far; it is right when
\* that secret is the pending one.
VerifyRead(p) ==
    /\ At(p, "idle") /\ sec.pending # NoSecret
    /\ Goto(p, [Begun("activate_read") EXCEPT !.secret = sec.pending])
    /\ proved' = proved \cup {sec.pending}
    /\ UNCHANGED <<sec, countries, codes, devices, challenges, secrets, lots,
                   asked, hurt>>

\* activateTwoFactor reads the pending secret again, and takes null if it is
\* gone.
ActivateRead(p) ==
    /\ At(p, "activate_read")
    /\ Goto(p, [op[p] EXCEPT !.pc = "activate_write", !.secret = sec.pending])
    /\ UNCHANGED <<sec, countries, codes, devices, challenges, secrets, lots>>
    /\ UNCHANGED history

\* Fault: the secret stays pending.
ActivateKeepsPending(p) ==
    /\ At(p, "activate_write")
    /\ sec' = [sec EXCEPT !.enabled = TRUE]
    /\ Overwrite(p, [Idle EXCEPT !.pc = "codes_delete"],
                 SecretPC, "secret")
    /\ UNCHANGED <<countries, codes, devices, challenges, secrets, lots,
                   proved, asked>>

ActivateWrite(p) ==
    /\ At(p, "activate_write")
    /\ sec' = [enabled |-> TRUE, secret |-> op[p].secret,
               pending |-> NoSecret]
    /\ Overwrite(p, [Idle EXCEPT !.pc = "codes_delete"],
                 SecretPC, "secret")
    /\ UNCHANGED <<countries, codes, devices, challenges, secrets, lots,
                   proved, asked>>

-----------------------------------------------------------------------------
(* Recovery codes: deleteAllByUser and createMany, called one after the    *)
(* other by Verify2faUseCase and RegenerateRecoveryCodesUseCase.           *)

CodesDelete(p) ==
    /\ At(p, "codes_delete")
    /\ codes' = [c \in Codes |-> "none"]
    /\ Overwrite(p, [op[p] EXCEPT !.pc = "codes_create"], CodePC, "codes")
    /\ UNCHANGED <<sec, countries, devices, challenges, secrets, lots, proved,
                   asked>>

CodesCreate(p) ==
    /\ At(p, "codes_create") /\ lots < MaxLots
    /\ lots' = lots + 1
    /\ codes' = [c \in Codes |-> IF c[1] = lots + 1 THEN "unused" ELSE codes[c]]
    /\ Overwrite(p, Idle, CodePC, "codes")
    /\ UNCHANGED <<sec, countries, devices, challenges, secrets, proved, asked>>

\* RegenerateRecoveryCodesUseCase asks for a code of the active secret.
RegenerateRead(p) ==
    /\ At(p, "idle") /\ sec.enabled
    /\ Goto(p, Begun("regen_totp"))
    /\ UNCHANGED <<sec, countries, codes, devices, challenges, secrets, lots>>
    /\ UNCHANGED history

RegenerateTotp(p) ==
    /\ At(p, "regen_totp")
    /\ IF RightTotp THEN Move(p, "codes_delete") ELSE Done(p)
    /\ UNCHANGED <<sec, countries, codes, devices, challenges, secrets, lots>>
    /\ UNCHANGED history

-----------------------------------------------------------------------------
(* Disabling: Disable2faUseCase.                                           *)

DisableRead(p) ==
    /\ At(p, "idle") /\ sec.enabled
    /\ Goto(p, Begun("disable_totp"))
    /\ UNCHANGED <<sec, countries, codes, devices, challenges, secrets, lots>>
    /\ UNCHANGED history

DisableTotp(p) ==
    /\ At(p, "disable_totp")
    /\ IF RightTotp THEN Move(p, "disable_write") ELSE Done(p)
    /\ UNCHANGED <<sec, countries, codes, devices, challenges, secrets, lots>>
    /\ UNCHANGED history

\* From here on no request can rely on the factor being on.
DisableWrite(p) ==
    /\ At(p, "disable_write")
    /\ sec' = [enabled |-> FALSE, secret |-> NoSecret, pending |-> NoSecret]
    /\ op' = [q \in Procs |->
                IF q = p
                THEN [Idle EXCEPT !.pc = "disable_codes"]
                ELSE [op[q] EXCEPT !.guarded = FALSE,
                                   !.stale = @ \/ op[q].pc \in SecretPC]]
    /\ hurt' = IF op[p].stale THEN hurt \cup {"secret"} ELSE hurt
    /\ UNCHANGED <<countries, codes, devices, challenges, secrets, lots,
                   proved, asked>>

\* Fault: the codes are left behind.
DisableForgetsCodes(p) ==
    /\ At(p, "disable_codes")
    /\ Overwrite(p, Idle, CodePC, "codes")
    /\ UNCHANGED <<sec, countries, codes, devices, challenges, secrets, lots,
                   proved, asked>>

DisableCodes(p) ==
    /\ At(p, "disable_codes")
    /\ codes' = [c \in Codes |-> "none"]
    /\ Overwrite(p, Idle, CodePC, "codes")
    /\ UNCHANGED <<sec, countries, devices, challenges, secrets, lots, proved,
                   asked>>

-----------------------------------------------------------------------------
(* Login, after the password: LoginUserUseCase.                            *)

LoginBegin(p) ==
    /\ At(p, "idle")
    /\ \E from \in Origins :
        Goto(p, [Begun("login_profile") EXCEPT
                    !.dev = from[1], !.country = from[2],
                    !.guarded = sec.enabled])
    /\ UNCHANGED <<sec, countries, codes, devices, challenges, secrets, lots>>
    /\ UNCHANGED history

Trusted(c) == c \in {x \in Countries : countries[x] > 0}

\* SecurityRepository.findByUserId.
LoginProfile(p) ==
    /\ At(p, "login_profile")
    /\ Goto(p, [op[p] EXCEPT
                  !.pc = "login_device", !.two = sec.enabled,
                  !.first = countries = EmptyList /\ op[p].country # NoCountry,
                  !.odd = /\ countries # EmptyList /\ op[p].country # NoCountry
                          /\ ~Trusted(op[p].country)])
    /\ UNCHANGED <<sec, countries, codes, devices, challenges, secrets, lots>>
    /\ UNCHANGED history

\* Why a login is not completed at once.  LoginChallengeReason.
\* Fault: a known device is enough.
KnownDeviceIsEnough(o) == o.dev \notin devices

Challenged(o) == o.dev \notin devices \/ o.odd \/ o.two

\* LoginSecurityChallengeService.createChallenge, as far as the token goes: its
\* reason and the methods it offers are not looked at again.
NewChallenge(o) == [dev |-> o.dev, country |-> o.country]

\* resolveLoginDevice, then the check of twoFactorEnabled.
LoginDevice(p) ==
    /\ At(p, "login_device")
    /\ IF Challenged(op[p])
       THEN /\ Cardinality(challenges) < MaxChallenges
            /\ challenges' = challenges \cup {NewChallenge(op[p])}
            /\ Done(p)
       ELSE /\ Goto(p, [op[p] EXCEPT !.pc = "session", !.two = FALSE])
            /\ UNCHANGED challenges
    /\ UNCHANGED <<sec, countries, codes, devices, secrets, lots>>
    /\ UNCHANGED history

ChallengeExpires ==
    /\ \E ch \in challenges : challenges' = challenges \ {ch}
    /\ UNCHANGED <<sec, countries, codes, devices, secrets, lots, op>>
    /\ UNCHANGED history

-----------------------------------------------------------------------------
(* The answer to a challenge: VerifyLoginChallengeUseCase.                 *)

\* With a code of the authenticator (code = NoCode) or a recovery code that
\* has been handed out.
AnswerBegin(p) ==
    /\ At(p, "idle")
    /\ \E ch \in challenges, c \in {x \in Codes : x[1] <= lots} \cup {NoCode} :
        Goto(p, [Begun("answer_factor") EXCEPT
                    !.dev = ch.dev, !.country = ch.country, !.code = c,
                    !.dead = c # NoCode /\ codes[c] # "unused"])
    /\ UNCHANGED <<sec, countries, codes, devices, challenges, secrets, lots>>
    /\ UNCHANGED history

\* verifyFactor; a wrong code ends the request.
AnswerTotp(p) ==
    /\ At(p, "answer_factor") /\ op[p].code = NoCode
    /\ IF RightTotp
       THEN Goto(p, [op[p] EXCEPT !.pc = "answer_device", !.proven = TRUE])
       ELSE Done(p)
    /\ UNCHANGED <<sec, countries, codes, devices, challenges, secrets, lots>>
    /\ UNCHANGED history

\* Fault: codes that were used are found as well.
FoundUsedOrNot(c) == Present(c)

\* findUnusedByUser.
Found(c) == codes[c] = "unused"

AnswerCode(p) ==
    /\ At(p, "answer_factor") /\ op[p].code # NoCode
    /\ IF Found(op[p].code) THEN Move(p, "code_mark") ELSE Done(p)
    /\ UNCHANGED <<sec, countries, codes, devices, challenges, secrets, lots>>
    /\ UNCHANGED history

\* markUsed updates by id, whether or not the code is used by now; when the
\* row has been deleted the update throws.
MarkUsed(p) ==
    /\ At(p, "code_mark")
    /\ IF Present(op[p].code)
       THEN /\ codes' = [codes EXCEPT ![op[p].code] = "used"]
            /\ Goto(p, [op[p] EXCEPT !.pc = "answer_device", !.proven = TRUE,
                                     !.code = NoCode])
       ELSE UNCHANGED codes /\ Done(p)
    /\ UNCHANGED <<sec, countries, devices, challenges, secrets, lots>>
    /\ UNCHANGED history

\* resolveTrustedDevice: a device that is not there is created with a new id.
AnswerDevice(p) ==
    /\ At(p, "answer_device")
    /\ Goto(p, [op[p] EXCEPT !.pc = "answer_country",
                             !.fresh = op[p].dev \notin devices])
    /\ UNCHANGED <<sec, countries, codes, devices, challenges, secrets, lots>>
    /\ UNCHANGED history

\* Fault: the list is not looked at.
AlwaysPush(c) == c # NoCountry

\* Fault: a country that is not known is trusted.
PushUnknown(c) == ~Trusted(c)

\* trustCountryIfNeeded; the limit of trusted countries is not looked at.
NeedsTrust(c) == c # NoCountry /\ ~Trusted(c)

AnswerCountry(p) ==
    /\ At(p, "answer_country")
    /\ IF NeedsTrust(op[p].country)
       THEN Move(p, "country_push")
       ELSE Goto(p, [op[p] EXCEPT !.pc = "session", !.country = NoCountry])
    /\ UNCHANGED <<sec, countries, codes, devices, challenges, secrets, lots>>
    /\ UNCHANGED history

\* completeLoginSession.  Device.save is an upsert by id, so a device that two
\* answers have created breaks the unique index and rolls the second back.
\* After a direct login autoRegisterFirstCountry may go on.
OpenSession(p) ==
    /\ At(p, "session")
    /\ IF op[p].fresh /\ op[p].dev \in devices
       THEN UNCHANGED devices /\ Done(p)
       ELSE /\ devices' = devices \cup {op[p].dev}
            /\ IF op[p].first
               THEN Move(p, "country_push") ELSE Done(p)
    /\ UNCHANGED <<sec, countries, codes, challenges, secrets, lots, proved,
                   asked, hurt>>

-----------------------------------------------------------------------------
(* Trusted countries.                                                      *)

AddCountryRead(p) ==
    /\ At(p, "idle") /\ SumFunction(countries) < MaxTrusted
    /\ \E c \in Countries :
        /\ ~Trusted(c)
        /\ Goto(p, [Begun("country_push") EXCEPT !.country = c])
    /\ UNCHANGED <<sec, countries, codes, devices, challenges, secrets, lots>>
    /\ UNCHANGED history

\* addTrustedCountry appends to the list, whatever it holds by now.  It ends
\* an addition and a direct login; the answer to a challenge goes on.
CountryPush(p) ==
    /\ At(p, "country_push")
    /\ countries' = [countries EXCEPT ![op[p].country] = @ + 1]
    /\ asked' = asked \cup {op[p].country}
    /\ Overwrite(p, IF ~op[p].proven THEN Idle
                    ELSE [op[p] EXCEPT !.pc = "session", !.stale = FALSE,
                                       !.country = NoCountry],
                 CountryPC, "countries")
    /\ UNCHANGED <<sec, codes, devices, challenges, secrets, lots, proved>>

RemoveCountryRead(p) ==
    /\ At(p, "idle")
    /\ \E c \in Countries :
        /\ Trusted(c)
        /\ Goto(p, [Begun("country_again") EXCEPT !.country = c])
    /\ UNCHANGED <<sec, countries, codes, devices, challenges, secrets, lots>>
    /\ UNCHANGED history

\* removeTrustedCountry reads the list again, and writes what is left of it.
RemoveCountryAgain(p) ==
    /\ At(p, "country_again")
    /\ Goto(p, [op[p] EXCEPT !.pc = "country_write", !.list = countries])
    /\ UNCHANGED <<sec, countries, codes, devices, challenges, secrets, lots>>
    /\ UNCHANGED history

Without(list, c) == [list EXCEPT ![c] = 0]

RemoveCountryWrite(p) ==
    /\ At(p, "country_write")
    /\ countries' = Without(op[p].list, op[p].country)
    /\ asked' = asked \ {op[p].country}
    /\ Overwrite(p, Idle, CountryPC, "countries")
    /\ UNCHANGED <<sec, codes, devices, challenges, secrets, lots, proved>>

-----------------------------------------------------------------------------
(* A call fails or the process dies: what was committed stays.  Between    *)
(* the two writes of a pair it leaves the codes half done.                 *)

Fail(p) ==
    /\ ~At(p, "idle")
    /\ Done(p)
    /\ hurt' = IF op[p].pc \in CodePC THEN hurt \cup {"codes"} ELSE hurt
    /\ UNCHANGED <<sec, countries, codes, devices, challenges, secrets, lots,
                   proved, asked>>

Enrol(p)     == EnableRead(p) \/ EnableSave(p)
Activate(p)  == VerifyRead(p) \/ ActivateRead(p) \/ ActivateWrite(p)
NewCodes(p)  == CodesDelete(p) \/ CodesCreate(p) \/ RegenerateRead(p)
                \/ RegenerateTotp(p)
Disable(p)   == DisableRead(p) \/ DisableTotp(p) \/ DisableWrite(p)
                \/ DisableCodes(p)
Login(p)     == LoginBegin(p) \/ LoginProfile(p) \/ LoginDevice(p)
                \/ OpenSession(p)
Answer(p)    == AnswerBegin(p) \/ AnswerTotp(p) \/ AnswerCode(p)
                \/ MarkUsed(p) \/ AnswerDevice(p) \/ AnswerCountry(p)
Country(p)   == AddCountryRead(p) \/ CountryPush(p) \/ RemoveCountryRead(p)
                \/ RemoveCountryAgain(p) \/ RemoveCountryWrite(p)

Next ==
    \/ \E p \in Procs :
        \/ Enrol(p) \/ Activate(p) \/ NewCodes(p) \/ Disable(p)
        \/ Login(p) \/ Answer(p) \/ Country(p) \/ Fail(p)
    \/ ChallengeExpires

Spec == Init /\ [][Next]_vars

-----------------------------------------------------------------------------
(* Properties.                                                             *)

\* An account with the second factor on has the secret to check it, and a
\* code of that secret was seen before it was switched on, unless a request
\* wrote the secret columns after another had changed what it had read
\* (two activations; an activation and an enrolment; an activation and a
\* deactivation).
SecretIsProven ==
    sec.enabled /\ "secret" \notin hurt => sec.secret \in proved

\* When nothing is under way, the account has the codes of one lot at most,
\* and none when the second factor is off, unless two requests replaced codes
\* at the same time or one stopped half way.
CodesFollowFactor ==
    (\A p \in Procs : op[p].pc = "idle") /\ "codes" \notin hurt =>
        /\ \A c, d \in Codes : Present(c) /\ Present(d) => c[1] = d[1]
        /\ ~sec.enabled => \A c \in Codes : ~Present(c)

\* A login that began while the second factor was on opens no session without
\* it, unless it was switched off in between; nor does a login from a device
\* that is not known.
NoBypass ==
    \A p \in Procs : At(p, "session") =>
        (op[p].guarded \/ op[p].dev \notin devices => op[p].proven)

\* A recovery code that had been used or replaced when the request began opens
\* no session.  (Two requests that begin before either marks it both do.)
NoDeadCode == \A p \in Procs : At(p, "session") => ~op[p].dead

\* The list of trusted countries names what the requests that wrote it asked
\* for, each country once, unless one of them wrote after another had changed the
\* list it had read.
CountriesAsAsked ==
    "countries" \notin hurt =>
        \A c \in Countries : countries[c] = IF c \in asked THEN 1 ELSE 0
=============================================================================

---------------------------- MODULE UserAccount ----------------------------
(***************************************************************************)
(* One account of auth-service: its row in the table User, its row in      *)
(* UserProfile, and the use cases that register it, verify its address,    *)
(* log in, lock it out, and change or reset its password.                  *)
(*                                                                         *)
(* Two kinds of update meet on the row.  Some name the columns they change *)
(* (SecurityRepository, updatePasswordHash); UserRepository.update writes  *)
(* back the whole entity as it was read, some awaits earlier.  No update   *)
(* is conditional on what was read, except the increment of the counter.   *)
(***************************************************************************)
EXTENDS Naturals, FiniteSets

CONSTANTS
    Passwords,          \* passwords, each standing for its hash
    TempPassword,       \* the one ProvisionWorkerUseCase generates
    NoPassword,
    Procs,              \* requests being served at the same time
    MaxAttempts,        \* failed attempts that lock the account
    MaxBlocks,          \* bound: lockouts ever
    MaxTokens           \* bound: verification and reset tokens ever issued

ASSUME PasswordsDiffer ==
    /\ TempPassword \notin Passwords
    /\ NoPassword \notin Passwords \cup {TempPassword}

ASSUME BoundsAreNat ==
    /\ MaxAttempts \in Nat \ {0}
    /\ MaxBlocks \in Nat /\ MaxTokens \in Nat

VARIABLES
    user,               \* the row of the table User
    profile,            \* the row of UserProfile and its consent
    issued,             \* tokens issued so far; token t is the t-th
    blocks,             \* lockouts so far; block b is the b-th
    over,               \* blocks whose blockedUntil has passed
    mustToken,          \* a challenge token for the first login is out
    op,                 \* op[p]: the request p is serving
    \* History, read by properties only.
    spent,              \* tokens some request has used up
    lost,               \* columns in which a write restored a stale value
    died                \* pairs of steps that a request left half done

history == <<spent, lost, died>>
vars == <<user, profile, issued, blocks, over, mustToken, op,
          spent, lost, died>>

-----------------------------------------------------------------------------
(* Types.                                                                  *)

NoToken == 0
NoBlock == 0
Words   == Passwords \cup {TempPassword}

\* No code sets the status BLOCKED; "ABSENT" means that there is no row.
Status == {"ABSENT", "PENDING", "ACTIVE"}

\* lockoutCount is left out: it only sets how long a block lasts, and here a
\* block may end at any time.  So are the expiry dates of the tokens: a
\* request with an expired token is refused and changes nothing.
Row == [status   : Status,
        hash     : Words \cup {NoPassword},
        verified : BOOLEAN,
        failed   : 0..MaxAttempts,
        blocked  : 0..MaxBlocks,
        must     : BOOLEAN,
        vtoken   : 0..MaxTokens,
        rtoken   : 0..MaxTokens]

Columns == {"status", "hash", "verified", "failed", "blocked", "must",
            "vtoken", "rtoken"}

\* The columns whose history is kept.
Watched == Columns \ {"hash", "must"}

NoRow == [status |-> "ABSENT", hash |-> NoPassword, verified |-> FALSE,
          failed |-> 0, blocked |-> NoBlock, must |-> FALSE,
          vtoken |-> NoToken, rtoken |-> NoToken]

LoginPC == {"release", "clear", "count", "read", "lock"}
ResetPC == {"hash", "consume"}
PC == {"idle", "update", "change", "sweep", "first", "consent", "profile"}
      \cup LoginPC \cup ResetPC

\* found: the entity as it was read; entity: what it became in memory, which
\* UserRepository.update is about to write; word: the password at hand;
\* token: the one the client presented.
Op == [pc     : PC,
       token  : 0..MaxTokens,
       found  : Row,
       entity : Row,
       word   : Words \cup {NoPassword}]

Idle == [pc |-> "idle", token |-> NoToken, found |-> NoRow, entity |-> NoRow,
         word |-> NoPassword]

TypeOK ==
    /\ user      \in Row
    /\ profile   \in {"none", "given", "accepted"}
    /\ issued    \in 0..MaxTokens
    /\ blocks    \in 0..MaxBlocks
    /\ over      \subseteq 1..blocks
    /\ mustToken \in BOOLEAN
    /\ op        \in [Procs -> Op]
    /\ spent     \subseteq 1..issued
    /\ lost      \subseteq Watched
    /\ died      \subseteq {"lockout", "consent"}

Init ==
    /\ user      = NoRow
    /\ profile   = "none"
    /\ issued    = 0
    /\ blocks    = 0
    /\ over      = {}
    /\ mustToken = FALSE
    /\ op        = [p \in Procs |-> Idle]
    /\ spent     = {}
    /\ lost      = {}
    /\ died      = {}

-----------------------------------------------------------------------------
(* Reading and writing the row.                                            *)

Exists == user.status # "ABSENT"

\* Nobody is told the address of a worker's account while it is being made.
Known == Exists /\ \A p \in Procs : op[p].pc # "profile"

Goto(p, new) == op' = [op EXCEPT ![p] = new]
End(p)       == Goto(p, Idle)

\* toPersistence: every column from the entity, but Prisma leaves blockedUntil
\* alone when the entity has none.
Written(o) ==
    [o.entity EXCEPT !.blocked = IF @ = NoBlock THEN user.blocked ELSE @]

\* Columns the write changes although the request did not mean to: the row
\* has moved on since it was read.
Restored(o) == {c \in Watched : /\ Written(o)[c] # user[c]
                                /\ o.entity[c] = o.found[c]}

\* UserRepository.update.
UpdateRow(o) ==
    /\ user' = Written(o)
    /\ lost' = lost \cup Restored(o)

Fresh        == issued + 1
TokenToSpare == issued < MaxTokens
BlockToSpare == blocks < MaxBlocks

-----------------------------------------------------------------------------
(* Creating the account.                                                   *)

(* RegisterUserUseCase.  The email is unique, so the insert decides; the   *)
(* look-up before it only makes the answer silent.                         *)
Register(p, w) ==
    /\ op[p].pc = "idle" /\ ~Exists /\ TokenToSpare
    /\ user' = [NoRow EXCEPT !.status = "PENDING", !.hash = w, !.vtoken = Fresh]
    /\ issued' = Fresh
    /\ UNCHANGED <<profile, blocks, over, mustToken, op, spent, lost, died>>

(* ProvisionWorkerUseCase: the user of a company's worker, with a temporary *)
(* password, and then, in a second insert, the profile.                    *)
Provision(p) ==
    /\ op[p].pc = "idle" /\ ~Exists
    /\ user' = [NoRow EXCEPT !.status = "ACTIVE", !.hash = TempPassword,
                             !.verified = TRUE, !.must = TRUE]
    /\ Goto(p, [Idle EXCEPT !.pc = "profile"])
    /\ UNCHANGED <<profile, issued, blocks, over, mustToken, spent, lost, died>>

ProvisionProfile(p) ==
    /\ op[p].pc = "profile"
    /\ profile' = "given"
    /\ End(p)
    /\ UNCHANGED <<user, issued, blocks, over, mustToken, history>>

-----------------------------------------------------------------------------
(* Verification and reset tokens: read the row, change the entity, write   *)
(* the whole row.                                                          *)

Load(p, t, entity) ==
    /\ op[p].pc = "idle" /\ Known
    /\ Goto(p, [Idle EXCEPT !.pc = "update", !.token = t, !.found = user,
                            !.entity = entity])
    /\ UNCHANGED <<user, profile, blocks, over, mustToken, history>>

(* ForgotPasswordUseCase. *)
ForgotPassword(p) ==
    /\ TokenToSpare /\ issued' = Fresh
    /\ Load(p, NoToken, [user EXCEPT !.rtoken = Fresh])

(* ResendVerificationUseCase. *)
ResendVerification(p) ==
    /\ ~user.verified
    /\ TokenToSpare /\ issued' = Fresh
    /\ Load(p, NoToken, [user EXCEPT !.vtoken = Fresh])

\* Fault: the token stays in the row.
EmailVerifiedKeepsToken(u) == [u EXCEPT !.verified = TRUE, !.status = "ACTIVE"]

EmailVerified(u) == [u EXCEPT !.verified = TRUE, !.status = "ACTIVE",
                              !.vtoken = NoToken]

(* VerifyEmailUseCase: the token selects the row. *)
VerifyEmail(p, t) ==
    /\ t # NoToken /\ user.vtoken = t
    /\ UNCHANGED issued
    /\ Load(p, t, EmailVerified(user))

Update(p) ==
    /\ op[p].pc = "update"
    /\ UpdateRow(op[p])
    /\ spent' = spent \cup ({op[p].token} \ {NoToken})
    /\ End(p)
    /\ UNCHANGED <<profile, issued, blocks, over, mustToken, died>>

-----------------------------------------------------------------------------
(* Login: LoginUserUseCase up to the point where the device is looked at.  *)

Running(b) == b # NoBlock /\ b \notin over

\* The entity passes LoginPolicy: active, not blocked, attempts left.
Admitted(u) == /\ u.status = "ACTIVE"
               /\ ~Running(u.blocked)
               /\ u.failed < MaxAttempts

\* The hash that was read decides whether the attempt counts as failed.
Verified(u, w) == [Idle EXCEPT !.pc = IF u.hash = w THEN "clear" ELSE "count",
                               !.found = [NoRow EXCEPT !.must = u.must]]

\* Fault: a released account has to be verified again.
ReleasedPending(u) ==
    [u EXCEPT !.failed = 0, !.blocked = NoBlock, !.status = "PENDING"]

Released(u) == [u EXCEPT !.failed = 0, !.blocked = NoBlock, !.status = "ACTIVE"]

(* findByEmail; a block that has ended is to be released first.  Nobody is *)
(* told the temporary password of a worker whose profile is missing.       *)
LoginFind(p, w) ==
    /\ op[p].pc = "idle" /\ Known
    /\ w = TempPassword => profile # "none"
    /\ w = user.hash \/ BlockToSpare
    /\ IF user.blocked \in over
       THEN Goto(p, [Verified(user, w) EXCEPT !.pc = "release",
                        !.found = [NoRow EXCEPT !.must = user.must,
                                                !.hash = user.hash],
                        !.word = w])
       ELSE Admitted(user) /\ Goto(p, Verified(user, w))
    /\ UNCHANGED <<user, profile, issued, blocks, over, mustToken, history>>

(* releaseTemporaryBlock, whatever the row holds by now; the entity in      *)
(* memory is released too, so it is admitted, and the password is verified. *)
LoginRelease(p) ==
    /\ op[p].pc = "release"
    /\ user' = Released(user)
    /\ Goto(p, Verified(op[p].found, op[p].word))
    /\ UNCHANGED <<profile, issued, blocks, over, mustToken, history>>

(* resetFailedLoginAttempts.  A worker who must change the password gets a *)
(* challenge token instead of a session.                                   *)
LoginClear(p) ==
    /\ op[p].pc = "clear"
    /\ user' = [user EXCEPT !.failed = 0, !.blocked = NoBlock]
    /\ mustToken' = (mustToken \/ op[p].found.must)
    /\ End(p)
    /\ UNCHANGED <<profile, issued, blocks, over, history>>

\* Fault: the increment is not conditional on the counter.
CountableUnblocked == ~Running(user.blocked)

Countable == ~Running(user.blocked) /\ user.failed < MaxAttempts

(* registerFailedAttempt, first statement: count, unless the account has   *)
(* been blocked or has used up its attempts meanwhile.                     *)
LoginCount(p) ==
    /\ op[p].pc = "count"
    /\ IF Countable
       THEN /\ user' = [user EXCEPT !.failed = @ + 1]
            /\ Goto(p, [Idle EXCEPT !.pc = "read"])
       ELSE UNCHANGED user /\ End(p)
    /\ UNCHANGED <<profile, issued, blocks, over, mustToken, history>>

\* Fault: the limit is compared one too high.
LimitReachedLate == user.failed > MaxAttempts

LimitReached == user.failed >= MaxAttempts

(* Second statement: read the counter back. *)
LoginRead(p) ==
    /\ op[p].pc = "read"
    /\ IF LimitReached THEN Goto(p, [Idle EXCEPT !.pc = "lock"]) ELSE End(p)
    /\ UNCHANGED <<user, profile, issued, blocks, over, mustToken, history>>

(* Third statement: block the account. *)
LoginLock(p) ==
    /\ op[p].pc = "lock" /\ BlockToSpare
    /\ blocks' = blocks + 1
    /\ user' = [user EXCEPT !.blocked = blocks + 1]
    /\ End(p)
    /\ UNCHANGED <<profile, issued, over, mustToken, history>>

-----------------------------------------------------------------------------
(* Changing the password.  The closing of the sessions that follows is     *)
(* SessionTokens' sweep.                                                   *)

(* ChangePasswordUseCase, by an authenticated user. *)
ChangeFind(p, w, n) ==
    /\ op[p].pc = "idle" /\ user.status = "ACTIVE"
    /\ w = user.hash /\ n # w
    /\ w = TempPassword => profile # "none"
    /\ Goto(p, [Idle EXCEPT !.pc = "change", !.word = n])
    /\ UNCHANGED <<user, profile, issued, blocks, over, mustToken, history>>

(* updatePasswordHash. *)
ChangeWrite(p) ==
    /\ op[p].pc = "change"
    /\ user' = [user EXCEPT !.hash = op[p].word]
    /\ Goto(p, [Idle EXCEPT !.pc = "sweep", !.word = op[p].word])
    /\ UNCHANGED <<profile, issued, blocks, over, mustToken, spent, lost, died>>

(* ResetPasswordUseCase: the token selects the row. *)
ResetFind(p, t, n) ==
    /\ op[p].pc = "idle"
    /\ t # NoToken /\ user.rtoken = t /\ n # user.hash
    /\ Goto(p, [pc |-> "hash", token |-> t, found |-> user, word |-> n,
                entity |-> [user EXCEPT !.rtoken = NoToken]])
    /\ UNCHANGED <<user, profile, issued, blocks, over, mustToken, history>>

(* updatePasswordHash. *)
ResetWrite(p) ==
    /\ op[p].pc = "hash"
    /\ user' = [user EXCEPT !.hash = op[p].word]
    /\ Goto(p, [op[p] EXCEPT !.pc = "consume"])
    /\ UNCHANGED <<profile, issued, blocks, over, mustToken, spent, lost, died>>

(* consumePasswordReset: the whole entity is written back, and with it the *)
(* hash that was read before updatePasswordHash.                           *)
ResetConsume(p) ==
    /\ op[p].pc = "consume"
    /\ UpdateRow(op[p])
    /\ spent' = spent \cup ({op[p].token} \ {NoToken})
    /\ Goto(p, [Idle EXCEPT !.pc = "sweep", !.word = op[p].word])
    /\ UNCHANGED <<profile, issued, blocks, over, mustToken, died>>

(* revokeAllSessions, and the answer. *)
Sweep(p) ==
    /\ op[p].pc = "sweep"
    /\ End(p)
    /\ UNCHANGED <<user, profile, issued, blocks, over, mustToken, history>>

-----------------------------------------------------------------------------
(* CompleteFirstLoginUseCase: a worker replaces the temporary password.    *)

FirstFind(p, n) ==
    /\ op[p].pc = "idle" /\ mustToken /\ user.must
    /\ Goto(p, [pc |-> "first", token |-> NoToken, found |-> user, word |-> n,
                entity |-> [user EXCEPT !.hash = n, !.must = FALSE]])
    /\ UNCHANGED <<user, profile, issued, blocks, over, mustToken, history>>

(* changePasswordAndClearRequirement, then update. *)
FirstWrite(p) ==
    /\ op[p].pc = "first"
    /\ UpdateRow(op[p])
    /\ Goto(p, [Idle EXCEPT !.pc = "consent"])
    /\ UNCHANGED <<profile, issued, blocks, over, mustToken, spent, died>>

\* Fault: the consent is taken for given.
ConsentKept(pr) == pr

Consented(pr) == IF pr = "none" THEN "none" ELSE "accepted"

(* acceptProfileConsent; without a profile the request fails here. *)
FirstConsent(p) ==
    /\ op[p].pc = "consent"
    /\ profile' = Consented(profile)
    /\ End(p)
    /\ UNCHANGED <<user, issued, blocks, over, mustToken, history>>

-----------------------------------------------------------------------------
(* Time, and requests that die.                                            *)

BlockEnds(b) ==
    /\ b \in 1..blocks /\ b \notin over
    /\ over' = over \cup {b}
    /\ UNCHANGED <<user, profile, issued, blocks, mustToken, op, history>>

\* The pair of writes of which the request has done the first only.
HalfDone(o) == CASE o.pc \in {"read", "lock"} -> {"lockout"}
                 [] o.pc = "consent"          -> {"consent"}
                 [] OTHER                     -> {}

(* A call is refused or the process dies: what was done stays done. *)
Fail(p) ==
    /\ op[p].pc # "idle"
    /\ died' = died \cup HalfDone(op[p])
    /\ End(p)
    /\ UNCHANGED <<user, profile, issued, blocks, over, mustToken, spent, lost>>

-----------------------------------------------------------------------------

Begin(p) ==
    \/ \E w \in Passwords : Register(p, w) \/ FirstFind(p, w)
    \/ Provision(p)
    \/ \E w \in Words : LoginFind(p, w)
    \/ \E w \in Words, n \in Passwords : ChangeFind(p, w, n)
    \/ \E t \in 1..issued, n \in Passwords : ResetFind(p, t, n)
    \/ \E t \in 1..issued : VerifyEmail(p, t)
    \/ ForgotPassword(p) \/ ResendVerification(p)

Login(p) == \/ LoginRelease(p) \/ LoginClear(p)
            \/ LoginCount(p) \/ LoginRead(p) \/ LoginLock(p)

Step(p) == \/ ProvisionProfile(p) \/ Update(p) \/ Login(p) \/ ChangeWrite(p)
           \/ ResetWrite(p) \/ ResetConsume(p) \/ Sweep(p)
           \/ FirstWrite(p) \/ FirstConsent(p)

Next == \/ \E p \in Procs : Begin(p) \/ Step(p) \/ Fail(p)
        \/ \E b \in 1..MaxBlocks : BlockEnds(b)

Spec == Init /\ [][Next]_vars

-----------------------------------------------------------------------------
(* Properties.                                                             *)

(* "So as not to leave accounts trapped": an account that has used up its   *)
(* attempts has a blockedUntil that will let it out, or a request is about  *)
(* to set one.  What can trap it is only a request that dies between the    *)
(* statements of registerFailedAttempt, or a whole-row update that brings   *)
(* an old counter or an old block back.                                     *)
NotTrapped ==
    (user.failed = MaxAttempts /\ user.blocked = NoBlock) =>
        \/ \E p \in Procs : op[p].pc \in {"read", "lock"}
        \/ "lockout" \in died
        \/ lost \cap {"failed", "blocked"} # {}

(* "Single use": a token that some request has used up is not in the row    *)
(* any more, unless a whole-row update brought it back.                     *)
SingleUse ==
    /\ user.vtoken \in spent => "vtoken" \in lost
    /\ user.rtoken \in spent => "rtoken" \in lost

(* A verified address stays verified, and so does the status ACTIVE, except *)
(* when a whole-row update restores the time before.                        *)
VerifiedForGood ==
    [][user.verified => \/ user'.verified /\ user'.status = "ACTIVE"
                        \/ lost' \cap {"verified", "status"} # {}]_vars

(* A worker who has replaced the temporary password has a profile with an   *)
(* accepted consent, or a first login is about to record it: only a request *)
(* that dies (in the provisioning or in the first login) breaks the pair.   *)
ConsentGoesWithPassword ==
    (profile = "given" /\ ~user.must) =>
        \/ \E p \in Procs : op[p].pc = "consent"
        \/ "consent" \in died

(* Changing and resetting the password "update the hash": the new password  *)
(* is in the row when the request goes on to close the sessions.            *)
PasswordReplaced ==
    \A p \in Procs : op[p].pc = "sweep" => user.hash = op[p].word

=============================================================================

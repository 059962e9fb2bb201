# Formal models of the SaaS platform backend

TLA+ models of the parts of this repository in which the order of events
matters, model-checked with TLC, with theorems about them checked by TLAPS.
The modules model the TypeScript code under `src/services`; paths below are
relative to that directory.

## 1. The system

Six packages, one process each except the last:

| part | state it keeps | operations that change it |
|---|---|---|
| **api-gateway** | nothing durable; a circuit breaker per upstream; in Redis the key `gateway:maintenance:status` | forwards requests after `JwtSessionGuard` (key `session:<id>` in Redis), `RolesGuard`, `PermissionGuard`, `MaintenanceGuard`; `ResilientHttpClient` retries |
| **auth-service** | PostgreSQL: `User`, `UserProfile`, `UserSecurity`, `Device`, `Session`, `RefreshToken`, `RecoveryCode`; Redis: `session:<id>`; MongoDB: audit | register, verify email, log in (with lockout, challenge, first login), refresh, logout, revoke, logout-all, change and reset the password, second factor, trusted countries, provision a worker, nightly jobs |
| **company-service** | PostgreSQL: `Company`, `CompanyMembership` | create, update, delete a company; invite, accept, decline, update, remove a member; register a worker (an HTTP call to auth-service) |
| **config-service** | PostgreSQL: `MaintenanceConfig`, `MaintenanceWindow`, `FeatureFlag`; Redis | switch maintenance, schedule windows, set flags |
| **notification-service** | BullMQ queues in Redis | enqueue, send with retries and timeout, broadcast on WebSocket |
| **shared** | none | logging, i18n, filters, permissions |

How they interact: the client talks to the gateway; the gateway reads Redis to
see whether a session is valid and forwards over HTTP. auth-service writes the
same Redis keys when it opens and closes sessions. company-service calls
auth-service to look users up and to provision workers; auth-service and
company-service ask notification-service to send mail and do not wait for it.

What is hard in it:

* **Interleaved requests.** Every use case is a chain of `await`s, nearly none
  in a transaction. Two requests of the same user interleave at each of them.
* **Two kinds of write.** Some statements name the columns they change, others
  (`UserRepository.update`, `CompanyMembershipRepository.update`) write back a
  whole entity that was read earlier.
* **Two stores.** Sessions live in PostgreSQL and in Redis, and the two are
  written one after the other.
* **Half-done work.** A process that dies between two statements leaves the
  first one done.
* **Isolation.** One transaction runs at SERIALIZABLE, all other statements at
  READ COMMITTED, and only the former is checked against its peers.

## 2. Modules

| module | models | kind |
|---|---|---|
| `SessionAuthority` | what a session store promises: an id is valid once and never again | abstract specification |
| `SessionTokens` | sessions and refresh tokens of auth-service | implements `SessionAuthority` |
| `SessionTokensProofs` | theorems about `SessionTokens` | proofs |
| `UserAccount` | one row of `User` with its profile: registration, tokens, lockout, passwords | component |
| `UserAccountProofs` | theorems about `UserAccount` | proofs |
| `CompanyMembership` | one company and its members | component |
| `CompanyMembershipProofs` | theorems about `CompanyMembership` | proofs |
| `TwoFactor` | the second factor of one account, its recovery codes, trusted countries and devices, login challenges | component |
| `TwoFactorProofs` | theorems about `TwoFactor` | proofs |
| `ErrorCatalogue` | codes and statuses of errors, from the factories to the client | data and functions |
| `Permissions` | roles, permissions, the seed, the effective set | data and functions |
| `SignedTokens` | which verifier accepts which token | data and functions |
| `ApiRoutes` | the routes of the gateway against those of the services | data and functions, on top of the three above |
| `Gateway` | the way of a request through middlewares, guards and HTTP client, with the maintenance switch of config-service | component, on top of `ApiRoutes` |
| `ApiRoutesProofs` | theorems about the four modules of tables above | proofs |
| `GatewayProofs` | theorems about `Gateway`, with those of `ApiRoutesProofs` | proofs |
| `EventCatalogue` | who sends which mail for which event, from which template, and who files which report | data and functions |
| `MailDelivery` | what a mail service promises: at most once, closed only when sent or excused | abstract specification |
| `Notification` | from a committed operation to the mailbox and the audit trail | component, on top of `EventCatalogue`, implements `MailDelivery` |
| `NotificationProofs` | theorems about `Notification` | proofs |
| `RequestLife` | the shape of a use case that reads a row and writes it back | shared part of the next three |
| `CompanyData` | rows of `Company` and their logos | component |
| `UserProfiles` | rows of `UserProfile`, consent, avatars | component |
| `PlatformSettings` | feature flags and windows of maintenance | component |
| `StoredData` | the three above under the same requests | composition |
| `StoredDataProofs` | theorems about `StoredData` | proofs |
| `MCSessionTokens`, `MCUserAccount`, `MCCompanyMembership`, `MCTwoFactor`, `MCGateway`, `MCNotification`, `MCStoredData` | symmetry and constraints for TLC | model checking |

In every component module `op[p]` is the request that process `p` is serving:
`pc` says at which `await` it stands, the other fields are its local variables.
An action is what the code does between two `await`s that touch the shared
state. `Fail(p)` is a process that dies, or a call that is refused where nothing
else is under way: what was committed stays. Where calls run side by side in a
`Promise.all`, one that is rejected does not stop the others (`Reject` in
`SessionTokens`). Variables under "History" are read by properties only.
Definitions under a comment `Fault:` are plausible bugs of the definition below
them; they are used to see that a property would catch them.

### SessionTokens

`row`, `owner` are the table `Session`, `token` the table `RefreshToken`,
`cache` the set of ids with a key in Redis.

| action | code in auth-service |
|---|---|
| `LoginCount`, `LoginPick`, `LoginStore`, `LoginCommit` | `completeLoginSession` in its transaction: count, evict the oldest, insert, Redis, first refresh token, commit |
| `RefreshFind`, `RefreshCheck`, `RefreshRevoke`, `RefreshCreate` | `RefreshTokenUseCase.execute` |
| `LogoutBegin`, `RevokeSessionBegin`, `CloseRow`, `CloseTokens`, `CloseCache` | `LogoutUseCase`, `RevokeSessionUseCase` and the answer to a reused token; the calls of a `Promise.all` end in any order |
| `SweepBegin` ... `SweepPurge` | `LogoutAllUseCase` and the end of change and reset password |
| `Reject`, `RejectPurge` | one call of a `Promise.all` is rejected, before or after it took effect: the client has its error, what was to follow is not begun, the calls beside it go on |
| `Fail` | the process dies |
| `CacheExpire`, `CleanExpiredRefreshTokens`, `CleanOldSessions` | the TTL in Redis and the nightly jobs |

A login holds the lock of its device's row from its first statement and the
lock of the session it evicts until the commit; others wait for them.

### UserAccount

`user` is the row of `User`, `profile` that of `UserProfile`. A request that
uses `UserRepository.update` keeps both the entity it read (`found`) and the
one it will write (`entity`); `UpdateRow` writes every column of the latter, as
`UserMapper.toPersistence` does, except that an entity without `blockedUntil`
leaves that column alone (Prisma ignores `undefined`). `lost` records the
columns in which such a write put back a stale value. Blocks and tokens are
numbered, so that a property can tell an old one from a new one; time is the
action `BlockEnds`. `lockoutCount` is left out: it only sets how long a block
lasts. Expiry of the two kinds of token is left out: an expired one is refused
and changes nothing.

### CompanyMembership

`member[m]` is the row with the m-th id. `UpdateRead` and `RemoveRead` decide
from what they have read whether the write is a `plain` statement or a `serial`
transaction. `SerialWrite` takes the lock of the row and the snapshot,
`SerialEnd` counts the owners in the snapshot and commits or rolls back. Two
such transactions that overlap and both commit would be a write skew;
PostgreSQL aborts the one that comes second (`Overtaken`). Plain statements run
at READ COMMITTED and are not tracked, so they may change what the snapshot
counted. `Provision` is the HTTP call to auth-service, whose answer may be lost.

### TwoFactor

`sec` has the secret columns of `UserSecurity`, `countries` its list of trusted
countries (as a bag: nobody reads the order, but two requests can add a country
twice), `codes`, `devices`, `challenges` the other tables and tokens of one
account. Secrets and lots of codes are numbered, so "an old secret" is a
smaller number. `hurt` is history: what a write that came after another
request's write, or a request that stopped half way, has spoilt.

| action | code in auth-service |
|---|---|
| `EnableRead`, `EnableSave` | `Enable2faUseCase` |
| `VerifyRead`, `ActivateRead`, `ActivateWrite`, `CodesDelete`, `CodesCreate` | `Verify2faUseCase`, `RecoveryCodeService` |
| `RegenerateRead`, `RegenerateTotp` | `RegenerateRecoveryCodesUseCase` |
| `DisableRead` ... `DisableCodes` | `Disable2faUseCase` |
| `LoginBegin`, `LoginProfile`, `LoginDevice` | `LoginUserUseCase` from the verified password to the session or the challenge |
| `AnswerBegin` ... `AnswerCountry`, `OpenSession` | `VerifyLoginChallengeUseCase` |
| `AddCountryRead`, `CountryPush`, `RemoveCountryRead` ... `RemoveCountryWrite` | the trusted countries |

What the model shows beside its properties, because the code does it: a
challenge token is accepted as often as it is answered with a factor until it
expires (`docs/flows/login-flow.md:54` calls it single-use); two activations
that overlap can leave the factor on with no secret; the answer to a challenge
adds a country past the limit.

### ErrorCatalogue, Permissions, SignedTokens, ApiRoutes

These have no state. They are the tables that two programs must agree on
without sharing them, transcribed from both sides, and the functions the code
applies to them.

* `ApiRoutes`: `Served`, `Guarded` are the controllers of the services,
  `Routes` those of the gateway with the call each forwards. `Agreed(r)` says
  how a route stands with the service behind it, its defects included: the
  service is reached by it if and only if it is neither a wildcard with more
  than one segment, nor a method that only the gateway has for the path
  (`LeadsNowhere`), nor a `PATCH`, which the method guard refuses; what the
  service guards is not public at the gateway; the content type the gateway
  wants is the one the handler takes; every header the service acts on is
  forwarded, except `x-forwarded-proto` to auth-service (`Lost`); and the
  cookies a guard wants were set for a path above it.
* `ErrorCatalogue`: the errors of the factories, what
  `GlobalExceptionFilter.catch` and the proxies make of them (`catch`,
  `throwAxiosResponseError`), and of failures on the way (`AuthUnreachable`
  and so on).
* `Permissions`: `ROLE_PERMISSIONS`, the rows the seed leaves (`Seed`),
  `getEffectivePermissions`, and what `ConfigController` asks for.
* `SignedTokens`: secret, audience, claims and reason of each token, and the
  set that each verifier accepts. There is one token too many: the verifier of
  the second step of a login does not look at the reason, so it takes the token
  for a change of password as well.

Writing them down showed: the wildcard of `ConfigController` joins its segments
with commas, so the administrative calls below it never reach config-service;
`PATCH` is refused by the method guard although two controllers offer it;
`refreshToken` is set for `/v1/auth` and cleared for `/`, so logging out leaves
it with the browser; a refresh does not renew the `accessToken` cookie, which
is what the guards read; the gateway has no route for resetting a password, for
the second step of a login, for the first login, or for new recovery codes;
`x-forwarded-proto`, on which the `secure` attribute of the cookies depends, is
not forwarded; the rate limit for authentication is mounted on `/auth/v1` while
the routes begin with `/v1/auth`; running the seed again adds to a role but
takes nothing from it.

### Gateway

`op[p]` is a request at the gateway. A route is reduced to its `Class`: whether
it is a read, who may call it, whether it bypasses the maintenance guard, and
whether the service has it. `passed` is history: by which of the `Grounds` the
guard let a request through that came during maintenance. There are four besides
the status itself: an entry older than the last switch, a look-up that got no
answer, one that was not a `GET`, and an answer that Redis did not store.

| action | code |
|---|---|
| `Arrive` | the middlewares of `main.ts`: method, content type, rate limits |
| `TimeOut` | `timeoutMiddleware`; the request goes on |
| `GuardBypass`, `GuardCached`, `GuardMiss`, `FetchSend` ... `FetchNotStored` | `MaintenanceGuard`, its look-up and its cache |
| `SetMode`, `CacheExpires` | `SetMaintenanceModeUseCase`, the TTL of the key |
| `Guards`, `CloseSession` | `JwtSessionGuard`, `RolesGuard`, `PermissionGuard`, against the session that auth-service deletes (see `SessionTokens`) |
| `Send`, `Execute`, `Refuse`, `Reply`, `Lose`, `GiveUp`, `ExecuteLate` | the proxies and `ResilientHttpClient` |

The circuit breaker is a library. The model lets it do what any of its states
can do: pass a call, reject it, or give it up while it is under way.

### EventCatalogue, MailDelivery, Notification

`EventCatalogue` has the mails (event, template, the variables the sender
supplies), the templates (the variables each prints, which of them are links)
and the reports with the listener that files each. `Notification` follows an
operation with such an event: `op[m]` has its place in auth-service (`pc`), its
audit report, its job in the queue, the request of the attempt under way and
what arrived in the mailbox.

| action | code |
|---|---|
| `Commit`, `Publish` | a use case that has written its change, `NestDomainEventBus` and its listeners |
| `StoreReport` | `AuthActivityRecorderService`, `ActivityReportService` |
| `Lookup`, `PostFails`, `Enqueue` | `NotificationListener`, `NotificationClient`, `EnqueueEmailUseCase` |
| `Take`, `Answered`, `RequestFails`, `RequestTimesOut`, `LateRequest`, `Complete`, `AttemptFails` | `EmailConsumer`, `EmailChannel` |
| `AuthCrash`, `WorkerCrash`, `WorkerStart`, `StalledCheck`, `RedisRollback` | crashes, the restart policy, BullMQ's check for stalled jobs, a Redis that loses its last second (`appendfsync everysec`) |

BullMQ, Redis and Resend are external. What is assumed of them: a job runs up
to `attempts` times, a job whose worker died runs again once without counting,
and Resend remembers an idempotency key for longer than a job is tried.
`Notification` implements `MailDelivery` (`Promise`) with the letters owed, the
copies in the mailbox, and the excuses that the retries were not made for.

### RequestLife, CompanyData, UserProfiles, PlatformSettings, StoredData

The services edit these rows without a transaction: read, decide, write the
whole row. `RequestLife` is that shape: `req[r].seen` is the row as request `r`
read it, `overlap` is history and says that another request on the row read it
meanwhile, and `Stop` ends a request anywhere. The three components give each
use case as a read and the steps after it (for an image: the object, then the
row, or the reverse for a removal). `SaveCompany`, `ToPersistence` and `Upsert`
are the statements at the end, with the unique constraints that may refuse
them.

What the model shows beside its properties: a removal of a logo deletes the
object before the row, so one that stops leaves a URL without an object; a flag
for all environments is looked for under the empty string and created under
null, so it can be set only once, and setting it again fails or hits the row of
`""` (`set-feature-flag.use-case.ts:34` says the row is reused); two windows
that overlap pass if they are scheduled at once. The URL of a logo is one of
three values: none, one of the bucket, or a foreign one with another prefix,
which `deleteByUrl` leaves alone (`Ignored`).

## 3. Runs

| run | asks | bounds | result |
|---|---|---|---|
| `sessions_safety` | can a closed session come back; do the stores disagree without a reason; families, retirement, no rotation after a close, session limit; is `SessionAuthority` implemented | 1 user, 1 device, 2 sessions, 3 tokens, limit 1, 2 requests, 1 death or rejected call | holds |
| `sessions_liveness` | do requests end, does closing take effect | 2 devices, 2 sessions, 2 tokens, 2 requests, no failure | holds |
| `sessions_evicted` | is a revoked session refused at once | 1 request | **violated** |
| `account_races` | lockout, single use of tokens, verified for good, consent | 2 requests, 2 passwords, 2 attempts, 1 block, 2 tokens | holds |
| `account_reset` | is the new password in force when the request answers | 1 request | **violated** |
| `membership_races` | two owners leaving at once, who makes owners, removed members | 2 requests, 2 users, 1 worker, 2 rows | holds |
| `membership_last_owner` | does a company always have an active owner | as above | **violated** |
| `two_factor` | is the secret in force one that was proved, do codes go with the factor, can a login pass without it, is a used code refused, is the list of countries what was asked for | 2 requests, 2 devices, 2 countries, 2 secrets, 2 lots of 1 code, 1 challenge, limit 1 | holds |
| `gateway` | is a write executed once, is the answer true, is a closed session stopped, what gets past the maintenance guard | 2 requests of any route, 1 retry | holds |
| `gateway_maintenance` | is a request refused during maintenance as long as config-service answers | as above | **violated** |
| `notification` | is a mail delivered at most once and given up only with an excuse (`MailDelivery`), does every operation settle | 2 operations, 2 attempts, 2 crashes of the worker, any number of auth-service, 1 rollback of Redis | holds |
| `stored_data` | do URLs and objects agree, do edits survive, do settings not contradict each other | 3 requests, 2 companies, 1 tax id, 1 user, 1 flag with 3 environments, 3 instants | holds |

Why the bounds are enough to be interesting: every hazard we list is a race of
two requests, so two processes show it, and the counters are set so that their
limit is reached (a second login is over the session limit, a second failed
attempt locks, the second member can be the other owner). Three tokens let a
token be exchanged twice or in two places at once. Three requests on stored data
let a third one come after two that overlapped. Two attempts are the fewest with
a retry (the code has five, and the arithmetic on them is one comparison); two
crashes are the fewest after which BullMQ gives a job up; one retry of the HTTP
client (the code has two) is the fewest that can repeat a call. Two operations
let an id that Redis forgot be given again to another mail. Symmetry is used over
processes, users, devices and passwords, which are only compared for equality,
and only for safety properties. `account_races` does not look past the first
stale whole-row write to a watched column (the constraint `NothingLost`): from
then on the properties promise nothing of that column. The theorems about
`UserAccount` have no such limit. `two_factor` likewise stops at the first write
that came too late (`NothingHurt`). `sessions_safety` has failures with two sessions or
with three tokens, not with both (`FewRecordsAfterFailure`). `CHECK_DEADLOCK FALSE` is set where the
numbered rows, blocks, tokens, secrets, operations or requests run out; the
session and the gateway runs check for deadlock, the former because waiting for
locks is their subject.

### What the violations show

* `sessions_evicted`: a login over the limit revokes the oldest session in
  PostgreSQL only. Its key stays in Redis, so the gateway and the refresh go on
  accepting it until the TTL ends, and logout-all does not find it any more.
* `account_reset`: `reset-password.use-case.ts` writes the new hash and then
  calls `update` with the entity it read before, which has the old hash.
* `membership_last_owner`: whether the owner count is needed is decided on a
  row read earlier, so a late plain write can take the last active owner away.

* `gateway_maintenance`: the guard asks for the status with the method of the
  request it is guarding. config-service has only `GET maintenance/status`, so on
  a cache miss every `POST`, `PUT` and `DELETE` gets a 404 from a healthy service
  and passes. Two more ways past the guard violate the same property behind the
  trace that the run prints: the switch deletes its key with the prefix
  `config-service:` in front of it, so the entry of the guard stays until its
  TTL ends (`set-maintenance-mode.use-case.ts:52` promises an immediate effect),
  and an answer that says "on" is dropped when Redis does not store it.
  `MaintenanceHolds`, in the run `gateway`, says that there is no fifth way.

### Fairness

Two runs need it. `sessions_liveness` assumes weak fairness of the steps of each
request that has begun, `WF_vars(Step(p))` for every `p`: Node runs the
continuation of an `await` that has settled, and PostgreSQL and Redis answer or
fail. A step that waits for a row lock is not enabled while it waits, and no
strong fairness is assumed for it: the holder of the lock commits, and the run
shows that this is enough. Beginning a request, the expiry of a key, the
nightly jobs, deaths and rejected calls are not fair: nobody has to log in. This
run has no failures: a request that dies ends without having closed anything.

`notification` assumes weak fairness of what a running process does next
(`AuthStep`, `StoreReport`, `Take`, `JobStep`), of the timeout that
`EmailChannel.withTimeout` sets for every request, and of `WorkerStart`, which
is the policy `restart: unless-stopped` of the containers. Nothing is assumed of
Resend: a request need not be answered, and a late one need not arrive. Crashes
and rollbacks are bounded and not fair; AuthCrash is not bounded, and only ends
what was under way.

## 4. Proofs

`SessionTokensProofs` shows for any number of users, devices, sessions, tokens
and requests:

* `TypeCorrect`. `TypeOK` is not inductive: that a request works on an id that
  exists follows from its `pc` (`HoldsIds`) and from every issued token having a
  session (`HasOrigin`).
* `ClosedStayDead` and `NoLateRotation`. The invariant `DeadInv` says for each
  request what it may still do to a closed session (`Serves`): a login works on
  an id nobody has closed, a refresh never puts a key back, and a refresh that
  began late never gets past the look-up in Redis.
* `Refinement`: each step of `SessionTokens` is `Open`, `Lapse` or `Close` of
  `SessionAuthority`, or a stutter, with `valid <- cache`.
* `StoresAgreeOrExcused` (`RevokedIsDeadOrExcused`). The property is inductive
  once one adds that a sweep which has not yet listed the sessions holds no id
  (`ExcuseInv`); the work is in `ExcusesKept`: no step takes an excuse away. The
  excuse `abandoned` has the ids whose removal a request gave up: it died, or a
  call of its `Promise.all` was rejected, also when the ids are only listed
  afterwards by the call beside it.
* `OneSessionPerFamily` and `ExchangeRetires`. `TokenInv` adds that a token not
  yet issued has neither session nor parent (`Founded`), that parents have been
  issued, and what a refresh knows of the token it presents (`Presents`): by the
  time it creates the successor, it has revoked it.
* `CapHolds` (`SessionCap`), for finitely many devices. With one device the
  lock on its row puts the logins in a row, and the invariant `CapInv` says how
  much room the only one inside has: `HasRoom` follows it from the choice of the
  session to evict to the commit.
* `ClosedForGood` (`NeverReopened`): the part of the refinement that the guard of
  the gateway relies on, said of the keys in Redis themselves.
* `RecordsGrowOld` (`RecordsAge`) and `RowsAreClosed` (`RowsClosed`). A row
  goes from pending to active to revoked to deleted and a token from live to
  revoked to deleted, never back, although the statements that write them were
  decided on earlier. `RowsInv` says what a request may expect of the rows it is
  going to write (`Expects`: the row a login inserted is still pending, its
  victim is committed and, while it holds the lock, not deleted) and that two
  logins never insert the same row (`Distinct`).
* `UndertakingsAreKept` (`UndertakingsKept`): an id that a request is going to
  take out of Redis stays on its list until the key is gone, or the request dies
  or has a call rejected.
* `RequestsCountDown` (`CountsDown`) and `RequestsGoOn` (`NeverStuck`): what
  `RequestsEnd` rests on. `Left` counts the awaits a request has still ahead of
  it; its own steps make it smaller, other requests and jobs never larger. As
  long as it is not 0, the request can take a step or waits for a row that the
  login of another request has locked, and that login can commit. `BusyInv` says
  that a request which closes something has a call left to make, `SpareInv` that
  the ids of sessions and tokens which a request will need are reserved for it.

`UserAccountProofs` shows for any number of requests, passwords, attempts,
blocks and tokens, and for behaviours with any number of stale writes:

* `TypeCorrect`. `TypeInv` adds to `TypeOK` that a token presented by a request
  was issued. That the counter of failed attempts stays within its limit rests
  on the condition of `LoginCount`, read in the same statement.
* `NobodyTrapped` (`NotTrapped`) and `AddressStaysVerified`
  (`VerifiedForGood`). Both speak of the row, and a request may write the whole
  row long after it has read it. The invariant `CopyInv` therefore says of each
  such request what it has made of the entity (`Faithful`): its counter and its
  block are as they were read, and so are `verified` and `status` unless both
  were set by the verification. `WriteVerified` and `TrapWrite` use it at the
  three actions that write the row, the other actions touch few columns.
* `TokensServeOnce` (`SingleUse`). Requests hold copies of the row, and any of
  them may bring a token back. `TokenInv` says of each copy (`Carries`) that a
  token in the entity is either the one that was read, in which case writing it
  back is recorded in `lost`, or one that nobody else has (`Unseen`).
* `ConsentFollows` (`ConsentGoesWithPassword`). `ConsentInv` says that nothing
  moves while the profile of a worker is being inserted (`Secluded`), and that
  afterwards the row and all copies of it still oblige the worker to change the
  password (`StillMust`) until a first login writes.

`CompanyMembershipProofs` shows for any number of users, members and requests:

* `TypeCorrect`. `TypeInv` adds that the row a request is about to write was
  inserted, and that rows not yet inserted are `Gone`.
* `AnOwnerRemains`, `OwnersAreMadeByOwners`, `RemovedForGood`. The invariant
  `SafeInv` says of each request what it may rely on although rows change
  between its reads and its write (`OpOk`): the row of a transaction cannot go
  away under it (`Apart`: no two have written the same row), a write of the role
  OWNER goes back to an owner, and the owners it counted stay owners until
  another counting transaction commits, which aborts it, or a plain write takes
  one away.
* `OneMembershipEach` (`OneRowEach`), `NobodyIsLeftBehind` (`NoMemberLeft`) and
  `RowsKeepTheirUser` (`UserKept`). The whole row is written from a copy read
  earlier, and the account of a worker is there before its row. `PeopleInv` says
  that the copy is about the user whose row it is (`Knows`), that a worker who is
  being placed is known to auth-service and has no row, and that no two requests
  place the same one (`PlacedOnce`). That a counting transaction does not bring
  the row of a deleted company back is `SafeInv` again.

`TwoFactorProofs` shows for any number of requests, devices, countries, secrets
and lots of codes, and, unlike the run, for behaviours with any number of writes
that came too late:

* `TypeCorrect`, `SecretProven` (`SecretIsProven`), `CodesGoWithFactor`
  (`CodesFollowFactor`), `NotBypassed` (`NoBypass`), `DeadCodesStayDead`
  (`NoDeadCode`), `CountriesKept` (`CountriesAsAsked`). They share one invariant,
  `FactorInv`. Its part about the tables is `CodesInv`: unless `hurt` says
  otherwise, the codes are of one lot, and when the factor is off they are gone
  or somebody is about to delete them. Its part about a request is `Ok`: a login
  that the factor guards is asked for it (`Sealed`), a code that was dead when
  the request began is not found (`Buried`), an activation whose readings still
  stand activates what it has proved (`Backed`), the old codes are gone when the
  new ones are inserted (`Emptied`), and a list of countries that is going to be
  written is the one in the row (`Listed`); the last three unless another write
  came in between (`stale`).

`GatewayProofs` shows for any number of requests, routes and retries:

* `TypeCorrect`, `WrittenOnce` (`WritesOnce`), `AnswersAreTrue` (`AnswerIsTrue`),
  `ClosedIsStopped` (`ClosedSessionStopped`), `MaintenanceKept`
  (`MaintenanceHolds`). The invariant `GateInv` says for each request how often
  it was executed given where it is and what is still in flight (`Counted`),
  that its answer agrees with that (`Truthful`), what it knows of its session
  (`SignedOff`) and of the mode (`Warned`, `Informed`), and that a cache which
  says "off" is right or has been overtaken by a switch (`CacheOk`).
  `MaintenanceKept` counts the ways past the guard; that they should not be there
  is `gateway_maintenance`.
* `RequestsAreServedSoon` (`ServedSoon`): a request has at most
  `6 * MaxRetries + 9` steps of its own ahead of it, two calls with all their
  attempts, and each of them makes that number smaller. It uses `Counted`: what
  was given up and may still be executed is one attempt each.

`ApiRoutesProofs` evaluates nothing but reasons about the tables row by row:
`ErrorsKept` (for every error of the factories), `RolesKept`, `TokensKept`,
`RoutesAgreed` (for every route, as `Agreed` has it, exceptions included), and
`SeedSettles`, which speaks of any contents of the tables of roles before the
seed runs. Except for the last, these are statements about constants: no step
can break them, so no run checks them. They say that the two sides of a table
fit, or where exactly they do not.

`NotificationProofs` shows for any number of operations, attempts, crashes and
rollbacks:

* `TypeCorrect`, and `Refinement`: `Notification` implements `MailDelivery`
  (`Delivery`). Most steps are `Hit` or a stutter (`MovesImplement`); the others
  are the commit (`Commits`), the mail that reaches the mailbox (`Arrives`) and
  the end of a job (`Completes`). Their invariant, `MailInv`, says of each
  operation what has happened before there is a job (`Asked`), that only the
  attempt under way has a request somebody waits for (`Attempted`), that attempts
  fail for a reason outside and jobs only for more of them than the retries cover
  (`Reasons`), and that Resend knows the key of a mail exactly when it has
  arrived, once (`Sent`). A key is the id of a job, and ids are given once unless
  Redis went back (`Numbered`): this is why a key that is known tells which mail
  it came from.
* `MailsCountDown` (`CountsDown`) and `MailsGoOn` (`NeverStuck`): what `Settles`
  rests on. `Left` adds up what the request in auth-service, the report and the
  job with its retries and its second run after a crash have still to go through.
  No fault makes it larger, each step of the operation makes it smaller, and
  until the mail is settled and the report filed one of the fair steps is
  possible, or the job waits for the worker or for the one job under way
  (`Waits`). `GoingInv` adds to `MailInv` that only a running worker has a job
  under way and that a report is due where its request waits for it.
* `CatalogueSound` is proved from the tables: every mail of the catalogue has a
  template and brings every variable the template needs.

`StoredDataProofs` shows for any number of requests, companies, users and
instants:

* `TypeCorrect`, `ImagesAreStored` (`ImagesStored`), `EditsAreKept`
  (`EditsKept`), `SettingsAreAgreed` (`SettingsAgree`). All rest on `Aware`: of
  two requests under way on one row, each has `overlap` set; so the copy of a
  request without it is still the row. For companies and profiles the invariant
  says what else a copy may get wrong (`Copy`, `Draft`): the URL in it is right
  unless the image is unsettled, and an object that was moved is where the
  request will say it is. For flags it speaks also of rows that are not there:
  one that a request has read may be deleted and come back with the same id
  (`ForAll`, `ForAllOverlapped`). For windows it says that one which an
  accepted request would overlap by now was scheduled meanwhile (`Scheduler`).
  `EditsKept` does not forbid a lost update: of requests that overlap it says
  nothing about the columns they carry, and of a flag that was deleted and set
  again nothing at all.

Assumptions: the null values differ from the ids, the bounds are naturals,
`Notification` has finitely many operations, and, as hypotheses of one theorem
each, there are finitely many devices (`CapHolds`) and finitely many requests
(`RequestsGoOn`, which counts those that have an id reserved). `StoredData` needs
none.

Only model-checked: the liveness properties `RequestsEnd`, `ClosingTakesEffect`
and `Settles`, because the provers handle neither fairness nor ENABLED. What is
proved of them is everything but the step from fair actions to an end: a measure
in the naturals that each step of the request makes smaller, and that a step is
possible as long as the measure is not 0. That a step is possible is spelled out
(`MayStep`, `MayGoOn`: the guards of the actions, with the rows and ids they look
for), not written ENABLED. Also only checked are the four properties that the
code violates.

## 5. Not modelled, and the plan

Components that are not modelled are listed with the reason in `PROJECT.json`:

* the WebSocket queue and gateway of notification-service: no service asks for a
  broadcast, and its delivery is best effort;
* statistics, the audit logs of company-service and config-service: written and
  never read back by the program;
* validation of bodies, messages and their translation, metrics, logging,
  Swagger, modules and their wiring, docker files: none feeds back into the
  state above. A request that validation refuses is a request that does nothing;
* hashes, signatures, encryption of the TOTP secret and the processing of
  images are taken as perfect, the latter as a test that may refuse a file.

What comes next:

1. Registering a worker end to end, composing `CompanyMembership` with
   `UserAccount` across the HTTP call.

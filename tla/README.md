# KopaBridge: models, checks and proofs

KopaBridge (`src/apps/api`, NestJS, Prisma on Postgres, BullMQ on Redis) lets a
user connect a pay-as-you-go energy provider, copies the user's payment history
from it in a background job, and shows lenders a score computed from that
history. These TLA+ modules describe the parts of it in which order, overlap and
failure decide what happens. TLC explores them on small instances, and TLAPS
proves the most important properties for every value of the constants.

Paths below are relative to `src/apps/api/src` unless they start with `src/`.

## 1. The system

| Component | State it keeps | Operations that change it | Code |
|---|---|---|---|
| Provider connection | signed OAuth states (stateless JWTs, 10 minutes) | `connect`, `callback`, `create` | `providers/` |
| Consents | table `ProviderConsent`: token (encrypted), revoked, expiresAt; a partial unique index on unrevoked (user, provider) | `createConsent`, `revokeConsent`; time | `consents/` |
| Sync queue and worker | queue `provider-sync` in Redis; locals of each run; tables `EnergyAccount`, `PaymentHistory` | `enqueueInitialSync`, `process`/`runSync`; BullMQ's retries and lock loss | `sync/` |
| M-KOPA connector, normalizer | none | none (pure) | `providers/connectors`, `providers/normalizers` |
| Energy accounts | table `EnergyAccount` | `create` | `energy-accounts/` |
| Sessions | `User.failedLoginAttempts`, `User.lockedUntil`, table `RefreshToken`; the browser's cookie | `login`, `refresh`, `logout` | `auth/auth.service.ts`, `auth/auth.controller.ts` |
| Password recovery | table `PasswordResetToken`, `User.password` | `forgotPassword`, `resetPassword` | `auth/auth.service.ts` |
| Registration and users | table `User` | `register`, `createUser`, `softDeleteUser` | `auth/`, `users/` |
| Access control | access tokens (stateless JWTs, 15 minutes); the account is read again on every request | none | `auth/guards`, `auth/strategies`, `common/utils` |
| Payments | table `PaymentHistory` | `create` | `payments/` |
| Credit score and profile | none (computed on request) | none | `credit-score/`, `credit-profile/` |
| Vault | none; a key from the environment | none (pure) | `vault/` |
| Configuration | the environment of a container | validation when the application starts | `config/`, `main.ts` |
| Health, metrics, logging | none | none | `health/`, `metrics/`, `common/` |
| Schema, start-up, seeds | `_prisma_migrations`, unique indexes, the demo rows, where the container is | migrations with retries, upserts of demo data, start, restart | `src/apps/api/prisma`, `src/apps/api/docker-entrypoint.sh`, `src/docker-compose*.yml` |

**How the parts interact.** `callback` verifies the state, exchanges the code,
writes a consent and enqueues a job, in that order and with no transaction
around the last two. The job carries only the user and the provider; the worker
loads the consent itself, decrypts its token, asks the connector for the history
and upserts the account and then its payments one by one. Payments entered by
administrators land in the same table. Profile and score requests read those
tables. Authentication shares only the table `User` with the rest. Before any of
this the container's entrypoint applies the migrations, seeds the demo rows if it
is told to, and starts the application, which refuses an invalid environment;
compose may start it again whenever it ends. The seed writes to the tables users
write to.

**What is hard.**

- *Interleaving.* Every `await` is a point where other requests and workers run.
  Two callbacks of one user, two refreshes of one token, two resets, two
  registrations of one email all overlap.
- *Stale reads.* `login` writes counters it read before bcrypt; `refresh` and
  `resetPassword` write by an id they read earlier; a run uses the consent it
  loaded at its start until its end; a profile reads twice.
- *Partial failure.* `callback`, `runSync` and `refresh` are several writes each
  without a transaction.
- *Crash and redelivery.* BullMQ delivers a job again when its lock is lost,
  while the first worker may still be running it; a failing job is attempted
  three times in all, with a backoff.
- *Lost and reordered replies.* A browser learns its next refresh token from a
  reply. The reply may be lost, overtaken by that of another tab, or never sent
  because the server failed between two writes.
- *Crash and restart of the container.* It may die inside a migration, between
  two rows of the seed, or while it serves, with the database away or not; the
  entrypoint's retries are bounded, its restarts are not.
- *Time.* OAuth states, consents, refresh tokens, reset tokens and lockouts
  expire between any two steps.

**What makes each part correct.** At most one unrevoked consent per user and
provider; no job without a consent and no payment without one; no hole in a
copied history; a completed job did its work; every job finishes; an account
keeps its owner; a withdrawn consent is not used again. A closed session stays
closed; a disabled user stays out; the lockout columns agree; a reset token
changes a password once; a browser that loses nothing and overlaps nothing is
never taken for a thief. What serves has its schema, a valid configuration
and its demo rows, and comes up again after a failure. One account per email,
and the loser of a race is told so. The score is the stated function of the
history, and what is shown together belongs together. `PROJECT.json` lists,
under `hazards`, each place where one of these could break, with its line and
the properties about it.

## 2. The modules

| Module | What it is |
|---|---|
| `ConsentSync` | connection, consents, queue, worker and accounts composed: the core of the system |
| `ConsentSyncProofs` | its theorems, and when the syncs of different users stay apart |
| `DataSharing` | abstract specification: grants, their use, owners, histories copied in order; `ConsentSync` implements it |
| `DataSharingProofs` | the refinement, and what an expired consent blocks |
| `MkopaConnector` | what of a code survives in the token and the account number of the mock connector |
| `SessionLifecycle` | abstract specification: a session is opened once and closed for good |
| `Sessions` | login, lockout, rotation, logout, recovery, deactivation; implements `SessionLifecycle` |
| `SessionsProofs` | its theorems, the refinement among them |
| `BrowserSession` | `Sessions` with the cookie of one browser and the calls of its tabs |
| `BrowserSessionProofs` | that it implements `Sessions`, and its theorems |
| `Registration` | the race for an email on both endpoints |
| `RegistrationProofs` | its theorems |
| `Startup` | migrations, seed, configuration, crashes and restarts; `Registration` while it serves |
| `StartupProofs` | its theorems, and that `Registration` keeps its own across restarts |
| `AccessControl` | the global guards, the re-read of the account, the owner check |
| `AccessControlProofs` | its theorems |
| `CreditProfile` | payments, score, rating, profile, and who may see them |
| `CreditProfileProofs` | its theorems; the score of a history by induction over its length |
| `MC*` | instances for TLC: constants, symmetry, and in `MCSharedAccount` the composition of `ConsentSync` with `MkopaConnector` |

Every definition that models code is listed under `map` in `PROJECT.json` with
the lines it stands for. Definitions marked `Fault:` are not part of any
specification; each is what a plausible mistake would make of the definition
that follows it, and the property named with it under `mutants` must fail when
it takes that place.

### ConsentSync

| Variable | Code |
|---|---|
| `oauthStates` | JWTs that `OAuthStateService.verify` still accepts. They are not stored, so one may be presented any number of times; two of one payload are the same |
| `requests` | a `callback` between two awaits, with the process it runs on |
| `consents` | rows of `ProviderConsent`; `expired` stands for `expiresAt < now` |
| `jobs` | BullMQ jobs: state, holder of the lock, attempts made, stalls |
| `workers` | the one run each API process may have under way: where it is, and the consent it loaded |
| `accounts` | rows of `EnergyAccount`, by their unique `accountNumber` |
| `payments` | the `paymentReference`s present. Amount and status are functions of the reference, so an upsert of an existing row changes nothing |

`callback` is `Callback`, `CreateConsent`, `EnqueueInitialSync`: one action per
effect. `RequestFails` is an exception at any of the points between, and leaves
behind what was written. `runSync` is `LoadConsent` or `SkipSync`,
`UpsertAccount`, one `UpsertPayment` per iteration, `CalculateScore`;
`SyncFails` is a throw at any of them. `Report` is how BullMQ takes the outcome:
only from the holder of the lock. `JobStalls` is a lock that expired under a dead
worker or a live one, `Promote` the end of the backoff, and `Crash` a process
dying with its requests and its run. The conditions of the guards are those of
the code and of the indexes: `Unrevoked` is the partial index, which ignores
`expiresAt`; `DeviceTaken` is the unique `deviceId`.

The read of the owner in `revoke` is merged with the update, because an owner
never changes. A consent is identified by a uuid, so `ConsentId` bounds how many
are ever created and nothing is reused.

`DataSharing` says what all this is for without saying how. Its grants are the
consents, `active`, `lapsed` (expired) or `withdrawn` (revoked); `inUse` are the
consents that some run holds, `owner` the users of the accounts, `copied` the
payments. Callbacks, jobs, reports, stalls, backoffs and the second run of a job
are stutters; loading a consent begins a use, a run's end or a crash ends it
unless another run holds the same consent.

### Sessions and SessionLifecycle

`users` keeps password, `active`, the attempts and the lock (`none`, `locked`,
`over`: `lockedUntil` null, in the future, in the past). `tokens` and
`resetTokens` keep the rows of both token tables, expiry being a step of its
own. `requests` holds every request with what it has read so far:

| Handler | Actions |
|---|---|
| `login` | `ReadUser`, then after bcrypt `FailLogin` or `PassLogin`, then `OpenSession` |
| `refresh` | `PresentToken` (or `DetectReuse`), `RevokePresented`, `IssueNext` |
| `logout` | `Logout` |
| `forgotPassword` | `ForgetPassword` (deletes unused tokens), `IssueResetToken` |
| `resetPassword` | `PresentResetToken`, after bcrypt `CommitReset` (one transaction) |
| `softDeleteUser` | `SoftDeleteUser`; a service method that no controller calls yet |
| time, failures | `LockEnds`, `TokenExpires`, `ResetTokenExpires`, `RequestFails` |

A read is merged with the write after it only where what was read never changes
back, so that nothing between the two could matter: logout, reuse detection,
`forgotPassword`. The last write of a handler ends its request. Access tokens
are stateless and left out. Reset tokens reach their user outside this code
(sending the mail is a comment in `forgotPassword`): the model lets any user
present any reset token of theirs.

The refinement maps a family of tokens to `none` when it has no token, to `open`
while one of its tokens is live or a refresh of it is under way, and to `closed`
otherwise. That is the strongest life cycle the code implements: without the
refreshes under way a session could be seen to reopen (finding *revived* below).

### BrowserSession

`cookie` is the refresh token in the browser's jar, `calls` what its tabs have
under way: on the network, in the server, or answered and not yet delivered.
Every step is a step of `Sessions` or leaves its variables alone, so what holds
of `Sessions` holds here.

| Code | Actions |
|---|---|
| a tab sends, and takes the reply's `Set-Cookie` | `Send`, `Deliver` |
| `AuthController.login` | `LoginArrives`, `LoginGoesOn` |
| `AuthController.refresh` | `RefreshArrives`, `RefreshGoesOn` |
| `AuthController.logout` | `LogoutArrives`: it clears the cookie with or without a token |
| 401 | `Refused` |
| failures | `CallFails` in the server, `Lose` on the way |

The controller prefers a token in the body to the cookie; a browser's tabs send
none. `mishap` is history: whether two refreshes were ever under way at once, and
whether a token that a refresh had earned was ever lost. Expiry, lockouts ending
and deactivation come from `Elsewhere`; password resets are left to the runs of
`Sessions`.

### Registration

A request looks the email up, hashes the password, and inserts. `register`
turns the unique violation into a 409; `createUser` lets it through, and the
exception filter answers 500. `InsertFails` is every other failure, and
`AnswerLost` the one in which the row was written all the same.

### Startup

| Variable | Code |
|---|---|
| `schema` | `_prisma_migrations`: migrations applied, and whether one was begun and not finished (Prisma refuses to go on after it: external) |
| `providers`, `accounts`, `history` | the tables the seed writes, as far as its unique columns and its count read them |
| `container` | where the entrypoint or the application is, the attempts it made, what the seed counted |
| `env` | its environment, by the classes of values that `app.config.ts`, the entrypoint and compose tell apart |
| `dbUp` | whether Postgres answers |
| `mishaps` | bound: crashes, outages and deployments so far |

The loop of `docker-entrypoint.sh` is `BeginMigration`, `FinishMigration`,
`MigrateFails`, `MigrationsApplied`. The seed is one action per statement
(`SeedUser` to `SeedPayments`), because it has no transaction; its upserts have
an empty update. `seed.ts` and `seed.cjs` do the same. `Boot` and `BootFails` are
the configuration, the database connection and `listen`; `ListensOnPort` is apart
from `ValidConfig` because `PORT` is checked by `parseInt` and then used as it
stands: a number with text behind it is accepted and taken for the name of a
pipe, and an empty `PORT` is accepted and refused by `listen`, which ends the
process. `Crash`, `DatabaseDown`, `DatabaseUp`, `Deploy` and `Restart` are the
surroundings; a request that was being served when the container died is
answered by an error (`CutOff`). While the application serves, users register,
open energy accounts and administrators create providers and payments
(`Register`, `CreateAccount`, `CreateProvider`, `EnterPayment`), which is where
the seed's rows meet theirs. One container runs at a time, as compose has it.

### AccessControl

`users` has role and activity, `tokens` the claims of access tokens that have not
expired, `requests` the calls inside the guards or their handler with what
`req.user` holds. `Validate` is `JwtAuthGuard` with `JwtStrategy.validate`: the
token names the caller, the row decides. `PassPublic` is the `@Public()` branch,
`PassRoles` is `RolesGuard`, `Serve` the handler with its `assertSelfOrAdmin`,
`Reply` its answer or a refusal. `SignToken` may sign any claims, because login
and refresh sign a row they read some time before. Nothing in the API changes a
role; `ChangeRole` is an operator doing so in the database, which the comment in
`jwt.strategy.ts` provides for.

### CreditProfile

Payments are added by administrators (`CreatePayment`, with `mapStatus` on one
word per branch, in mixed case) and by the worker (`UpsertPayment`, in the
provider's order). A profile request reads accounts and payments (`ReadProfile`,
the accounts in any order, for the query has no `orderBy`) and then the score of
the first account (`Answer`); a score request checks the owner
(`FindAccountOwner`) and then reads (`Answer`); what was answered stays in
`requests` for `AnswersBelongToCaller`. The nested reads Prisma makes
for one `include` are one step: payments are never removed, so a profile whose
nested queries were apart shows what one taken at the last of them shows, except
that an account created in between would be missing from it. `Role.ADMIN` is
compared symbolically: how the Prisma client spells an `@map`ped enum at run time
is the library's matter. Refused and failed requests change nothing and are left
out.

## 3. The runs

Every run is a small instance chosen so that the cases in its last column occur.

| Run | Bounds | What it shows |
|---|---|---|
| `connect` | 2 users, 2 consents, 2 jobs, 2 requests, 1 process, 2 payments, both users' tokens open one account | `OneActiveConsent`, `JobHasConsent`, `CompletedMeansSynced`, `OwnerIsPermanent`, `WithdrawnStaysReleased`, `LapsedBlocksRenewal`, `ImplementsDataSharing` while callbacks of one pair race, and one user's sync meets the other's account |
| `redelivery` | 1 user, 1 account, 2 consents, 1 job, 2 processes, 2 payments, 2 attempts, 1 stall, crashes | `TypeOK`, `DataHasConsent`, `HistoryHasNoGaps`, `CompletedMeansSynced`, `WithdrawnStaysReleased`, `JobsRunOut`, and `JobsFinish` under `FairSpec`, while two processes run one job and a failed one is retried, perhaps under a renewed consent |
| `families` | `BrowserSession` with 3 refresh tokens and 2 calls; 1 failure locks; no resets | `CookieIsCurrent`, `OneLiveTokenPerSession`, `ImplementsLifecycle` while calls and replies are lost and reordered and the server fails between two writes |
| `recovery` | 3 reset tokens, 2 refresh tokens, 2 requests, 2 failures lock | `TypeOK`, `LockMatchesCounter`, `ResetTokensBounded`, `DisabledStaysOut` while logins and resets write from what they read earlier |
| `registration` | `Startup` with 2 emails (the seed's), 2 requests, 1 device, 1 migration, 2 attempts, 2 mishaps, 5 environments | `OneCreatorPerEmail`, `ConflictIsTrue`, `RegisterAnswersConflict` across restarts; `ServingIsReady`, `DemoHistoryWhole`, `RowsAreKept`, `StuckStaysDown`, `StartRunsOut`, `EventuallyServes` |
| `access` | 2 users, 2 requests of every kind of route | `ServedIsAllowed`, `DeactivatedStaysOut`, `DemotionTakesEffect` while roles change and accounts are deactivated under requests and tokens |
| `profile` | 2 accounts, 3 payments of any status, 1 reader | `TypeOK`, `ScoreIsReference`, `ScoreAccountsForSummary`, `AnswersBelongToCaller`, `ScoreNeverRises` |

Runs expected to end in a counterexample, each on something the repository says
of itself:

| Run | Property | What TLC finds |
|---|---|---|
| `unscheduled` | `ConnectionIsScheduled` | A process dies, or Redis refuses, after `createConsent` and before `enqueueInitialSync`: a usable consent without a job. A repeated callback fails on the unique index before it reaches the queue, so nothing repairs it. |
| `shared_account` | `SyncsOwnAccount` | Account numbers are the last six letters and digits of the token in upper case: two codes that agree there open one account, and the second user's payments are stored under the first's. |
| `revived` | `TerminationIsFinal` | A `refresh` that read its token before logout, reuse detection or a reset revokes it again and inserts the next token of the terminated family. |
| `one_time` | `OneTimeReset` | Two resets with one token both pass the test of `usedAt` before either commits. The update goes by the token's id, so both set their password and both callers are told of success; the first one's password does not log in. |
| `admin_conflict` | `BothAnswerConflict` | Two overlapping `createUser` requests for one email: the slower is answered 500, not 409. |

**Why the bounds are enough.** Two of whatever races are needed to race, and two
consents of one pair are needed for a renewal after a revocation. Two payments
are the history the code returns, and the least with a hole. Three refresh
tokens give a family a login and two rotations, or two families; three reset
tokens let two requests overlap with one more outstanding. Together the two
would be too many states, so `families` has no resets and `recovery` only two
refresh tokens; that sessions also keep their life cycle under resets is left to
the theorem. `ResetTokensBounded` bounds a user's unused tokens by the requests
that there can be at once, two in the run; requests that did not overlap leave
one. `redelivery` has one account, so that a retry under a renewed consent finds
the account of the first; and one job, so that no job waits behind another for a
worker. Both would take the states beyond what liveness can be checked on; the
safety theorems are for any number of either. Two mishaps are a crash and what meets its aftermath (a second
crash, the database away, another environment); the migrations are alike, so
that one of them that dies half way stands for any; the five environments are
those of the two compose files, the seed in production, and two mistakes. Three
payments of one account reach every rating and, with three defaults, the lower
clamp. Limits that the code sets (3 attempts, 5 failed logins, BullMQ's 1 stall)
are smaller in the runs, which only shortens the way to them; the theorems hold
for any. `NumPayments`, `MaxAttempts`, `MaxStalls`, `MaxFailed` and the sizes of
the id sets bound what a run can count; `MaxPayments` bounds the rows of
`CreditProfile`, in a guard, and `MaxMishaps`, `MaxRetries`, `NumMigrations` the
steps of `Startup`. Symmetry is taken over ids, passwords, emails and accounts,
which carry no meaning, and never under a fairness assumption.

**Deadlock** is not checked: uuids, finite in an instance, run out, and a system
that no one uses stops legitimately.

**Fairness.** `ConsentSync!FairSpec` assumes that a run takes its next step or
throws, that an idle worker takes a waiting job, that a backoff ends, and that an
expired lock is noticed: the event loop of a live process, BullMQ's blocking
fetch, its delayed set and its stalled check. Nothing is assumed of users,
providers, lock loss under a live worker, or crashes, which may go on for ever;
`JobsFinish` holds because attempts and stalls are limited. `Sessions!FairSpec` (every
request ends) is used by `revived` and `one_time` alone, so that their
counterexamples are those of a system that keeps going. `StartupSpec` assumes that the entrypoint goes on or
fails (`Proceed`), that Docker starts an exited container again where compose says
`restart: unless-stopped` (`Restart`), and that Postgres, which has the same
policy, comes back (`DatabaseUp`). Crashes, outages and deployments are owed to
nobody and are bounded by `MaxMishaps`: `EventuallyServes` is about what follows
the last of them. It excepts `Stuck`, the four states nothing inside the container
repairs, which `StuckStaysDown` shows to be as lasting as they look.

That a migration, a statement of the seed or the boot can succeed at all, given a
database that answers and a valid environment, is taken on trust, and some of it
may be doubted of Prisma 7 (`^7.9.1` in `package.json`): `prisma.config.ts` is not
among what the Dockerfile copies into the image, the datasource in
`schema.prisma` has no `url`, `PrismaService` builds its client without an
adapter, and `seed.cjs` writes `role: 'user'` where the client may want the name
of the enum's value. What the library makes of these cannot be read from this
repository. If one of them fails every time, the application never serves and
`EventuallyServes` is about a system that does not exist; the safety properties
do not depend on it.

## 4. The proofs

Thirty-nine theorems worth naming, in eight modules, for any users, providers, tokens, ids,
processes, environments and limits. Assumptions are those the modules name:
`AccountOf` maps tokens to account numbers, limits are natural numbers
(`MaxAttempts`, `MaxFailed` and `MaxRetries` not zero), `None` is no id, requests
are finite in number where they are counted, and the seed's emails and device are
among those there are.

*ConsentSync.*

- `TypeCorrect` rests on `TypeInv`: `TypeOK` with two facts it needs to be
  inductive. `QueueInv`: a job has a holder exactly while it is active, and a job
  that is not finished has attempts and deliveries left (or an increment could
  leave the range). `RunInv`: a run beyond its first query holds a consent of its job's
  user and provider, and its job exists.
- `OneActiveConsentHolds`: the index is read by the only action that inserts;
  the other actions never turn `revoked` back.
- `JobHasConsentHolds` needs `RequestHasConsent`: a request past `createConsent`
  has one, since rows persist (`RowsPersist`).
- `DataHasConsentHolds` and `HistoryHasNoGapsHolds` need `RunProgress`: what a run
  has behind it, up to its loop index, is stored. This is what survives a crash
  or a second run of the same job, because stored payments are never removed.
- `CompletedMeansSyncedHolds`: a job completes through `CalculateScore`, where
  `RunProgress` gives the whole history, or through `SkipSync`, where a consent
  was withdrawn or had run out; both explanations persist.
- `OwnersArePermanent` and `WithdrawnStaysReleasedHolds` are action properties,
  from `TypeInv` and the cases of `Next`.
- `JobsRunOutHolds` is the safety half of `JobsFinish`, for any limits. `Remaining`
  is a natural number that every change of a job makes smaller: a backoff, a wait
  and a run for each attempt and delivery left, and zero for a job that has ended.
  `QueueInv` gives both that it is natural and that the report of a run that lost
  its lock changes nothing. What is left to fairness is only that the next change
  comes.
- `DistinctNumbersKeepUsersApart` bounds the finding *shared_account*. It is about
  the behaviours of `OwnSpec(UserOf)`: every account number belongs to one user,
  callbacks carry codes that open accounts of the user who connects, and accounts
  entered by hand are of their user. There `SyncsOwnAccount` holds, since consents
  and accounts then agree on the user (`OwnRows`) and a run's consent is its job's
  (`RunInv`). The codes of `MCSharedAccount` meet all but the first, and the numbers
  of `MkopaConnector` are why.

*DataSharing.* `ImplementsDataSharingHolds` is the refinement, one lemma for each
kind of step. It rests on `SharingInv`: `TypeInv`; `DataInv`, from which the order
of a copied history follows; and `LoadingHoldsNone`, that a run still at its
first query holds no consent, without which loading would not be the beginning of
a use. `LapsedBlocksRenewalHolds` uses `OneActiveConsent`: an expired row is still
the one the index counts, and is not among those the worker's query returns.

*Sessions.* One inductive invariant serves all of these, the last with one more:
`TypeOK`; `ReferenceInv`, that a request refers to rows that exist and belong to
its user, and that a family's first token exists; `LoginInv`, that the values a
login carries agree with each other and show no lock in force; and
`LockMatchesCounter`. The last two depend on each other: a login writes values
it read long before, and only because every pair read agreed does every pair
written.

- `TypeCorrect` includes that the counter never passes `MaxFailed`, however many
  stale logins overlap; it is here that a lock being over must restart the count.
- `ImplementsLifecycleHolds` is the refinement: each action opens one family,
  closes a set of families, or leaves `Status` unchanged. The argument is that a
  live token is inserted only by `OpenSession`, into a new family, and by
  `IssueNext`, into a family that was open because of that very refresh.
- `DisabledStaysOutHolds` rests on `RequestMoves`: in one step a request starts,
  ends, or keeps its user and token.
- `ResetsApartAreOneTime` bounds the finding *one_time*: in the behaviours of
  `ResetsApartSpec`, where no two resets with one token overlap, `OneTimeReset`
  holds. A request takes up only an unused token, and a token becomes used only by
  the reset of a request that holds it (`UsedByCommit`), so `HeldUnused` is
  inductive there and nowhere else.
- `ResetTokensBoundedHolds` counts: a user's unused reset tokens and the requests
  that are about to insert one are together no more than there are requests
  (`ResetBoundInv`).

*BrowserSession.* `BrowserImplementsSessions` is by simulation, step for step;
`BrowserKeepsLifecycle` follows from it and the theorems of `Sessions`.
`OneLiveTokenPerSessionHolds` needs `BrowserInv`: as long as no two refreshes
have overlapped, at most one is under way, and once it has revoked the token it
was given no other token of that family is live, so that the one it inserts is
alone. `CookieIsCurrentHolds` needs `JarInv`: the browser's tokens exist
(`RowsInv`); a refresh in the server works on the token its call carried
(`Served`); every token in the jar, in a reply, or with a refresh that has not
yet revoked it is unrevoked or of a closed session, the jar's excepted while it
is being renewed (`SoundInv`); and the tokens in the jar and in the replies are
of different sessions, but for a refresh and the jar it came from (`Apart`).
Without the last, a session that is revoked under a refresh and then gets one
more token could leave an old one in the browser.

*Registration and Startup.* `RegistrationInv` adds `Settled` to the
properties of `Registration`: whoever was told `created` or `conflict` was told so
of an email that is stored. `RegistrationOutlivesRestarts` keeps it through
crashes, cut-off requests and the seed's own inserts. `StartupInv` says, for each
place the entrypoint can be at, what it has behind it: the schema is whole past
the migrations (`Migrated`), the rows of the earlier statements are there past
each statement of the seed (`Seeded`), the count is still true when the payments
are written (`Counted`), and the environment was valid when it serves (`Booted`).
The count stays true because nobody is served while the seed runs. With it,
`ServingIsReadyHolds`, `DemoHistoryWholeHolds`, `RowsAreKeptHolds` and
`StuckStaysDownHolds` are short. `StartRunsOutHolds` needs one fact more,
`Retrying`: an attempt under way is one of those allowed, so that `StepsLeft` is a
natural number. Each move of the entrypoint makes it smaller, those of a failing
attempt too, because a failure is counted before the loop goes round; a crash
sets it to zero, and requests, outages and the seed's rows do not touch it.

*CreditProfile.* `AnswersBelongToCallerHolds`: the owner is checked in one query
and the data read in another, and `OwnerInv` is that the answer to the check stays
true, since no action gives an account another owner.

The other four are about the score, a fold over a history of any length. The
prover cannot be given an induction rule over a predicate, so the induction is
over a *set* of lengths: `LeastOfSet` gives a nonempty set of naturals a least
element (from the well-foundedness of `<`), and `SetInduction` makes of it that a
set with 0 and with every successor is all of them. `FoldLeft` is a choice of a
recursive function, so it has to be shown that there is one (`LoopExists`), after
which `LoopIsReference` computes it: the loop is at 100 less the costs of the rows
read. Then:

- `ScoreIsReferenceHolds`: clamping the sum and rating it agree with the reference
  (`RatingIsRank`), for histories that are what the two writers make of them
  (`RowsInv`: rows of the known statuses; a row of the sync has the provider's
  status, so that repeating its upsert changes nothing).
- `ScoreNeverRisesHolds`: a history changes only by a row at its end
  (`PaymentsAppend`), and a row costs something or nothing (`AppendNeverRaises`,
  `RankMonotone`).
- `TypeCorrect` and `ScoreAccountsForSummaryHolds` need `ReadInv`: `OwnerInv`,
  `RowsInv`, finitely many accounts, and for every request what it has read
  (`Sound`): the summary of a single account counts a part of that account's
  history (`Covers`), which stays so as the history grows (`CoversGrow`), and the
  score answered later is of a history that contains it.

*AccessControl.* `IInv` adds to `TypeOK` what each guard has established of the
requests that are past it (`GuardsHold`), from which `ServedIsAllowedHolds`
follows. `DeactivatedStaysOutHolds` and `DemotionTakesEffectHolds` rest on a lemma
that a request only ever starts with the role and activity its user's row has in
that very step.

**Checked by TLC only.** `JobsFinish` and `EventuallyServes`, because liveness
under fairness is beyond the provers; their safety halves, that a job and a start
run out of steps, are proved. And the five counterexamples. Every invariant and
every action property of the passing runs is a theorem.

## 5. What is not modelled

- *Contents:* amounts, dates, names, emails as text. The normalizer renames
  fields.
- *Vault:* AES-256-GCM over `v1.iv.tag.ciphertext`, or the same without `v1` in
  older rows, with a key from the environment. It keeps no state; a `decrypt`
  that fails is one of the ways `SyncFails` happens. Keys are not modelled, nor a
  deployment that changes them, after which no stored token can be read.
- *Throttling* limits rates, not outcomes. The token of the metrics endpoint and
  the filters by which listing endpoints narrow what a user sees are left out, as
  are the endpoints that only list.
- *Health, metrics, logging:* output only.
- *Two containers at once*, as a scaled deployment would have them: compose names
  one. `ConsentSync` has several processes all the same.
- A payment or account that a user made under the demo's number gets the seed's
  three payments as the demo's own would: `Startup` keeps the rows but does not
  judge whose history it is.
- Resets from a browser: the mail leaves the system.
- *Postgres and Redis* are external: a statement is atomic, a unique index holds,
  a committed row stays, Redis keeps its queue. `scheduled-refresh` jobs run the
  same code as `initial-sync` and are enqueued nowhere.

## 6. Plan

Done, in this order: `ConsentSync` with its proofs; `MkopaConnector`;
`SessionLifecycle`, `Sessions` and their proofs; `Registration`;
`CreditProfile`; `AccessControl` and its proofs; `DataSharing`, which
`ConsentSync` implements; `BrowserSession`; `Startup` over `Registration`; proofs
of each of these, the score's by induction; that jobs and starts run out of
steps; and when the syncs of different users stay apart.

Left, in the order of what it would add:

1. `AccessControl` composed with `Sessions`: what the access tokens of a session
   that was terminated can still do, and for how long.
2. `Vault` as pure operators with keys: which stored values `decrypt` takes for
   ciphertext, before and after a key changes.
3. Two containers at once: migrations under Prisma's advisory lock, two seeds.
4. `JobsFinish` with several jobs waiting for one worker, if the state space allows.

---- MODULE ConsentSync ----
(***************************************************************************)
(* The connection pipeline of KopaBridge.  A user asks to connect a        *)
(* provider and receives a signed OAuth state; the provider redirects to   *)
(* the callback, which exchanges the code for a token, records a consent   *)
(* and enqueues a sync job; a BullMQ worker re-reads the consent and       *)
(* upserts the energy account and its payment history.                     *)
(*                                                                         *)
(* Every await of the source is a point where other requests and workers   *)
(* run, so a handler is as many actions as it has effects on shared state. *)
(***************************************************************************)
EXTENDS Naturals, FiniteSets

CONSTANTS
  User, Provider,  \* Provider: the slugs ProviderRegistryService knows
  Token,           \* access tokens an OAuth code can be exchanged for
  AccountNumber,   \* account numbers, of the provider's or typed in by hand
  AccountOf,       \* the account number the provider reports for a token
  Serial,          \* device ids that are not of the form slug-accountNumber
  ConsentId, JobId,  \* uuids; their number bounds the run
  Request,         \* callback requests that can be in flight at once
  Instance,        \* API processes, each hosting one worker (concurrency 1)
  NumPayments,     \* length of the payment history the provider returns
  MaxAttempts,     \* attempts option of the job
  MaxStalls,       \* BullMQ's maxStalledCount
  None

ASSUME AccountOfAssumption == AccountOf \in [Token -> AccountNumber]
ASSUME BoundsAssumption ==
  /\ NumPayments \in Nat
  /\ MaxAttempts \in Nat \ {0}
  /\ MaxStalls \in Nat
ASSUME NoneAssumption ==
  /\ None \notin ConsentId \cup JobId \cup Instance \cup User
  /\ None \notin Token \cup Provider

VARIABLES
  oauthStates,  \* signed states that have not expired yet
  requests,     \* the callback requests being handled
  consents,     \* table ProviderConsent
  jobs,         \* queue provider-sync; finished jobs are kept in Redis
  workers,      \* what the worker of each instance is doing
  accounts,     \* table EnergyAccount, by accountNumber
  payments      \* paymentReferences present in table PaymentHistory

vars == <<oauthStates, requests, consents, jobs, workers, accounts, payments>>

-----------------------------------------------------------------------------
(* The rows and records. *)

Pair == [user : User, provider : Provider]

Index == 1..NumPayments

PaymentReference ==
  [provider : Provider, account : AccountNumber, index : Index]

\* The deviceId a sync synthesizes from the slug and the account number.
DeviceId(p, a) == [provider |-> p, account |-> a]

Device == [provider : Provider, account : AccountNumber] \cup Serial

EnergyAccount == [user : User, provider : Provider, deviceId : Device]

NoAccount == [user |-> None]

Consent == [user : User, provider : Provider, accessToken : Token,
            revoked : BOOLEAN, expired : BOOLEAN]

NoConsent == [user |-> None]

\* Redis' view of a job.  holder is the instance whose lock is on the job.
Job == [user : User, provider : Provider,
        state : {"waiting", "active", "delayed", "completed", "failed"},
        holder : Instance \cup {None},
        attempts : 0..MaxAttempts, stalls : 0..(MaxStalls + 1)]

NoJob == [user |-> None]

CallbackRequest == [pc : {"verified", "created"}, on : Instance,
                    user : User, provider : Provider, token : Token]

NoRequest == [pc |-> "none"]

\* index is the position of the next payment of the history to write.
Worker == [pc : {"load", "account", "payments"}, job : JobId,
           consent : ConsentId \cup {None}, index : 1..(NumPayments + 1)]

Idle == [pc |-> "idle"]

ConsentIds == {c \in ConsentId : consents[c] # NoConsent}
JobIds == {j \in JobId : jobs[j] # NoJob}
Finished(j) == jobs[j].state \in {"completed", "failed"}

\* The unique partial index on (userId, providerId) WHERE revoked = false:
\* it does not look at expiresAt.
Unrevoked(u, p) ==
  {c \in ConsentIds : /\ consents[c].user = u
                      /\ consents[c].provider = p
                      /\ ~consents[c].revoked}

DeviceTaken(d) ==
  \E a \in AccountNumber : accounts[a] # NoAccount /\ accounts[a].deviceId = d

\* The account a worker writes, from the consent it loaded and decrypted.
ProviderOf(w) == consents[workers[w].consent].provider
AccountNumberOf(w) == AccountOf[consents[workers[w].consent].accessToken]

Init ==
  /\ oauthStates = {}
  /\ requests = [r \in Request |-> NoRequest]
  /\ consents = [c \in ConsentId |-> NoConsent]
  /\ jobs = [j \in JobId |-> NoJob]
  /\ workers = [w \in Instance |-> Idle]
  /\ accounts = [a \in AccountNumber |-> NoAccount]
  /\ payments = {}

-----------------------------------------------------------------------------
(* The handshake: ProvidersController.connect and .callback. *)

\* connect: the caller is u or an admin; the state binds the user and the
\* provider.  States with the same payload are not told apart.
Connect(u, p) ==
  /\ oauthStates' = oauthStates \cup {[user |-> u, provider |-> p]}
  /\ UNCHANGED <<requests, consents, jobs, workers, accounts, payments>>

\* Ten minutes after it was signed the state no longer verifies.  Until then
\* it may be presented any number of times.
StateExpires(s) ==
  /\ s \in oauthStates
  /\ oauthStates' = oauthStates \ {s}
  /\ UNCHANGED <<requests, consents, jobs, workers, accounts, payments>>

\* callback, up to createConsent: verify the state for this slug and exchange
\* the code for a token.
Callback(r, i, s, t) ==
  /\ requests[r] = NoRequest
  /\ s \in oauthStates
  /\ requests' = [requests EXCEPT ![r] =
       [pc |-> "verified", on |-> i,
        user |-> s.user, provider |-> s.provider, token |-> t]]
  /\ UNCHANGED <<oauthStates, consents, jobs, workers, accounts, payments>>

\* Fault: no unique index.
CreateConsentUnchecked(r, c) ==
  /\ requests[r].pc = "verified"
  /\ consents[c] = NoConsent
  /\ consents' = [consents EXCEPT ![c] =
       [user |-> requests[r].user, provider |-> requests[r].provider,
        accessToken |-> requests[r].token,
        revoked |-> FALSE, expired |-> FALSE]]
  /\ requests' = [requests EXCEPT ![r].pc = "created"]
  /\ UNCHANGED <<oauthStates, jobs, workers, accounts, payments>>

\* Fault: the index looks at expiresAt too.
CreateConsentAfterExpiry(r, c) ==
  /\ requests[r].pc = "verified"
  /\ consents[c] = NoConsent
  /\ \A d \in Unrevoked(requests[r].user, requests[r].provider) :
       consents[d].expired
  /\ consents' = [consents EXCEPT ![c] =
       [user |-> requests[r].user, provider |-> requests[r].provider,
        accessToken |-> requests[r].token,
        revoked |-> FALSE, expired |-> FALSE]]
  /\ requests' = [requests EXCEPT ![r].pc = "created"]
  /\ UNCHANGED <<oauthStates, jobs, workers, accounts, payments>>

\* createConsent: the insert, refused by the unique index (see RequestFails)
\* while an unrevoked consent of the pair exists.
CreateConsent(r, c) ==
  /\ requests[r].pc = "verified"
  /\ consents[c] = NoConsent
  /\ Unrevoked(requests[r].user, requests[r].provider) = {}
  /\ consents' = [consents EXCEPT ![c] =
       [user |-> requests[r].user, provider |-> requests[r].provider,
        accessToken |-> requests[r].token,
        revoked |-> FALSE, expired |-> FALSE]]
  /\ requests' = [requests EXCEPT ![r].pc = "created"]
  /\ UNCHANGED <<oauthStates, jobs, workers, accounts, payments>>

\* Fault: the job is enqueued without awaiting createConsent.
EnqueueWithoutAwait(r, j) ==
  /\ requests[r] # NoRequest
  /\ jobs[j] = NoJob
  /\ jobs' = [jobs EXCEPT ![j] =
       [user |-> requests[r].user, provider |-> requests[r].provider,
        state |-> "waiting", holder |-> None, attempts |-> 0, stalls |-> 0]]
  /\ UNCHANGED <<oauthStates, requests, consents, workers, accounts, payments>>

\* enqueueInitialSync, and the 202 reply.
EnqueueInitialSync(r, j) ==
  /\ requests[r].pc = "created"
  /\ jobs[j] = NoJob
  /\ jobs' = [jobs EXCEPT ![j] =
       [user |-> requests[r].user, provider |-> requests[r].provider,
        state |-> "waiting", holder |-> None, attempts |-> 0, stalls |-> 0]]
  /\ requests' = [requests EXCEPT ![r] = NoRequest]
  /\ UNCHANGED <<oauthStates, consents, workers, accounts, payments>>

\* An exception between two awaits of callback: the unique index, Postgres or
\* Redis unreachable, encrypt failing.  There is no transaction around the
\* two writes and no compensation: what was written stays.
RequestFails(r) ==
  /\ requests[r] # NoRequest
  /\ requests' = [requests EXCEPT ![r] = NoRequest]
  /\ UNCHANGED <<oauthStates, consents, jobs, workers, accounts, payments>>

-----------------------------------------------------------------------------
(* Consents after they are created. *)

\* ConsentsController.revoke: the owner is read first, but it never changes,
\* so the read and the update are one step.
RevokeConsent(c) ==
  /\ c \in ConsentIds
  /\ consents' = [consents EXCEPT ![c].revoked = TRUE]
  /\ UNCHANGED <<oauthStates, requests, jobs, workers, accounts, payments>>

\* expiresAt, thirty days after the consent was created, passes.
ConsentExpires(c) ==
  /\ c \in ConsentIds
  /\ consents' = [consents EXCEPT ![c].expired = TRUE]
  /\ UNCHANGED <<oauthStates, requests, jobs, workers, accounts, payments>>

\* EnergyAccountsService.create: an account entered by hand, by u or for u by
\* an admin.  accountNumber and deviceId are unique.
CreateEnergyAccount(u, p, a, d) ==
  /\ accounts[a] = NoAccount
  /\ ~DeviceTaken(d)
  /\ accounts' = [accounts EXCEPT ![a] =
       [user |-> u, provider |-> p, deviceId |-> d]]
  /\ UNCHANGED <<oauthStates, requests, consents, jobs, workers, payments>>

-----------------------------------------------------------------------------
(* SyncProcessor: process and runSync. *)

\* The worker of instance w takes a waiting job and locks it.
StartJob(w, j) ==
  /\ workers[w] = Idle
  /\ jobs[j] # NoJob
  /\ jobs[j].state = "waiting"
  /\ jobs' = [jobs EXCEPT ![j].state = "active", ![j].holder = w]
  /\ workers' = [workers EXCEPT ![w] =
       [pc |-> "load", job |-> j, consent |-> None, index |-> 1]]
  /\ UNCHANGED <<oauthStates, requests, consents, accounts, payments>>

\* Redis accepts the outcome of a run only from the holder of the lock; a
\* worker whose lock expired reports in vain.
Report(w, outcome) ==
  LET j == workers[w].job IN
  /\ jobs' = IF jobs[j].holder = w
             THEN [jobs EXCEPT ![j] = outcome]
             ELSE jobs
  /\ workers' = [workers EXCEPT ![w] = Idle]

CompletedJob(job) == [job EXCEPT !.state = "completed", !.holder = None]

\* Faults: one retry too many; no limit on retries.
FailedJobOneMore(job) ==
  [job EXCEPT !.state = IF job.attempts < MaxAttempts THEN "delayed" ELSE "failed",
              !.holder = None, !.attempts = job.attempts + 1]
FailedJobForever(job) == [job EXCEPT !.state = "delayed", !.holder = None]

\* Retry after a backoff while attempts remain.
FailedJob(job) ==
  [job EXCEPT !.state = IF job.attempts + 1 < MaxAttempts
                        THEN "delayed" ELSE "failed",
              !.holder = None, !.attempts = job.attempts + 1]

\* Fault: the query forgets revoked: false.
LoadableRevoked(w) ==
  {c \in ConsentIds : /\ consents[c].user = jobs[workers[w].job].user
                      /\ consents[c].provider = jobs[workers[w].job].provider}

\* The consents the first query of runSync can return: by the job's user and
\* provider, unrevoked.  Expiry is tested on the row found.
Loadable(w) == Unrevoked(jobs[workers[w].job].user, jobs[workers[w].job].provider)

\* Fault: expiresAt is not tested.
LoadExpiredConsent(w, c) ==
  /\ workers[w].pc = "load"
  /\ c \in Loadable(w)
  /\ workers' = [workers EXCEPT ![w].pc = "account", ![w].consent = c]
  /\ UNCHANGED <<oauthStates, requests, consents, jobs, accounts, payments>>

\* runSync, step 1: an unrevoked and unexpired consent of the pair is loaded;
\* it is not read again.
LoadConsent(w, c) ==
  /\ workers[w].pc = "load"
  /\ c \in Loadable(w)
  /\ ~consents[c].expired
  /\ workers' = [workers EXCEPT ![w].pc = "account", ![w].consent = c]
  /\ UNCHANGED <<oauthStates, requests, consents, jobs, accounts, payments>>

\* No consent, or one that has expired: the run ends and counts as a success.
SkipSync(w) ==
  /\ workers[w].pc = "load"
  /\ \/ Loadable(w) = {}
     \/ \E c \in Loadable(w) : consents[c].expired
  /\ Report(w, CompletedJob(jobs[workers[w].job]))
  /\ UNCHANGED <<oauthStates, requests, consents, accounts, payments>>

\* Fault: the update part of the upsert writes userId too.
UpsertAccountAndOwner(w) ==
  LET p == ProviderOf(w)
      a == AccountNumberOf(w) IN
  /\ workers[w].pc = "account"
  /\ accounts[a] # NoAccount \/ ~DeviceTaken(DeviceId(p, a))
  /\ accounts' = [accounts EXCEPT ![a] =
       [user |-> jobs[workers[w].job].user, provider |-> p,
        deviceId |-> DeviceId(p, a)]]
  /\ workers' = [workers EXCEPT ![w].pc = "payments", ![w].index = 1]
  /\ UNCHANGED <<oauthStates, requests, consents, jobs, payments>>

\* Fault: a refused upsert is caught and the run goes on.
UpsertAccountCaught(w) ==
  /\ workers[w].pc = "account"
  /\ workers' = [workers EXCEPT ![w].pc = "payments", ![w].index = 1]
  /\ UNCHANGED <<oauthStates, requests, consents, jobs, accounts, payments>>

\* Steps 2 to 4: decrypt, fetch and normalize, then the upsert on
\* accountNumber.  The update leaves the owner alone.  The insert is refused
\* (see SyncFails) when another account has the device.
UpsertAccount(w) ==
  LET p == ProviderOf(w)
      a == AccountNumberOf(w) IN
  /\ workers[w].pc = "account"
  /\ \/ /\ accounts[a] # NoAccount
        /\ UNCHANGED accounts
     \/ /\ accounts[a] = NoAccount
        /\ ~DeviceTaken(DeviceId(p, a))
        /\ accounts' = [accounts EXCEPT ![a] =
             [user |-> jobs[workers[w].job].user, provider |-> p,
              deviceId |-> DeviceId(p, a)]]
  /\ workers' = [workers EXCEPT ![w].pc = "payments", ![w].index = 1]
  /\ UNCHANGED <<oauthStates, requests, consents, jobs, payments>>

\* Fault: the upserts are not awaited in the order of the history.
UpsertPaymentUnordered(w) ==
  /\ workers[w].pc = "payments"
  /\ workers[w].index <= NumPayments
  /\ payments' = payments \cup
       {[provider |-> ProviderOf(w), account |-> AccountNumberOf(w),
         index |-> NumPayments + 1 - workers[w].index]}
  /\ workers' = [workers EXCEPT ![w].index = @ + 1]
  /\ UNCHANGED <<oauthStates, requests, consents, jobs, accounts>>

\* Step 5, one iteration of the loop: the upsert on the deterministic
\* paymentReference.  Amount and status are functions of the reference.
UpsertPayment(w) ==
  /\ workers[w].pc = "payments"
  /\ workers[w].index <= NumPayments
  /\ payments' = payments \cup
       {[provider |-> ProviderOf(w), account |-> AccountNumberOf(w),
         index |-> workers[w].index]}
  /\ workers' = [workers EXCEPT ![w].index = @ + 1]
  /\ UNCHANGED <<oauthStates, requests, consents, jobs, accounts>>

\* Step 6: the score is read and logged, nothing is stored; the job is done.
CalculateScore(w) ==
  /\ workers[w].pc = "payments"
  /\ workers[w].index > NumPayments
  /\ Report(w, CompletedJob(jobs[workers[w].job]))
  /\ UNCHANGED <<oauthStates, requests, consents, accounts, payments>>

\* Fault: process catches the exception and returns.
SyncFailsSilently(w) ==
  /\ workers[w] # Idle
  /\ Report(w, CompletedJob(jobs[workers[w].job]))
  /\ UNCHANGED <<oauthStates, requests, consents, accounts, payments>>

\* Any step of runSync may throw: decrypt, the provider, the normalizer, a
\* unique index, the database.  What was upserted stays.
SyncFails(w) ==
  /\ workers[w] # Idle
  /\ Report(w, FailedJob(jobs[workers[w].job]))
  /\ UNCHANGED <<oauthStates, requests, consents, accounts, payments>>

-----------------------------------------------------------------------------
(* The queue and the processes. *)

\* The backoff delay has passed.
Promote(j) ==
  /\ jobs[j] # NoJob
  /\ jobs[j].state = "delayed"
  /\ jobs' = [jobs EXCEPT ![j].state = "waiting"]
  /\ UNCHANGED <<oauthStates, requests, consents, workers, accounts, payments>>

\* The lock of an active job expired: its process died, or lived and could
\* not renew it in time.  The job is delivered again, MaxStalls times.
JobStalls(j) ==
  /\ jobs[j] # NoJob
  /\ jobs[j].state = "active"
  /\ jobs' = [jobs EXCEPT
       ![j].state = IF jobs[j].stalls < MaxStalls THEN "waiting" ELSE "failed",
       ![j].holder = None, ![j].stalls = @ + 1]
  /\ UNCHANGED <<oauthStates, requests, consents, workers, accounts, payments>>

\* A process dies with everything it had in memory and is restarted.
Crash(i) ==
  /\ workers' = [workers EXCEPT ![i] = Idle]
  /\ requests' = [r \in Request |->
       IF requests[r] # NoRequest /\ requests[r].on = i
       THEN NoRequest ELSE requests[r]]
  /\ UNCHANGED <<oauthStates, consents, jobs, accounts, payments>>

-----------------------------------------------------------------------------
WorkerStep(w) ==
  \/ \E c \in ConsentId : LoadConsent(w, c)
  \/ SkipSync(w)
  \/ UpsertAccount(w)
  \/ UpsertPayment(w)
  \/ CalculateScore(w)
  \/ SyncFails(w)

Next ==
  \/ \E u \in User, p \in Provider : Connect(u, p)
  \/ \E s \in Pair : StateExpires(s)
  \/ \E r \in Request, i \in Instance, s \in Pair, t \in Token :
       Callback(r, i, s, t)
  \/ \E r \in Request, c \in ConsentId : CreateConsent(r, c)
  \/ \E r \in Request, j \in JobId : EnqueueInitialSync(r, j)
  \/ \E r \in Request : RequestFails(r)
  \/ \E c \in ConsentId : RevokeConsent(c) \/ ConsentExpires(c)
  \/ \E u \in User, p \in Provider, a \in AccountNumber, d \in Device :
       CreateEnergyAccount(u, p, a, d)
  \/ \E w \in Instance, j \in JobId : StartJob(w, j)
  \/ \E w \in Instance : WorkerStep(w)
  \/ \E j \in JobId : Promote(j) \/ JobStalls(j)
  \/ \E i \in Instance : Crash(i)

Spec == Init /\ [][Next]_vars

\* An active job whose holder no longer runs it: the lock is never renewed.
Orphan(j) ==
  /\ jobs[j] # NoJob
  /\ jobs[j].state = "active"
  /\ ~ \E w \in Instance : /\ workers[w] # Idle
                           /\ workers[w].job = j
                           /\ jobs[j].holder = w

\* What the runtime keeps going: every run takes its next step or throws, idle
\* workers take waiting jobs, delayed jobs are promoted and expired locks are
\* detected.  Nothing is assumed of users, of the provider, of lock loss under
\* a live worker or of crashes.
Fairness ==
  /\ \A w \in Instance : WF_vars(WorkerStep(w))
  /\ \A w \in Instance, j \in JobId : WF_vars(StartJob(w, j))
  /\ \A j \in JobId : WF_vars(Promote(j)) /\ WF_vars(Orphan(j) /\ JobStalls(j))

FairSpec == Spec /\ Fairness

-----------------------------------------------------------------------------
(* Properties. *)

\* Every row and record has its shape; counters stay within their bounds.
TypeOK ==
  /\ oauthStates \subseteq Pair
  /\ requests \in [Request -> CallbackRequest \cup {NoRequest}]
  /\ consents \in [ConsentId -> Consent \cup {NoConsent}]
  /\ jobs \in [JobId -> Job \cup {NoJob}]
  /\ workers \in [Instance -> Worker \cup {Idle}]
  /\ accounts \in [AccountNumber -> EnergyAccount \cup {NoAccount}]
  /\ payments \subseteq PaymentReference

\* However callbacks of the same user and provider interleave, at most one of
\* their consents is unrevoked, so the worker's findFirst is deterministic.
OneActiveConsent ==
  \A c, d \in ConsentIds :
    /\ consents[c].user = consents[d].user
    /\ consents[c].provider = consents[d].provider
    /\ ~consents[c].revoked
    /\ ~consents[d].revoked
    => c = d

ConsentsOfJob(j) ==
  {c \in ConsentIds : /\ consents[c].user = jobs[j].user
                      /\ consents[c].provider = jobs[j].provider}

\* The token is never in the job: whoever takes a job finds that a consent of
\* its user and provider was recorded before, even if it was revoked since.
JobHasConsent == \A j \in JobIds : ConsentsOfJob(j) # {}

\* No payment is stored that no user consented to share: through crashes,
\* redelivered jobs and revocations, every synced payment belongs to an
\* existing account and to a consent whose token gives access to it.
DataHasConsent ==
  \A ref \in payments :
    /\ accounts[ref.account] # NoAccount
    /\ \E c \in ConsentIds :
         /\ consents[c].provider = ref.provider
         /\ AccountOf[consents[c].accessToken] = ref.account

\* A sync that died half way, and any number of runs side by side, leave a
\* prefix of the provider's history and never a hole in it.
HistoryHasNoGaps ==
  \A ref \in payments, i \in Index :
    i <= ref.index => [ref EXCEPT !.index = i] \in payments

Synced(c) ==
  \A i \in Index : [provider |-> consents[c].provider,
                    account |-> AccountOf[consents[c].accessToken],
                    index |-> i] \in payments

\* A completed job did its work: the whole history of some consent of its
\* user and provider is stored, unless a consent of theirs was withdrawn or
\* ran out, the only reasons for which a run is skipped.
CompletedMeansSynced ==
  \A j \in JobIds :
    jobs[j].state = "completed" =>
      \E c \in ConsentsOfJob(j) :
        Synced(c) \/ consents[c].revoked \/ consents[c].expired

\* An account keeps the owner, provider and device it was created with,
\* whichever user's sync upserts it later.
OwnerIsPermanent ==
  [][\A a \in AccountNumber :
       accounts[a] # NoAccount => accounts'[a] = accounts[a]]_vars

Held(c) == \E w \in Instance : workers[w] # Idle /\ workers[w].consent = c

\* Revocation and expiry are final for the sync: once the runs that had loaded
\* the consent before are over, no retry, redelivery or later job uses it.
WithdrawnStaysReleased ==
  [][\A c \in ConsentIds :
       (consents[c].revoked \/ consents[c].expired) /\ ~Held(c) => ~Held(c)']_vars

\* A consent row as a grant: whom it concerns, the account its token opens, and
\* whether it still stands.
Standing(row) ==
  IF row.revoked THEN "withdrawn" ELSE IF row.expired THEN "lapsed" ELSE "active"

GrantOf(row) ==
  IF row = NoConsent THEN [status |-> "none"]
  ELSE [status |-> Standing(row), user |-> row.user, provider |-> row.provider,
        account |-> AccountOf[row.accessToken]]

Grants == [c \in ConsentId |-> GrantOf(consents[c])]

InUse == {c \in ConsentId : Held(c)}

Owners ==
  [a \in AccountNumber |->
     IF accounts[a] = NoAccount THEN None ELSE accounts[a].user]

Sharing == INSTANCE DataSharing WITH
  Grant <- ConsentId, Account <- AccountNumber, grants <- Grants,
  inUse <- InUse, owner <- Owners, copied <- payments

\* Callbacks, queue, retries and side-by-side runs, taken together, copy no
\* entry except in the order of a history, under a consent whose use began
\* while it was active, and into an account whose owner stays.
ImplementsDataSharing == Sharing!Spec

Lapsed(c) == consents[c].expired /\ ~consents[c].revoked

\* The unique index does not look at expiresAt (migration.sql:60), the worker
\* does: while a consent that has expired is not revoked, its user and provider
\* get no other one, and no run takes any consent of theirs into use.
LapsedBlocksRenewal ==
  [][\A c \in ConsentIds, d \in ConsentId :
       /\ Lapsed(c)
       /\ d \in ConsentIds'
       /\ consents'[d].user = consents[c].user
       /\ consents'[d].provider = consents[c].provider
       => d \in ConsentIds /\ (Held(d)' => Held(d))]_vars

\* What a job can still go through: for each attempt and each delivery left a
\* backoff, a wait and a run.
Remaining(job) ==
  LET tries == (MaxAttempts - job.attempts) + (MaxStalls + 1 - job.stalls) IN
  CASE job.state \in {"completed", "failed"} -> 0
    [] job.state = "active"  -> 3 * tries
    [] job.state = "waiting" -> 3 * tries + 1
    [] job.state = "delayed" -> 3 * tries + 2

\* Whatever stalls, crashes or is reported late by a run that lost its lock, a
\* job's every move uses up some of what it has left.  So it is delivered a
\* bounded number of times, and one that has ended is never taken up again.
JobsRunOut ==
  [][\A j \in JobIds :
       jobs'[j] # jobs[j] => Remaining(jobs'[j]) < Remaining(jobs[j])]_vars

\* Every enqueued job is eventually completed or failed, whatever crashes.
JobsFinish ==
  \A j \in JobId : jobs[j] # NoJob ~> (jobs[j] # NoJob /\ Finished(j))

\* "Enqueues an initial synchronization task following a successful OAuth
\* connection" (sync.service.ts:20): a recorded, usable consent has a job, or
\* the request that created it is still about to enqueue one.
ConnectionIsScheduled ==
  \A c \in ConsentIds :
    ~consents[c].revoked /\ ~consents[c].expired =>
      \/ \E j \in JobIds : c \in ConsentsOfJob(j)
      \/ \E r \in Request : /\ requests[r].pc = "created"
                            /\ requests[r].user = consents[c].user
                            /\ requests[r].provider = consents[c].provider

\* "different demo connections don't collide" (mkopa.connector.ts:25-26): the
\* payments a run writes go under an account of the user it runs for.
SyncsOwnAccount ==
  \A w \in Instance :
    workers[w].pc = "payments" =>
      accounts[AccountNumberOf(w)].user = jobs[workers[w].job].user
====

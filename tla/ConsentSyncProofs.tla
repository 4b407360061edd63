---- MODULE ConsentSyncProofs ----
(***************************************************************************)
(* Safety of ConsentSync for any number of users, tokens, requests,        *)
(* processes and jobs.                                                     *)
(***************************************************************************)
EXTENDS ConsentSync, TLAPS

\* The lock of a job is held exactly while the job is active, and a job that
\* is not finished has attempts and deliveries left.
QueueInv ==
  \A j \in JobIds :
    /\ jobs[j].holder # None <=> jobs[j].state = "active"
    /\ ~Finished(j) => jobs[j].attempts < MaxAttempts /\ jobs[j].stalls <= MaxStalls

\* A run has a job and, once it has loaded one, a consent of the job's pair:
\* rows are never deleted and their user, provider and token never change.
RunHasRows(w) ==
  workers[w] # Idle =>
    /\ workers[w].job \in JobIds
    /\ workers[w].pc # "load" => workers[w].consent \in ConsentsOfJob(workers[w].job)

RunInv == \A w \in Instance : RunHasRows(w)

TypeInv == TypeOK /\ QueueInv /\ RunInv

USE DEF Idle, NoRequest, NoConsent, NoJob, NoAccount, ConsentIds, JobIds

-----------------------------------------------------------------------------
(* Type correctness. *)

\* What a run may make of its job.
IsOutcome(job) ==
  /\ job \in Job
  /\ job.holder = None
  /\ \/ job.state \in {"completed", "failed"}
     \/ job.state = "delayed" /\ job.attempts < MaxAttempts /\ job.stalls <= MaxStalls

\* What a worker reports is a well-typed job that no worker holds, and a job
\* is only delayed while attempts remain.
LEMMA OutcomeType ==
  ASSUME NEW job \in Job, job.attempts < MaxAttempts, job.stalls <= MaxStalls
  PROVE  IsOutcome(CompletedJob(job)) /\ IsOutcome(FailedJob(job))
<1>1. IsOutcome(CompletedJob(job))
  BY DEF Job, CompletedJob, IsOutcome
<1>2. IsOutcome(FailedJob(job))
  <2>1. job.attempts + 1 \in 0..MaxAttempts
    BY BoundsAssumption DEF Job
  <2>2. FailedJob(job) \in Job
    BY <2>1 DEF Job, FailedJob
  <2> QED
    BY <2>2 DEF Job, FailedJob, IsOutcome
<1> QED
  BY <1>1, <1>2

\* Report changes one job, and only the one the worker holds the lock of.
LEMMA ReportType ==
  ASSUME TypeInv, NEW w \in Instance, workers[w] # Idle,
         NEW outcome, Report(w, outcome),
         jobs[workers[w].job].holder = w => IsOutcome(outcome)
  PROVE  /\ jobs' \in [JobId -> Job \cup {NoJob}]
         /\ workers' \in [Instance -> Worker \cup {Idle}]
         /\ QueueInv'
<1> DEFINE j == workers[w].job
<1>1. j \in JobId /\ workers' = [workers EXCEPT ![w] = Idle]
  BY DEF TypeInv, TypeOK, Report, Worker
<1>2. workers' \in [Instance -> Worker \cup {Idle}]
  BY <1>1 DEF TypeInv, TypeOK
<1>3. CASE jobs[j].holder # w
  BY <1>2, <1>3 DEF TypeInv, TypeOK, Report, QueueInv, Finished
<1>4. CASE jobs[j].holder = w
  <2>1. jobs' = [jobs EXCEPT ![j] = outcome]
    BY <1>4 DEF Report
  <2> QED
    BY <1>1, <1>2, <1>4, <2>1 DEF TypeInv, TypeOK, QueueInv, Finished, IsOutcome
<1> QED
  BY <1>3, <1>4

\* Every action keeps the shapes, and the bounds on attempts and stalls.
LEMMA TypeStep ==
  ASSUME TypeInv, [Next]_vars
  PROVE  TypeOK' /\ QueueInv'
<1>1. ASSUME NEW u \in User, NEW p \in Provider, Connect(u, p)
      PROVE  TypeOK' /\ QueueInv'
  BY <1>1 DEF TypeInv, TypeOK, QueueInv, Finished, Connect, Pair
<1>2. ASSUME NEW s \in Pair, StateExpires(s)
      PROVE  TypeOK' /\ QueueInv'
  BY <1>2 DEF TypeInv, TypeOK, QueueInv, Finished, StateExpires
<1>3. ASSUME NEW r \in Request, NEW i \in Instance, NEW s \in Pair, NEW t \in Token,
             Callback(r, i, s, t)
      PROVE  TypeOK' /\ QueueInv'
  BY <1>3 DEF TypeInv, TypeOK, QueueInv, Finished, Callback, CallbackRequest, Pair
<1>4. ASSUME NEW r \in Request, NEW c \in ConsentId, CreateConsent(r, c)
      PROVE  TypeOK' /\ QueueInv'
  BY <1>4 DEF TypeInv, TypeOK, QueueInv, Finished, CreateConsent, CallbackRequest, Consent
<1>5. ASSUME NEW r \in Request, NEW j \in JobId, EnqueueInitialSync(r, j)
      PROVE  TypeOK' /\ QueueInv'
  BY <1>5, BoundsAssumption
     DEF TypeInv, TypeOK, QueueInv, Finished, EnqueueInitialSync, CallbackRequest, Job
<1>6. ASSUME NEW r \in Request, RequestFails(r)
      PROVE  TypeOK' /\ QueueInv'
  BY <1>6 DEF TypeInv, TypeOK, QueueInv, Finished, RequestFails
<1>7. ASSUME NEW c \in ConsentId, RevokeConsent(c) \/ ConsentExpires(c)
      PROVE  TypeOK' /\ QueueInv'
  <2>1. consents[c] \in Consent
    BY <1>7 DEF TypeInv, TypeOK, RevokeConsent, ConsentExpires
  <2>2. /\ [consents[c] EXCEPT !.revoked = TRUE] \in Consent
        /\ [consents[c] EXCEPT !.expired = TRUE] \in Consent
    BY <2>1 DEF Consent
  <2>3. consents' \in [ConsentId -> Consent \cup {NoConsent}]
    BY <1>7, <2>2 DEF TypeInv, TypeOK, RevokeConsent, ConsentExpires
  <2> QED
    BY <1>7, <2>3 DEF TypeInv, TypeOK, QueueInv, Finished, RevokeConsent, ConsentExpires
<1>8. ASSUME NEW u \in User, NEW p \in Provider, NEW a \in AccountNumber, NEW d \in Device,
             CreateEnergyAccount(u, p, a, d)
      PROVE  TypeOK' /\ QueueInv'
  BY <1>8 DEF TypeInv, TypeOK, QueueInv, Finished, CreateEnergyAccount, EnergyAccount
<1>9. ASSUME NEW w \in Instance, NEW j \in JobId, StartJob(w, j)
      PROVE  TypeOK' /\ QueueInv'
  BY <1>9, NoneAssumption, BoundsAssumption
     DEF TypeInv, TypeOK, QueueInv, Finished, StartJob, Job, Worker
<1>10. ASSUME NEW w \in Instance, WorkerStep(w)
       PROVE  TypeOK' /\ QueueInv'
  <2> DEFINE j == workers[w].job
  <2>0. workers[w] # Idle
    BY <1>10 DEF WorkerStep, LoadConsent, SkipSync, UpsertAccount, UpsertPayment,
                CalculateScore, SyncFails
  <2>1. workers[w] \in Worker
    BY <2>0 DEF TypeInv, TypeOK
  <2>2. /\ j \in JobId
        /\ jobs[j].holder = w => /\ jobs[j] \in Job
                                /\ jobs[j].attempts < MaxAttempts
                                /\ jobs[j].stalls <= MaxStalls
    BY <2>0, <2>1, NoneAssumption DEF TypeInv, TypeOK, QueueInv, RunInv, RunHasRows, Finished, Worker, Job
  <2>8. ASSUME workers[w].pc # "load"
        PROVE  /\ ProviderOf(w) \in Provider
               /\ AccountNumberOf(w) \in AccountNumber
    <3>1. consents[workers[w].consent] \in Consent
      BY <2>0, <2>8 DEF TypeInv, TypeOK, RunInv, RunHasRows, ConsentsOfJob
    <3> QED
      BY <3>1, AccountOfAssumption DEF Consent, ProviderOf, AccountNumberOf
  <2>9. jobs[j].user \in User
    BY <2>0 DEF TypeInv, TypeOK, RunInv, RunHasRows, Job
  <2>3. ASSUME NEW c \in ConsentId, LoadConsent(w, c)
        PROVE  TypeOK' /\ QueueInv'
    <3>1. [workers[w] EXCEPT !.pc = "account", !.consent = c] \in Worker
      BY <2>1 DEF Worker
    <3> QED
      BY <2>3, <3>1 DEF TypeInv, TypeOK, QueueInv, Finished, LoadConsent
  <2>4. CASE Report(w, CompletedJob(jobs[j])) /\ UNCHANGED <<oauthStates, requests, consents, accounts, payments>>
    BY <2>0, <2>2, <2>4, OutcomeType, ReportType DEF TypeInv, TypeOK
  <2>5. CASE UpsertAccount(w)
    <3>0. 1 \in 1..(NumPayments + 1)
      BY BoundsAssumption
    <3>1. [workers[w] EXCEPT !.pc = "payments", !.index = 1] \in Worker
      BY <2>1, <3>0 DEF Worker
    <3>2. accounts' \in [AccountNumber -> EnergyAccount \cup {NoAccount}]
      BY <2>5, <2>8, <2>9 DEF TypeInv, TypeOK, UpsertAccount, EnergyAccount, Device, DeviceId
    <3> QED
      BY <2>5, <3>1, <3>2 DEF TypeInv, TypeOK, QueueInv, Finished, UpsertAccount
  <2>6. CASE UpsertPayment(w)
    <3>1. [workers[w] EXCEPT !.index = @ + 1] \in Worker
      BY <2>1, <2>6, BoundsAssumption DEF Worker, UpsertPayment
    <3>2. payments' \subseteq PaymentReference
      BY <2>1, <2>6, <2>8, BoundsAssumption
         DEF TypeInv, TypeOK, UpsertPayment, PaymentReference, Index, Worker
    <3> QED
      BY <2>6, <3>1, <3>2 DEF TypeInv, TypeOK, QueueInv, Finished, UpsertPayment
  <2>7. CASE SyncFails(w)
    BY <2>0, <2>2, <2>7, OutcomeType, ReportType DEF TypeInv, TypeOK, SyncFails
  <2> QED
    BY <1>10, <2>3, <2>4, <2>5, <2>6, <2>7 DEF WorkerStep, SkipSync, CalculateScore
<1>11. ASSUME NEW j \in JobId, Promote(j) \/ JobStalls(j)
       PROVE  TypeOK' /\ QueueInv'
  BY <1>11, BoundsAssumption DEF TypeInv, TypeOK, QueueInv, Finished, Promote, JobStalls, Job
<1>12. ASSUME NEW i \in Instance, Crash(i)
       PROVE  TypeOK' /\ QueueInv'
  BY <1>12 DEF TypeInv, TypeOK, QueueInv, Finished, Crash
<1>13. CASE UNCHANGED vars
  BY <1>13 DEF TypeInv, TypeOK, QueueInv, Finished, vars
<1> QED
  BY <1>1, <1>2, <1>3, <1>4, <1>5, <1>6, <1>7, <1>8, <1>9, <1>10, <1>11, <1>12, <1>13
     DEF Next

-----------------------------------------------------------------------------
(* What every step preserves.  The invariants below speak of rows that were  *)
(* found earlier; these facts say that the rows are still there.             *)

ConsentsPersist ==
  \A c \in ConsentIds :
    /\ c \in ConsentIds'
    /\ consents'[c].user = consents[c].user
    /\ consents'[c].provider = consents[c].provider
    /\ consents'[c].accessToken = consents[c].accessToken
    /\ consents[c].revoked => consents'[c].revoked
    /\ consents[c].expired => consents'[c].expired

JobsPersist ==
  \A j \in JobIds :
    /\ j \in JobIds'
    /\ jobs'[j].user = jobs[j].user
    /\ jobs'[j].provider = jobs[j].provider

AccountsPersist ==
  \A a \in AccountNumber : accounts[a] # NoAccount => accounts'[a] = accounts[a]

PaymentsPersist == payments \subseteq payments'

\* A worker that reports is idle afterwards, and its job is the same job.
LEMMA ReportPersists ==
  ASSUME TypeInv, NEW w \in Instance, workers[w] # Idle, NEW outcome, Report(w, outcome),
         LET job == jobs[workers[w].job] IN
           job.holder = w => outcome # NoJob /\ outcome.user = job.user
                                             /\ outcome.provider = job.provider
  PROVE  JobsPersist /\ workers' = [workers EXCEPT ![w] = Idle]
  BY DEF TypeInv, TypeOK, RunInv, RunHasRows, Report, JobsPersist

\* No action deletes a consent, job, account or payment, or rewrites what the
\* other facts rest on.
LEMMA RowsPersist ==
  ASSUME TypeInv, [Next]_vars
  PROVE  ConsentsPersist /\ JobsPersist /\ AccountsPersist /\ PaymentsPersist
<1> USE DEF ConsentsPersist, JobsPersist, AccountsPersist, PaymentsPersist
<1>1. CASE UNCHANGED <<consents, jobs, accounts, payments>>
  BY <1>1
<1>2. ASSUME NEW r \in Request, NEW c \in ConsentId, CreateConsent(r, c)
      PROVE  ConsentsPersist /\ JobsPersist /\ AccountsPersist /\ PaymentsPersist
  BY <1>2 DEF TypeInv, TypeOK, CreateConsent
<1>3. ASSUME NEW r \in Request, NEW j \in JobId, EnqueueInitialSync(r, j)
      PROVE  ConsentsPersist /\ JobsPersist /\ AccountsPersist /\ PaymentsPersist
  BY <1>3 DEF TypeInv, TypeOK, EnqueueInitialSync
<1>4. ASSUME NEW c \in ConsentId, RevokeConsent(c) \/ ConsentExpires(c)
      PROVE  ConsentsPersist /\ JobsPersist /\ AccountsPersist /\ PaymentsPersist
  BY <1>4 DEF TypeInv, TypeOK, Consent, RevokeConsent, ConsentExpires
<1>5. ASSUME NEW u \in User, NEW p \in Provider, NEW a \in AccountNumber, NEW d \in Device,
             CreateEnergyAccount(u, p, a, d)
      PROVE  ConsentsPersist /\ JobsPersist /\ AccountsPersist /\ PaymentsPersist
  BY <1>5 DEF TypeInv, TypeOK, CreateEnergyAccount
<1>6. ASSUME NEW w \in Instance, NEW j \in JobId, StartJob(w, j)
      PROVE  ConsentsPersist /\ JobsPersist /\ AccountsPersist /\ PaymentsPersist
  BY <1>6, NoneAssumption DEF TypeInv, TypeOK, Job, StartJob
<1>7. ASSUME NEW w \in Instance, WorkerStep(w)
      PROVE  ConsentsPersist /\ JobsPersist /\ AccountsPersist /\ PaymentsPersist
  <2> DEFINE job == jobs[workers[w].job]
  <2>1. workers[w] # Idle
    BY <1>7 DEF WorkerStep, LoadConsent, SkipSync, UpsertAccount, UpsertPayment,
                CalculateScore, SyncFails
  <2>2. job \in Job
    BY <2>1 DEF TypeInv, TypeOK, RunInv, RunHasRows
  <2>3. /\ CompletedJob(job) # NoJob /\ FailedJob(job) # NoJob
        /\ CompletedJob(job).user = job.user /\ CompletedJob(job).provider = job.provider
        /\ FailedJob(job).user = job.user /\ FailedJob(job).provider = job.provider
    BY <2>2, NoneAssumption DEF Job, CompletedJob, FailedJob
  <2>4. ASSUME NEW c \in ConsentId, LoadConsent(w, c)
        PROVE  UNCHANGED <<consents, jobs, accounts, payments>>
    BY <2>4 DEF LoadConsent
  <2>5. CASE SkipSync(w) \/ CalculateScore(w) \/ SyncFails(w)
    <3>1. JobsPersist
      BY <2>1, <2>3, <2>5, ReportPersists DEF SkipSync, CalculateScore, SyncFails
    <3> QED
      BY <2>5, <3>1 DEF SkipSync, CalculateScore, SyncFails
  <2>6. CASE UpsertAccount(w)
    BY <2>6 DEF TypeInv, TypeOK, UpsertAccount
  <2>7. CASE UpsertPayment(w)
    BY <2>7 DEF UpsertPayment
  <2> QED
    BY <1>1, <1>7, <2>4, <2>5, <2>6, <2>7 DEF WorkerStep
<1>8. ASSUME NEW j \in JobId, Promote(j) \/ JobStalls(j)
      PROVE  ConsentsPersist /\ JobsPersist /\ AccountsPersist /\ PaymentsPersist
  BY <1>8, NoneAssumption DEF TypeInv, TypeOK, Job, Promote, JobStalls
<1> QED
  BY <1>1, <1>2, <1>3, <1>4, <1>5, <1>6, <1>7, <1>8
     DEF Next, vars, Connect, StateExpires, Callback, RequestFails, Crash

\* A run that a step ends, or leaves with the job and the consent it had.
SameRun(w) ==
  workers'[w] # Idle =>
    /\ workers[w] # Idle
    /\ workers'[w].job = workers[w].job
    /\ workers'[w].pc # "load" => /\ workers[w].pc # "load"
                                 /\ workers'[w].consent = workers[w].consent

\* A job never loses one of the consents of its user and provider.
LEMMA ConsentsOfJobPersist ==
  ASSUME ConsentsPersist, JobsPersist, NEW j \in JobIds
  PROVE  ConsentsOfJob(j) \subseteq ConsentsOfJob(j)'
  BY DEF ConsentsOfJob, ConsentsPersist, JobsPersist

\* A run that goes on keeps referring to rows that exist.
LEMMA SameRunKeepsRows ==
  ASSUME TypeInv, ConsentsPersist, JobsPersist, NEW w \in Instance, SameRun(w)
  PROVE  RunHasRows(w)'
<1> SUFFICES ASSUME workers'[w] # Idle
             PROVE  /\ workers'[w].job \in JobIds'
                    /\ workers'[w].pc # "load" =>
                         workers'[w].consent \in ConsentsOfJob(workers[w].job)'
  BY DEF RunHasRows
<1>1. /\ workers[w] # Idle
      /\ workers[w].job \in JobIds
      /\ workers[w].pc # "load" => workers[w].consent \in ConsentsOfJob(workers[w].job)
  BY DEF TypeInv, RunInv, RunHasRows, SameRun
<1>2. PICK j \in JobIds : j = workers[w].job
  BY <1>1
<1>3. j \in JobIds' /\ workers'[w].job = j
  BY <1>2 DEF JobsPersist, SameRun
<1>4. workers[w].pc # "load" => workers[w].consent \in ConsentsOfJob(j)'
  BY <1>1, <1>2, ConsentsOfJobPersist
<1> QED
  BY <1>1, <1>3, <1>4 DEF SameRun, ConsentsOfJob

\* Every action keeps the job and the consent of each run in their tables.
LEMMA RunStep ==
  ASSUME TypeInv, [Next]_vars
  PROVE  RunInv'
<1> SUFFICES ASSUME NEW w \in Instance
             PROVE  RunHasRows(w)'
  BY DEF RunInv
<1>1. ConsentsPersist /\ JobsPersist
  BY RowsPersist
<1>2. CASE SameRun(w)
  BY <1>1, <1>2, SameRunKeepsRows
<1>3. ASSUME NEW j \in JobId, StartJob(w, j)
      PROVE  RunHasRows(w)'
  BY <1>1, <1>3 DEF TypeInv, TypeOK, StartJob, JobsPersist, RunHasRows
<1>4. ASSUME NEW c \in ConsentId, LoadConsent(w, c)
      PROVE  RunHasRows(w)'
  BY <1>4 DEF TypeInv, TypeOK, RunInv, RunHasRows, LoadConsent, Loadable, Unrevoked,
              ConsentsOfJob
<1>5. ASSUME NEW v \in Instance, v # w \/ workers'[w] = Idle,
             NEW x, workers' = [workers EXCEPT ![v] = x]
      PROVE  SameRun(w)
  BY <1>5 DEF TypeInv, TypeOK, SameRun
<1>6. ASSUME NEW v \in Instance, NEW j \in JobId, StartJob(v, j)
      PROVE  RunHasRows(w)'
  BY <1>2, <1>3, <1>5, <1>6 DEF StartJob
<1>7. ASSUME NEW v \in Instance, WorkerStep(v)
      PROVE  RunHasRows(w)'
  <2>1. ASSUME NEW c \in ConsentId, LoadConsent(v, c)
        PROVE  RunHasRows(w)'
    <3>1. v # w => SameRun(w)
      BY <2>1 DEF LoadConsent, TypeInv, TypeOK, SameRun
    <3> QED
      BY <1>2, <1>4, <2>1, <3>1
  <2>2. CASE SkipSync(v) \/ CalculateScore(v) \/ SyncFails(v)
    BY <1>2, <2>2 DEF SkipSync, CalculateScore, SyncFails, Report, TypeInv, TypeOK, SameRun
  <2>3. CASE UpsertAccount(v) \/ UpsertPayment(v)
    <3>1. workers[v] \in Worker
      BY <2>3 DEF UpsertAccount, UpsertPayment, TypeInv, TypeOK
    <3>2. SameRun(w)
      BY <2>3, <3>1 DEF UpsertAccount, UpsertPayment, TypeInv, TypeOK, Worker, SameRun
    <3> QED
      BY <1>2, <3>2
  <2> QED
    BY <1>7, <2>1, <2>2, <2>3 DEF WorkerStep
<1>8. ASSUME NEW i \in Instance, Crash(i)
      PROVE  SameRun(w)
  BY <1>8 DEF Crash, TypeInv, TypeOK, SameRun
<1>9. CASE UNCHANGED workers
  BY <1>2, <1>9 DEF SameRun
<1> QED
  BY <1>2, <1>6, <1>7, <1>8, <1>9
     DEF Next, vars, Connect, StateExpires, Callback, CreateConsent, EnqueueInitialSync,
         RequestFails, RevokeConsent, ConsentExpires, CreateEnergyAccount, Promote, JobStalls

\* The initial state is well typed.
LEMMA InitTypeInv == Init => TypeInv
  BY DEF Init, TypeInv, TypeOK, QueueInv, RunInv, RunHasRows

\* Types, queue and runs are an invariant of the pipeline.
LEMMA TypeInvariance == Spec => []TypeInv
<1>1. TypeInv /\ [Next]_vars => TypeInv'
  BY TypeStep, RunStep DEF TypeInv
<1> QED
  BY InitTypeInv, <1>1, PTL DEF Spec

\* Every reachable state is well typed, whatever the numbers of users, requests,
\* processes and jobs; attempts and deliveries never exceed their limits.
THEOREM TypeCorrect == Spec => []TypeOK
<1>1. TypeInv => TypeOK
  BY DEF TypeInv
<1> QED
  BY TypeInvariance, <1>1, PTL

\* No step of any request, sync or admin takes an account from its owner.
THEOREM OwnersArePermanent == Spec => OwnerIsPermanent
<1>1. TypeInv /\ [Next]_vars =>
        [\A a \in AccountNumber : accounts[a] # NoAccount => accounts'[a] = accounts[a]]_vars
  BY RowsPersist DEF AccountsPersist
<1> QED
  BY TypeInvariance, <1>1, PTL DEF Spec, OwnerIsPermanent

-----------------------------------------------------------------------------
(* Consents and jobs. *)

\* The handler is past createConsent: what it is about to enqueue has a consent.
RequestHasConsent ==
  \A r \in Request : requests[r].pc = "created" =>
    \E c \in ConsentIds : /\ consents[c].user = requests[r].user
                          /\ consents[c].provider = requests[r].provider

\* Only CreateConsent can add an unrevoked consent, and the index guards it.
LEMMA OneActiveConsentStep ==
  ASSUME TypeInv, OneActiveConsent, [Next]_vars
  PROVE  OneActiveConsent'
<1>1. CASE UNCHANGED consents
  BY <1>1 DEF OneActiveConsent
<1>2. ASSUME NEW r \in Request, NEW c \in ConsentId, CreateConsent(r, c)
      PROVE  OneActiveConsent'
  BY <1>2 DEF TypeInv, TypeOK, CreateConsent, OneActiveConsent, Unrevoked
<1>3. ASSUME NEW c \in ConsentId, RevokeConsent(c) \/ ConsentExpires(c)
      PROVE  OneActiveConsent'
  BY <1>3 DEF TypeInv, TypeOK, Consent, RevokeConsent, ConsentExpires, OneActiveConsent
<1> QED
  BY <1>1, <1>2, <1>3
     DEF Next, vars, Connect, StateExpires, Callback, EnqueueInitialSync, RequestFails,
         CreateEnergyAccount, StartJob, WorkerStep, LoadConsent, SkipSync, UpsertAccount,
         UpsertPayment, CalculateScore, SyncFails, Promote, JobStalls, Crash

\* The unique index keeps its promise under every interleaving of callbacks.
THEOREM OneActiveConsentHolds == Spec => []OneActiveConsent
<1>1. Init => OneActiveConsent
  BY DEF Init, OneActiveConsent
<1>2. TypeInv /\ OneActiveConsent /\ [Next]_vars => OneActiveConsent'
  BY OneActiveConsentStep
<1> QED
  BY TypeInvariance, <1>1, <1>2, PTL DEF Spec

ScheduleInv == RequestHasConsent /\ JobHasConsent

\* A request that has created its consent, and hence a job, has a consent
\* behind it after every step.
LEMMA ScheduleStep ==
  ASSUME TypeInv, ScheduleInv, [Next]_vars
  PROVE  ScheduleInv'
<1>1. ConsentsPersist /\ JobsPersist
  BY RowsPersist
<1>2. ASSUME NEW r \in Request, requests'[r] = requests[r], requests[r].pc = "created"
      PROVE  \E c \in ConsentIds' : /\ consents'[c].user = requests[r].user
                                   /\ consents'[c].provider = requests[r].provider
  BY <1>1, <1>2 DEF ScheduleInv, RequestHasConsent, ConsentsPersist
<1>3. ASSUME NEW r \in Request, requests'[r] # requests[r], requests'[r].pc = "created"
      PROVE  \E c \in ConsentId : CreateConsent(r, c)
  <2>1. ASSUME NEW q \in Request, NEW i \in Instance, NEW p \in Pair, NEW t \in Token,
               Callback(q, i, p, t)
        PROVE  FALSE
    BY <1>3, <2>1 DEF TypeInv, TypeOK, Callback
  <2>2. ASSUME NEW q \in Request, NEW c \in ConsentId, CreateConsent(q, c)
        PROVE  CreateConsent(r, c)
    BY <1>3, <2>2 DEF TypeInv, TypeOK, CreateConsent
  <2>3. ASSUME NEW q \in Request, RequestFails(q) \/ \E j \in JobId : EnqueueInitialSync(q, j)
        PROVE  FALSE
    BY <1>3, <2>3 DEF TypeInv, TypeOK, RequestFails, EnqueueInitialSync
  <2>4. ASSUME NEW i \in Instance, Crash(i)
        PROVE  FALSE
    BY <1>3, <2>4 DEF TypeInv, TypeOK, Crash
  <2>5. CASE UNCHANGED requests
    BY <1>3, <2>5
  <2> QED
    BY <2>1, <2>2, <2>3, <2>4, <2>5 DEF Next, vars, Connect, StateExpires, RevokeConsent,
       ConsentExpires, CreateEnergyAccount, StartJob, WorkerStep, LoadConsent, SkipSync,
       UpsertAccount, UpsertPayment, CalculateScore, SyncFails, Promote, JobStalls
<1>4. ASSUME NEW r \in Request, NEW c \in ConsentId, CreateConsent(r, c)
      PROVE  /\ c \in ConsentIds'
             /\ consents'[c].user = requests'[r].user
             /\ consents'[c].provider = requests'[r].provider
  BY <1>4, NoneAssumption DEF TypeInv, TypeOK, CallbackRequest, CreateConsent
<1>5. RequestHasConsent'
  BY <1>2, <1>3, <1>4 DEF RequestHasConsent
<1>6. ASSUME NEW j \in JobIds
      PROVE  ConsentsOfJob(j)' # {}
  BY <1>1, <1>6, ConsentsOfJobPersist DEF ScheduleInv, JobHasConsent
<1>7. ASSUME NEW j \in JobIds', j \notin JobIds
      PROVE  \E r \in Request : EnqueueInitialSync(r, j)
  <2>1. ASSUME UNCHANGED jobs
        PROVE  FALSE
    BY <1>7, <2>1
  <2>3. ASSUME NEW r \in Request, NEW k \in JobId, EnqueueInitialSync(r, k)
        PROVE  EnqueueInitialSync(r, j)
    BY <1>7, <2>3 DEF TypeInv, TypeOK, EnqueueInitialSync
  <2>4. ASSUME NEW k \in JobId, Promote(k) \/ JobStalls(k) \/ \E w \in Instance : StartJob(w, k)
        PROVE  FALSE
    BY <1>7, <2>4 DEF TypeInv, TypeOK, Promote, JobStalls, StartJob
  <2>5. ASSUME NEW w \in Instance, WorkerStep(w)
        PROVE  FALSE
    <3>1. workers[w].job \in JobIds
      BY <2>5 DEF TypeInv, RunInv, RunHasRows, WorkerStep, LoadConsent, SkipSync,
         UpsertAccount, UpsertPayment, CalculateScore, SyncFails
    <3>2. ASSUME NEW outcome, Report(w, outcome)
          PROVE  FALSE
      BY <1>7, <3>1, <3>2 DEF TypeInv, TypeOK, Report
    <3>3. CASE SkipSync(w) \/ CalculateScore(w) \/ SyncFails(w)
      BY <3>2, <3>3 DEF SkipSync, CalculateScore, SyncFails
    <3> QED
      BY <2>1, <2>5, <3>3 DEF WorkerStep, LoadConsent, UpsertAccount, UpsertPayment
  <2> QED
    BY <2>1, <2>3, <2>4, <2>5 DEF Next, vars, Connect, StateExpires, Callback, CreateConsent,
       RequestFails, RevokeConsent, ConsentExpires, CreateEnergyAccount, Crash
<1>8. ASSUME NEW j \in JobId, NEW r \in Request, EnqueueInitialSync(r, j)
      PROVE  ConsentsOfJob(j)' # {}
  BY <1>8 DEF TypeInv, TypeOK, ScheduleInv, RequestHasConsent, EnqueueInitialSync, ConsentsOfJob
<1>9. JobHasConsent'
  BY <1>6, <1>7, <1>8 DEF JobHasConsent
<1> QED
  BY <1>5, <1>9 DEF ScheduleInv

\* Requests and jobs have their consents in every reachable state.
LEMMA ScheduleInvariance == Spec => []ScheduleInv
<1>1. Init => ScheduleInv
  BY DEF Init, ScheduleInv, RequestHasConsent, JobHasConsent
<1>2. TypeInv /\ ScheduleInv /\ [Next]_vars => ScheduleInv'
  BY ScheduleStep
<1> QED
  BY TypeInvariance, <1>1, <1>2, PTL DEF Spec

\* A job is never in the queue before its consent is in the database.
THEOREM JobHasConsentHolds == Spec => []JobHasConsent
<1>1. ScheduleInv => JobHasConsent
  BY DEF ScheduleInv
<1> QED
  BY ScheduleInvariance, <1>1, PTL

-----------------------------------------------------------------------------
(* What the syncs store. *)

Reference(c, i) == [provider |-> consents[c].provider,
                    account |-> AccountOf[consents[c].accessToken], index |-> i]

\* A run in the payment loop has found or made its account and has stored the
\* part of the history it is past.
RunProgress ==
  \A w \in Instance : workers[w].pc = "payments" =>
    /\ accounts[AccountNumberOf(w)] # NoAccount
    /\ \A i \in Index : i < workers[w].index => Reference(workers[w].consent, i) \in payments

DataInv == RunProgress /\ DataHasConsent /\ HistoryHasNoGaps

\* Tables only grow, so what a consent gives access to stays stored.
LEMMA ReferencesPersist ==
  ASSUME TypeInv, [Next]_vars, NEW c \in ConsentIds
  PROVE  /\ c \in ConsentIds'
         /\ consents'[c].provider = consents[c].provider
         /\ consents'[c].accessToken = consents[c].accessToken
         /\ \A i \in Index : Reference(c, i) \in payments => Reference(c, i)' \in payments'
  BY RowsPersist DEF ConsentsPersist, PaymentsPersist, Reference

\* How a step may leave a run in the payment loop.
LEMMA PaymentLoop ==
  ASSUME TypeInv, [Next]_vars, NEW w \in Instance, workers'[w].pc = "payments"
  PROVE  \/ workers'[w] = workers[w]
         \/ UpsertAccount(w)
         \/ UpsertPayment(w)
<1>1. CASE UNCHANGED workers
  BY <1>1
<1>2. ASSUME NEW v \in Instance, NEW j \in JobId, StartJob(v, j)
      PROVE  workers'[w] = workers[w]
  BY <1>2 DEF TypeInv, TypeOK, StartJob
<1>3. ASSUME NEW v \in Instance, NEW c \in ConsentId, LoadConsent(v, c)
      PROVE  workers'[w] = workers[w]
  BY <1>3 DEF TypeInv, TypeOK, Worker, LoadConsent
<1>4. ASSUME NEW v \in Instance, SkipSync(v) \/ CalculateScore(v) \/ SyncFails(v)
      PROVE  workers'[w] = workers[w]
  BY <1>4 DEF TypeInv, TypeOK, SkipSync, CalculateScore, SyncFails, Report
<1>5. ASSUME NEW v \in Instance, UpsertAccount(v) \/ UpsertPayment(v), v # w
      PROVE  workers'[w] = workers[w]
  BY <1>5 DEF TypeInv, TypeOK, UpsertAccount, UpsertPayment
<1>6. ASSUME NEW i \in Instance, Crash(i)
      PROVE  workers'[w] = workers[w]
  BY <1>6 DEF TypeInv, TypeOK, Crash
<1> QED
  BY <1>1, <1>2, <1>3, <1>4, <1>5, <1>6
     DEF Next, vars, Connect, StateExpires, Callback, CreateConsent, EnqueueInitialSync,
         RequestFails, RevokeConsent, ConsentExpires, CreateEnergyAccount, WorkerStep,
         Promote, JobStalls

\* A run has written its account and the payments before its index; no step
\* of another actor takes them away.
LEMMA RunProgressStep ==
  ASSUME TypeInv, TypeInv', RunProgress, [Next]_vars
  PROVE  RunProgress'
<1> SUFFICES ASSUME NEW w \in Instance, workers'[w].pc = "payments"
             PROVE  /\ accounts'[AccountNumberOf(w)'] # NoAccount
                    /\ \A i \in Index : i < workers'[w].index =>
                         Reference(workers[w].consent, i)' \in payments'
  BY DEF RunProgress
<1>1. workers[w] # Idle /\ workers[w].pc # "load"
      /\ workers'[w].consent = workers[w].consent
  <2>1. CASE workers'[w] = workers[w]
    BY <2>1
  <2>2. CASE UpsertAccount(w) \/ UpsertPayment(w)
    <3>1. workers[w] \in Worker
      BY <2>2 DEF UpsertAccount, UpsertPayment, TypeInv, TypeOK
    <3> QED
      BY <2>2, <3>1 DEF UpsertAccount, UpsertPayment, TypeInv, TypeOK, Worker
  <2> QED
    BY <2>1, <2>2, PaymentLoop
<1>2. PICK c \in ConsentIds : c = workers[w].consent
  BY <1>1 DEF TypeInv, RunInv, RunHasRows, ConsentsOfJob
<1>3. /\ ProviderOf(w)' = consents[c].provider
      /\ AccountNumberOf(w)' = AccountOf[consents[c].accessToken]
      /\ AccountNumberOf(w) = AccountOf[consents[c].accessToken]
      /\ AccountOf[consents[c].accessToken] \in AccountNumber
  BY <1>1, <1>2, ReferencesPersist, AccountOfAssumption
     DEF ProviderOf, AccountNumberOf, TypeInv, TypeOK, Consent
<1>4. \A i \in Index : Reference(c, i) \in payments => Reference(c, i)' \in payments'
  BY ReferencesPersist
<1>5. CASE workers'[w] = workers[w]
  BY <1>2, <1>3, <1>4, <1>5, RowsPersist DEF RunProgress, AccountsPersist, Reference
<1>6. CASE UpsertAccount(w)
  <2>1. workers'[w].index = 1
    BY <1>1, <1>6 DEF UpsertAccount, TypeInv, TypeOK, Worker
  <2>2. jobs[workers[w].job].user # None
    BY <1>1, NoneAssumption DEF TypeInv, TypeOK, RunInv, RunHasRows, Job
  <2>3. accounts'[AccountNumberOf(w)] # NoAccount
    BY <1>3, <1>6, <2>2 DEF UpsertAccount, TypeInv, TypeOK
  <2> QED
    BY <1>3, <2>1, <2>3, BoundsAssumption DEF Index
<1>7. CASE UpsertPayment(w)
  <2>1. workers'[w].index = workers[w].index + 1 /\ workers[w].index \in Nat
    BY <1>1, <1>7 DEF UpsertPayment, TypeInv, TypeOK, Worker
  <2>2. Reference(c, workers[w].index) \in payments'
    BY <1>2, <1>7 DEF UpsertPayment, Reference, ProviderOf, AccountNumberOf
  <2>3. \A i \in Index : i < workers[w].index => Reference(c, i) \in payments
    BY <1>2, <1>7 DEF RunProgress, UpsertPayment
  <2>4. accounts'[AccountNumberOf(w)] # NoAccount
    BY <1>3, <1>7 DEF RunProgress, UpsertPayment
  <2>5. ASSUME NEW i \in Index, i < workers'[w].index
        PROVE  Reference(c, i) \in payments'
    BY <1>7, <2>1, <2>2, <2>3, <2>5 DEF Index, UpsertPayment
  <2>6. \A i \in Index : Reference(c, i)' = Reference(c, i)
    BY ReferencesPersist DEF Reference
  <2> QED
    BY <1>1, <1>2, <1>3, <2>4, <2>5, <2>6 DEF Reference
<1> QED
  BY <1>5, <1>6, <1>7, PaymentLoop

\* Only the payment loop writes payments.
LEMMA NewPayment ==
  ASSUME TypeInv, [Next]_vars, NEW ref \in payments', ref \notin payments
  PROVE  \E w \in Instance :
           UpsertPayment(w) /\ ref = Reference(workers[w].consent, workers[w].index)
  BY DEF Next, vars, Connect, StateExpires, Callback, CreateConsent, EnqueueInitialSync,
         RequestFails, RevokeConsent, ConsentExpires, CreateEnergyAccount, StartJob,
         WorkerStep, LoadConsent, SkipSync, UpsertAccount, UpsertPayment, CalculateScore,
         SyncFails, Promote, JobStalls, Crash, Reference, ProviderOf, AccountNumberOf

\* Stored payments keep their account, their consent and their predecessors.
LEMMA DataStep ==
  ASSUME TypeInv, TypeInv', DataInv, [Next]_vars
  PROVE  DataInv'
<1>1. RunProgress'
  BY RunProgressStep DEF DataInv
<1>2. DataHasConsent'
  <2> SUFFICES ASSUME NEW ref \in payments'
               PROVE  /\ accounts'[ref.account] # NoAccount
                      /\ \E c \in ConsentIds' :
                           /\ consents'[c].provider = ref.provider
                           /\ AccountOf[consents'[c].accessToken] = ref.account
    BY DEF DataHasConsent
  <2>1. CASE ref \in payments
    <3>1. accounts[ref.account] # NoAccount /\ ref.account \in AccountNumber
      BY <2>1 DEF DataInv, DataHasConsent, TypeInv, TypeOK, PaymentReference
    <3>2. PICK c \in ConsentIds :
            /\ consents[c].provider = ref.provider
            /\ AccountOf[consents[c].accessToken] = ref.account
      BY <2>1 DEF DataInv, DataHasConsent
    <3> QED
      BY <3>1, <3>2, RowsPersist DEF AccountsPersist, ConsentsPersist
  <2>2. CASE ref \notin payments
    <3>1. PICK w \in Instance :
            UpsertPayment(w) /\ ref = Reference(workers[w].consent, workers[w].index)
      BY <2>2, NewPayment
    <3>2. /\ workers[w].consent \in ConsentIds
          /\ accounts[AccountNumberOf(w)] # NoAccount
      BY <3>1 DEF UpsertPayment, TypeInv, RunInv, RunHasRows, ConsentsOfJob, DataInv, RunProgress
    <3> QED
      BY <3>1, <3>2 DEF UpsertPayment, Reference, AccountNumberOf
  <2> QED
    BY <2>1, <2>2
<1>3. HistoryHasNoGaps'
  <2> SUFFICES ASSUME NEW ref \in payments', NEW i \in Index, i <= ref.index
               PROVE  [ref EXCEPT !.index = i] \in payments'
    BY DEF HistoryHasNoGaps
  <2>1. CASE ref \in payments
    BY <2>1, RowsPersist DEF DataInv, HistoryHasNoGaps, PaymentsPersist
  <2>2. CASE ref \notin payments
    <3>1. PICK w \in Instance :
            UpsertPayment(w) /\ ref = Reference(workers[w].consent, workers[w].index)
      BY <2>2, NewPayment
    <3>2. \A k \in Index : k < workers[w].index => Reference(workers[w].consent, k) \in payments
      BY <3>1 DEF UpsertPayment, DataInv, RunProgress
    <3>3. [ref EXCEPT !.index = i] = Reference(workers[w].consent, i)
      BY <3>1 DEF Reference
    <3>4. CASE i = ref.index
      BY <3>1, <3>3, <3>4 DEF Reference
    <3>5. CASE i < ref.index
      BY <3>1, <3>2, <3>3, <3>5 DEF Reference, UpsertPayment
    <3>6. workers[w].index \in Nat /\ ref.index = workers[w].index
      BY <3>1 DEF UpsertPayment, TypeInv, TypeOK, Worker, Reference
    <3> QED
      BY <3>4, <3>5, <3>6 DEF Index
  <2> QED
    BY <2>1, <2>2
<1> QED
  BY <1>1, <1>2, <1>3 DEF DataInv

\* The invariant on what is stored holds in every reachable state.
LEMMA DataInvariance == Spec => []DataInv
<1>1. Init => DataInv
  BY DEF Init, DataInv, RunProgress, DataHasConsent, HistoryHasNoGaps
<1>2. TypeInv /\ TypeInv' /\ DataInv /\ [Next]_vars => DataInv'
  BY DataStep
<1> QED
  BY TypeInvariance, <1>1, <1>2, PTL DEF Spec

\* Whatever crashes, is redelivered or is revoked meanwhile, no payment is ever
\* stored without an account and a consent that gave access to it.
THEOREM DataHasConsentHolds == Spec => []DataHasConsent
<1>1. DataInv => DataHasConsent
  BY DEF DataInv
<1> QED
  BY DataInvariance, <1>1, PTL

\* Partial syncs, in any number and side by side, leave prefixes.
THEOREM HistoryHasNoGapsHolds == Spec => []HistoryHasNoGaps
<1>1. DataInv => HistoryHasNoGaps
  BY DEF DataInv
<1> QED
  BY DataInvariance, <1>1, PTL

-----------------------------------------------------------------------------
(* What a completed job means. *)

\* A job is completed only by a skipped run or by the end of a whole one.
LEMMA NewlyCompleted ==
  ASSUME TypeInv, [Next]_vars, NEW j \in JobIds', jobs'[j].state = "completed",
         jobs'[j] # jobs[j]
  PROVE  \E w \in Instance :
           workers[w] # Idle /\ workers[w].job = j /\ (SkipSync(w) \/ CalculateScore(w))
<1>1. ASSUME NEW w \in Instance, SkipSync(w) \/ CalculateScore(w)
      PROVE  workers[w] # Idle /\ workers[w].job = j
  BY <1>1 DEF SkipSync, CalculateScore, Report, TypeInv, TypeOK, RunInv, RunHasRows
<1>2. ASSUME NEW w \in Instance, SyncFails(w)
      PROVE  FALSE
  BY <1>2 DEF SyncFails, FailedJob, Report, TypeInv, TypeOK, RunInv, RunHasRows, Job
<1>3. ASSUME NEW r \in Request, NEW k \in JobId, EnqueueInitialSync(r, k)
      PROVE  FALSE
  BY <1>3 DEF EnqueueInitialSync, TypeInv, TypeOK
<1>4. ASSUME NEW k \in JobId, Promote(k) \/ JobStalls(k) \/ \E w \in Instance : StartJob(w, k)
      PROVE  FALSE
  BY <1>4 DEF Promote, JobStalls, StartJob, TypeInv, TypeOK, Job
<1> QED
  BY <1>1, <1>2, <1>3, <1>4 DEF Next, vars, Connect, StateExpires, Callback, CreateConsent,
     RequestFails, RevokeConsent, ConsentExpires, CreateEnergyAccount, WorkerStep,
     LoadConsent, UpsertAccount, UpsertPayment, Crash

\* Why a consent of the pair explains that the job is completed.
Explains(c) == Synced(c) \/ consents[c].revoked \/ consents[c].expired

\* A synced, revoked or expired consent of a job stays one.
LEMMA ExplanationsPersist ==
  ASSUME TypeInv, [Next]_vars, NEW j \in JobIds, NEW c \in ConsentsOfJob(j), Explains(c)
  PROVE  c \in ConsentsOfJob(j)' /\ Explains(c)'
<1>1. c \in ConsentsOfJob(j)'
  BY RowsPersist, ConsentsOfJobPersist
<1>2. Explains(c)'
  BY RowsPersist DEF ConsentsPersist, PaymentsPersist, Explains, Synced, ConsentsOfJob
<1> QED
  BY <1>1, <1>2

\* Every completed job has an explanation after every step.
LEMMA CompletedStep ==
  ASSUME TypeInv, ScheduleInv, DataInv, CompletedMeansSynced, [Next]_vars
  PROVE  CompletedMeansSynced'
<1> SUFFICES ASSUME NEW j \in JobIds', jobs'[j].state = "completed"
             PROVE  \E c \in ConsentsOfJob(j)' : Explains(c)'
  BY DEF CompletedMeansSynced, Explains
<1>1. j \in JobId
  BY DEF TypeInv
<1>2. ASSUME j \in JobIds, NEW c \in ConsentsOfJob(j), Explains(c)
      PROVE  \E d \in ConsentsOfJob(j)' : Explains(d)'
  BY <1>2, ExplanationsPersist
<1>3. CASE jobs'[j] = jobs[j]
  BY <1>2, <1>3 DEF CompletedMeansSynced, Explains
<1>4. CASE jobs'[j] # jobs[j]
  <2>1. PICK w \in Instance :
          workers[w] # Idle /\ workers[w].job = j /\ (SkipSync(w) \/ CalculateScore(w))
    BY <1>4, NewlyCompleted
  <2>2. j \in JobIds
    BY <2>1 DEF TypeInv, RunInv, RunHasRows
  <2>3. CASE SkipSync(w)
    <3>1. PICK c \in ConsentsOfJob(j) : c \in Loadable(w) => consents[c].expired
      <4>1. ConsentsOfJob(j) # {} /\ Loadable(w) \subseteq ConsentsOfJob(j)
        BY <2>1, <2>2 DEF ScheduleInv, JobHasConsent, ConsentsOfJob, Loadable, Unrevoked
      <4> QED
        BY <2>3, <4>1 DEF SkipSync
    <3>2. consents[c].revoked \/ c \in Loadable(w)
      BY <2>1, <3>1 DEF ConsentsOfJob, Loadable, Unrevoked, TypeInv, TypeOK, Consent
    <3> QED
      BY <1>2, <2>2, <3>1, <3>2 DEF Explains
  <2>4. CASE CalculateScore(w)
    <3>1. workers[w].consent \in ConsentsOfJob(j)
      BY <2>1, <2>4 DEF CalculateScore, TypeInv, RunInv, RunHasRows
    <3>2. \A i \in Index : i < workers[w].index
      BY <2>1, <2>4, BoundsAssumption DEF CalculateScore, TypeInv, TypeOK, Worker, Index
    <3>3. Synced(workers[w].consent)
      BY <2>4, <3>2 DEF CalculateScore, DataInv, RunProgress, Synced, Reference
    <3> QED
      BY <1>2, <2>2, <3>1, <3>3 DEF Explains
  <2> QED
    BY <2>1, <2>3, <2>4
<1> QED
  BY <1>3, <1>4

\* A completed job synced a consent of its user and provider, unless one of
\* theirs was withdrawn or ran out.
THEOREM CompletedMeansSyncedHolds == Spec => []CompletedMeansSynced
<1>1. Init => CompletedMeansSynced
  BY DEF Init, CompletedMeansSynced
<1>2. TypeInv /\ ScheduleInv /\ DataInv /\ CompletedMeansSynced /\ [Next]_vars
        => CompletedMeansSynced'
  BY CompletedStep
<1> QED
  BY TypeInvariance, ScheduleInvariance, DataInvariance, <1>1, <1>2, PTL DEF Spec

-----------------------------------------------------------------------------
(* Withdrawal. *)

\* How a step may leave a run that holds a consent.
LEMMA HeldBefore ==
  ASSUME TypeInv, [Next]_vars, NEW w \in Instance, NEW c \in ConsentId,
         workers'[w] # Idle, workers'[w].consent = c
  PROVE  (workers[w] # Idle /\ workers[w].consent = c) \/ LoadConsent(w, c)
<1>1. CASE UNCHANGED workers
  BY <1>1
<1>2. ASSUME NEW v \in Instance, NEW j \in JobId, StartJob(v, j)
      PROVE  workers[w] # Idle /\ workers[w].consent = c
  BY <1>2, NoneAssumption DEF TypeInv, TypeOK, StartJob
<1>3. ASSUME NEW v \in Instance, NEW d \in ConsentId, LoadConsent(v, d)
      PROVE  (workers[w] # Idle /\ workers[w].consent = c) \/ LoadConsent(w, c)
  BY <1>3 DEF TypeInv, TypeOK, Worker, LoadConsent
<1>4. ASSUME NEW v \in Instance, SkipSync(v) \/ CalculateScore(v) \/ SyncFails(v)
      PROVE  workers[w] # Idle /\ workers[w].consent = c
  BY <1>4 DEF TypeInv, TypeOK, SkipSync, CalculateScore, SyncFails, Report
<1>5. ASSUME NEW v \in Instance, UpsertAccount(v) \/ UpsertPayment(v)
      PROVE  workers[w] # Idle /\ workers[w].consent = c
  BY <1>5 DEF TypeInv, TypeOK, Worker, UpsertAccount, UpsertPayment
<1>6. ASSUME NEW i \in Instance, Crash(i)
      PROVE  workers[w] # Idle /\ workers[w].consent = c
  BY <1>6 DEF TypeInv, TypeOK, Crash
<1> QED
  BY <1>1, <1>2, <1>3, <1>4, <1>5, <1>6
     DEF Next, vars, Connect, StateExpires, Callback, CreateConsent, EnqueueInitialSync,
         RequestFails, RevokeConsent, ConsentExpires, CreateEnergyAccount, WorkerStep,
         Promote, JobStalls

\* No retry, redelivery or later job takes up a consent that was revoked or has
\* expired: the runs that loaded it before are the last ones to use it.
THEOREM WithdrawnStaysReleasedHolds == Spec => WithdrawnStaysReleased
<1>1. ASSUME TypeInv, [Next]_vars, NEW c \in ConsentIds,
             consents[c].revoked \/ consents[c].expired, ~Held(c)
      PROVE  ~Held(c)'
  BY <1>1, HeldBefore DEF Held, LoadConsent, Loadable, Unrevoked
<1>2. TypeInv /\ [Next]_vars =>
        [\A c \in ConsentIds :
          (consents[c].revoked \/ consents[c].expired) /\ ~Held(c) => ~Held(c)']_vars
  BY <1>1
<1> QED
  BY TypeInvariance, <1>2, PTL DEF Spec, WithdrawnStaysReleased

-----------------------------------------------------------------------------
(* The end of a job. *)

\* What a job's attempts and deliveries leave it.
Tries(job) == (MaxAttempts - job.attempts) + (MaxStalls + 1 - job.stalls)

\* Remaining by cases; it is a natural number, and zero only for a job that has
\* ended or is in its last run.
LEMMA RemainingIs ==
  ASSUME NEW job \in Job
  PROVE  /\ Tries(job) \in Nat
         /\ job.state \in {"completed", "failed"} => Remaining(job) = 0
         /\ job.state = "active" => Remaining(job) = 3 * Tries(job)
         /\ job.state = "waiting" => Remaining(job) = 3 * Tries(job) + 1
         /\ job.state = "delayed" => Remaining(job) = 3 * Tries(job) + 2
  BY BoundsAssumption DEF Job, Tries, Remaining

\* What a run reports leaves its job less than it had, or nothing.
LEMMA OutcomeUsesUp ==
  ASSUME NEW job \in Job, job.state = "active",
         job.attempts < MaxAttempts, job.stalls <= MaxStalls
  PROVE  /\ Remaining(CompletedJob(job)) < Remaining(job)
         /\ Remaining(FailedJob(job)) < Remaining(job)
<1>1. Tries(job) \in Nat /\ Tries(job) >= 2 /\ Remaining(job) = 3 * Tries(job)
  BY RemainingIs, BoundsAssumption DEF Job, Tries
<1>2. CompletedJob(job) \in Job /\ FailedJob(job) \in Job
  BY OutcomeType DEF IsOutcome
<1>3. Remaining(CompletedJob(job)) = 0
  BY <1>2, RemainingIs DEF CompletedJob, Job
<1>4. Tries(FailedJob(job)) = Tries(job) - 1
  BY BoundsAssumption DEF Tries, FailedJob, Job
<1>5. FailedJob(job).state \in {"delayed", "failed"}
  BY DEF FailedJob, Job
<1>6. Remaining(FailedJob(job)) \in {0, 3 * (Tries(job) - 1) + 2}
  BY <1>2, <1>4, <1>5, RemainingIs
<1> QED
  BY <1>1, <1>3, <1>6

\* A stall takes a delivery from its job.
LEMMA StalledJob ==
  ASSUME NEW job \in Job, job.stalls <= MaxStalls, NEW s \in {"waiting", "failed"},
         NEW stalled,
         stalled = [job EXCEPT !.state = s, !.holder = None, !.stalls = job.stalls + 1]
  PROVE  stalled \in Job /\ stalled.state = s /\ Tries(stalled) = Tries(job) - 1
<1>1. job.attempts \in 0..MaxAttempts /\ job.stalls \in 0..(MaxStalls + 1)
  BY DEF Job
<1>2. job.stalls + 1 \in 0..(MaxStalls + 1)
  BY <1>1, BoundsAssumption
<1>3. stalled \in Job /\ stalled.state = s
  BY <1>2 DEF Job
<1>4. stalled.attempts = job.attempts /\ stalled.stalls = job.stalls + 1
  BY DEF Job
<1>5. Tries(stalled) = Tries(job) - 1
  BY <1>1, <1>4, BoundsAssumption DEF Tries
<1> QED
  BY <1>3, <1>5

\* A step changes one job at most, and in a way that uses up some of it; a run
\* that lost its lock changes none.
LEMMA JobUsesUp ==
  ASSUME TypeInv, [Next]_vars, NEW j \in JobIds, jobs'[j] # jobs[j]
  PROVE  Remaining(jobs'[j]) < Remaining(jobs[j])
<1>1. jobs[j] \in Job /\ (~Finished(j) => jobs[j].attempts < MaxAttempts /\ jobs[j].stalls <= MaxStalls)
  BY DEF TypeInv, TypeOK, QueueInv
<1>2. ASSUME NEW r \in Request, NEW k \in JobId, EnqueueInitialSync(r, k)
      PROVE  FALSE
  BY <1>2 DEF TypeInv, TypeOK, EnqueueInitialSync
<1>3. ASSUME NEW w \in Instance, NEW k \in JobId, StartJob(w, k)
      PROVE  Remaining(jobs'[j]) < Remaining(jobs[j])
  <2>1. /\ jobs[j].state = "waiting"
        /\ jobs'[j] = [jobs[j] EXCEPT !.state = "active", !.holder = w]
    BY <1>3 DEF TypeInv, TypeOK, StartJob
  <2>2. /\ jobs'[j] \in Job /\ jobs'[j].state = "active"
        /\ jobs'[j].attempts = jobs[j].attempts /\ jobs'[j].stalls = jobs[j].stalls
    BY <1>1, <2>1 DEF Job
  <2>3. Tries(jobs'[j]) = Tries(jobs[j])
    BY <2>2 DEF Tries
  <2>4. Remaining(jobs[j]) = 3 * Tries(jobs[j]) + 1 /\ Tries(jobs[j]) \in Nat
    BY <1>1, <2>1, RemainingIs
  <2>5. Remaining(jobs'[j]) = 3 * Tries(jobs'[j])
    BY <2>2, RemainingIs
  <2> QED
    BY <2>3, <2>4, <2>5
<1>4. ASSUME NEW w \in Instance, SkipSync(w) \/ CalculateScore(w) \/ SyncFails(w)
      PROVE  Remaining(jobs'[j]) < Remaining(jobs[j])
  <2>1. /\ workers[w].job = j
        /\ jobs[j].holder = w
        /\ jobs'[j] \in {CompletedJob(jobs[j]), FailedJob(jobs[j])}
    BY <1>4 DEF TypeInv, TypeOK, Report, SkipSync, CalculateScore, SyncFails
  <2>2. jobs[j].state = "active"
    BY <2>1, NoneAssumption DEF TypeInv, QueueInv
  <2> QED
    BY <1>1, <2>1, <2>2, OutcomeUsesUp DEF Finished
<1>5. ASSUME NEW k \in JobId, Promote(k)
      PROVE  Remaining(jobs'[j]) < Remaining(jobs[j])
  <2>1. jobs[j].state = "delayed" /\ jobs'[j] = [jobs[j] EXCEPT !.state = "waiting"]
    BY <1>5 DEF TypeInv, TypeOK, Promote
  <2>2. /\ jobs'[j] \in Job /\ jobs'[j].state = "waiting"
        /\ jobs'[j].attempts = jobs[j].attempts /\ jobs'[j].stalls = jobs[j].stalls
    BY <1>1, <2>1 DEF Job
  <2>3. Tries(jobs'[j]) = Tries(jobs[j])
    BY <2>2 DEF Tries
  <2>4. Remaining(jobs[j]) = 3 * Tries(jobs[j]) + 2 /\ Tries(jobs[j]) \in Nat
    BY <1>1, <2>1, RemainingIs
  <2>5. Remaining(jobs'[j]) = 3 * Tries(jobs'[j]) + 1
    BY <2>2, RemainingIs
  <2> QED
    BY <2>3, <2>4, <2>5
<1>6. ASSUME NEW k \in JobId, JobStalls(k)
      PROVE  Remaining(jobs'[j]) < Remaining(jobs[j])
  <2>1. /\ jobs[j].state = "active"
        /\ jobs'[j] = [jobs[j] EXCEPT
             !.state = IF jobs[j].stalls < MaxStalls THEN "waiting" ELSE "failed",
             !.holder = None, !.stalls = jobs[j].stalls + 1]
    BY <1>6 DEF TypeInv, TypeOK, JobStalls
  <2>2. PICK s \in {"waiting", "failed"} :
          jobs'[j] = [jobs[j] EXCEPT
            !.state = s, !.holder = None, !.stalls = jobs[j].stalls + 1]
    BY <1>1, <2>1 DEF Job
  <2>3. /\ jobs'[j] \in Job
        /\ jobs'[j].state \in {"waiting", "failed"}
        /\ Tries(jobs'[j]) = Tries(jobs[j]) - 1
    BY <1>1, <2>1, <2>2, StalledJob DEF Finished
  <2>4. Tries(jobs[j]) \in Nat /\ Tries(jobs[j]) >= 2 /\ Remaining(jobs[j]) = 3 * Tries(jobs[j])
    BY <1>1, <2>1, RemainingIs, BoundsAssumption DEF Job, Tries, Finished
  <2>5. Remaining(jobs'[j]) \in {0, 3 * (Tries(jobs[j]) - 1) + 1}
    BY <2>3, RemainingIs
  <2> QED
    BY <2>4, <2>5
<1>7. CASE UNCHANGED jobs
  BY <1>7
<1> QED
  BY <1>2, <1>3, <1>4, <1>5, <1>6, <1>7
     DEF Next, vars, Connect, StateExpires, Callback, CreateConsent, RequestFails,
         RevokeConsent, ConsentExpires, CreateEnergyAccount, WorkerStep, LoadConsent,
         UpsertAccount, UpsertPayment, Crash

\* Every move of a job, a late report of a run that lost its lock included, uses
\* up some of a natural number: a job is delivered a bounded number of times,
\* for any limits, and one that is completed or failed stays so.
THEOREM JobsRunOutHolds == Spec => JobsRunOut
<1>1. TypeInv /\ [Next]_vars =>
        [\A j \in JobIds :
           jobs'[j] # jobs[j] => Remaining(jobs'[j]) < Remaining(jobs[j])]_vars
  BY JobUsesUp
<1> QED
  BY TypeInvariance, <1>1, PTL DEF Spec, JobsRunOut

-----------------------------------------------------------------------------
(* When syncs stay with their user. *)

\* Each account number is one user's at the provider: callbacks carry codes of
\* the user who connects, and whoever enters an account by hand enters their own.
OwnCodes(UserOf) ==
  \A r \in Request :
    requests[r] # NoRequest => UserOf[AccountOf[requests[r].token]] = requests[r].user

OwnEntries(UserOf) ==
  \A u \in User, p \in Provider, a \in AccountNumber, d \in Device :
    CreateEnergyAccount(u, p, a, d) => UserOf[a] = u

OwnSpec(UserOf) ==
  Init /\ [][Next /\ OwnCodes(UserOf)' /\ OwnEntries(UserOf)]_vars

OwnRows(UserOf) ==
  /\ \A c \in ConsentIds : UserOf[AccountOf[consents[c].accessToken]] = consents[c].user
  /\ \A a \in AccountNumber : accounts[a] # NoAccount => accounts[a].user = UserOf[a]

OwnInv(UserOf) == OwnCodes(UserOf) /\ OwnRows(UserOf)

\* Consents keep to their user's accounts and accounts to the user of their
\* number, through every insert and upsert.
LEMMA OwnStep ==
  ASSUME NEW UserOf, TypeInv, TypeInv', OwnInv(UserOf), [Next]_vars,
         OwnCodes(UserOf)', vars' # vars => OwnEntries(UserOf)
  PROVE  OwnInv(UserOf)'
<1>1. ASSUME NEW c \in ConsentIds'
      PROVE  UserOf[AccountOf[consents'[c].accessToken]] = consents'[c].user
  <2>1. CASE c \in ConsentIds
    BY <2>1, RowsPersist DEF ConsentsPersist, OwnInv, OwnRows
  <2>2. CASE c \notin ConsentIds
    <3>1. PICK r \in Request : CreateConsent(r, c)
      BY <1>1, <2>2
         DEF TypeInv, TypeOK, Next, vars, Connect, StateExpires, Callback, CreateConsent,
             EnqueueInitialSync, RequestFails, RevokeConsent, ConsentExpires,
             CreateEnergyAccount, StartJob, WorkerStep, LoadConsent, SkipSync,
             UpsertAccount, UpsertPayment, CalculateScore, SyncFails, Promote, JobStalls, Crash
    <3> QED
      BY <1>1, <3>1 DEF CreateConsent, TypeInv, TypeOK, OwnInv, OwnCodes
  <2> QED
    BY <2>1, <2>2
<1>2. ASSUME NEW a \in AccountNumber, accounts'[a] # NoAccount
      PROVE  accounts'[a].user = UserOf[a]
  <2>1. CASE accounts[a] # NoAccount
    BY <2>1, RowsPersist DEF AccountsPersist, OwnInv, OwnRows
  <2>2. CASE accounts[a] = NoAccount
    <3>1. \/ \E u \in User, p \in Provider, d \in Device : CreateEnergyAccount(u, p, a, d)
          \/ \E w \in Instance : UpsertAccount(w) /\ AccountNumberOf(w) = a
      BY <1>2, <2>2
         DEF TypeInv, TypeOK, Next, vars, Connect, StateExpires, Callback, CreateConsent,
             EnqueueInitialSync, RequestFails, RevokeConsent, ConsentExpires,
             CreateEnergyAccount, StartJob, WorkerStep, LoadConsent, SkipSync,
             UpsertAccount, UpsertPayment, CalculateScore, SyncFails, Promote, JobStalls, Crash
    <3>2. ASSUME NEW u \in User, NEW p \in Provider, NEW d \in Device,
                 CreateEnergyAccount(u, p, a, d)
          PROVE  accounts'[a].user = UserOf[a]
      BY <1>2, <2>2, <3>2 DEF CreateEnergyAccount, TypeInv, TypeOK, OwnEntries, vars
    <3>3. ASSUME NEW w \in Instance, UpsertAccount(w), AccountNumberOf(w) = a
          PROVE  accounts'[a].user = UserOf[a]
      <4>1. /\ workers[w].consent \in ConsentIds
            /\ consents[workers[w].consent].user = jobs[workers[w].job].user
        BY <3>3 DEF UpsertAccount, TypeInv, RunInv, RunHasRows, ConsentsOfJob
      <4>2. accounts'[a].user = jobs[workers[w].job].user
        BY <1>2, <2>2, <3>3 DEF UpsertAccount, TypeInv, TypeOK
      <4> QED
        BY <3>3, <4>1, <4>2 DEF OwnInv, OwnRows, AccountNumberOf
    <3> QED
      BY <3>1, <3>2, <3>3
  <2> QED
    BY <2>1, <2>2
<1> QED
  BY <1>1, <1>2 DEF OwnInv, OwnRows

\* The comment of mkopa.connector.ts:25 holds wherever account numbers tell
\* users apart: if callbacks carry codes of their own user and nobody enters
\* another's account by hand, every run stores its payments under its user.
\* The numbers of MkopaConnector do not, which is all the counterexample to
\* SyncsOwnAccount rests on.
THEOREM DistinctNumbersKeepUsersApart ==
  ASSUME NEW UserOf \in [AccountNumber -> User]
  PROVE  OwnSpec(UserOf) => []SyncsOwnAccount
<1>1. Init => OwnInv(UserOf)
  BY DEF Init, OwnInv, OwnCodes, OwnRows
<1>2. TypeInv /\ TypeInv' /\ OwnInv(UserOf)
        /\ [Next /\ OwnCodes(UserOf)' /\ OwnEntries(UserOf)]_vars => OwnInv(UserOf)'
  <2>1. CASE UNCHANGED vars
    BY <2>1 DEF vars, OwnInv, OwnCodes, OwnRows
  <2> QED
    BY <2>1, OwnStep
<1>3. TypeInv /\ DataInv /\ OwnInv(UserOf) => SyncsOwnAccount
  <2> SUFFICES ASSUME TypeInv, DataInv, OwnInv(UserOf),
                      NEW w \in Instance, workers[w].pc = "payments"
               PROVE  accounts[AccountNumberOf(w)].user = jobs[workers[w].job].user
    BY DEF SyncsOwnAccount
  <2>1. /\ workers[w].consent \in ConsentIds
        /\ consents[workers[w].consent].user = jobs[workers[w].job].user
    BY DEF TypeInv, RunInv, RunHasRows, ConsentsOfJob
  <2>2. AccountNumberOf(w) \in AccountNumber
    BY <2>1, AccountOfAssumption DEF AccountNumberOf, TypeInv, TypeOK, Consent
  <2> QED
    BY <2>1, <2>2 DEF DataInv, RunProgress, OwnInv, OwnRows, AccountNumberOf
<1>4. [Next /\ OwnCodes(UserOf)' /\ OwnEntries(UserOf)]_vars => [Next]_vars
  OBVIOUS
<1>5. OwnSpec(UserOf) => Spec
  BY <1>4, PTL DEF OwnSpec, Spec
<1> QED
  BY TypeInvariance, DataInvariance, <1>1, <1>2, <1>3, <1>5, PTL DEF OwnSpec
====

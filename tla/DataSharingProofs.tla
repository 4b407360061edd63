---- MODULE DataSharingProofs ----
(***************************************************************************)
(* ConsentSync implements DataSharing, for any number of users, tokens,    *)
(* requests, processes and jobs; and what an expired consent blocks.       *)
(***************************************************************************)
EXTENDS ConsentSyncProofs

USE DEF Idle, NoRequest, NoConsent, NoJob, NoAccount, ConsentIds, JobIds

-----------------------------------------------------------------------------
(* How the mapped variables move.  Each is a function of one table, so a     *)
(* step that leaves the table alone leaves its image alone.                  *)

\* What a step that changes one table only may do to the others' images.
LEMMA Images ==
  /\ UNCHANGED consents => UNCHANGED Grants
  /\ UNCHANGED workers => UNCHANGED InUse
  /\ UNCHANGED accounts => UNCHANGED Owners
  BY DEF Grants, InUse, Held, Owners

\* Writing one consent row writes one grant.
LEMMA GrantWritten ==
  ASSUME TypeInv, NEW c \in ConsentId, NEW row, consents' = [consents EXCEPT ![c] = row]
  PROVE  Grants' = [Grants EXCEPT ![c] = GrantOf(row)]
  BY DEF TypeInv, TypeOK, Grants, GrantOf, Standing

\* A callback that inserts its consent gives a grant.
LEMMA CreateConsentGives ==
  ASSUME TypeInv, NEW r \in Request, NEW c \in ConsentId, CreateConsent(r, c)
  PROVE  Sharing!Next
<1> DEFINE u == requests[r].user
           p == requests[r].provider
           a == AccountOf[requests[r].token]
           row == [user |-> u, provider |-> p, accessToken |-> requests[r].token,
                   revoked |-> FALSE, expired |-> FALSE]
<1>1. requests[r] \in CallbackRequest
  BY DEF CreateConsent, TypeInv, TypeOK
<1>2. u \in User /\ p \in Provider /\ a \in AccountNumber
  BY <1>1, AccountOfAssumption DEF CallbackRequest
<1>3. Grants[c] = Sharing!NoGrant
  BY DEF CreateConsent, Grants, GrantOf, Sharing!NoGrant
<1>4. ASSUME NEW h \in ConsentId, Grants[h] # Sharing!NoGrant,
             Grants[h].user = u, Grants[h].provider = p
      PROVE  Grants[h].status = "withdrawn"
  <2>1. h \in ConsentIds
    BY <1>4 DEF Grants, GrantOf, Sharing!NoGrant
  <2>2. consents[h].user = u /\ consents[h].provider = p
    BY <1>4, <2>1 DEF Grants, GrantOf
  <2>3. consents[h].revoked
    BY <2>1, <2>2 DEF CreateConsent, Unrevoked
  <2> QED
    BY <2>1, <2>3 DEF Grants, GrantOf, Standing
<1>5. Grants' = [Grants EXCEPT ![c] = [status |-> "active", user |-> u, provider |-> p, account |-> a]]
  <2>1. consents' = [consents EXCEPT ![c] = row]
    BY DEF CreateConsent
  <2>2. row # NoConsent
    BY <1>2, NoneAssumption
  <2>3. GrantOf(row) = [status |-> "active", user |-> u, provider |-> p, account |-> a]
    BY <2>2 DEF GrantOf, Standing
  <2> QED
    BY <2>1, <2>3, GrantWritten
<1>6. UNCHANGED <<InUse, Owners, payments>>
  BY Images DEF CreateConsent
<1>7. Sharing!Give(c, u, p, a)
  BY <1>3, <1>4, <1>5, <1>6 DEF Sharing!Give
<1> QED
  BY <1>2, <1>7 DEF Sharing!Next

\* Revocation withdraws a grant and expiry lets it lapse, unless it was
\* withdrawn before.
LEMMA EndOfConsent ==
  ASSUME TypeInv, NEW c \in ConsentId, RevokeConsent(c) \/ ConsentExpires(c)
  PROVE  [Sharing!Next]_(Sharing!vars)
<1>1. consents[c] \in Consent /\ consents[c] # NoConsent
  BY DEF RevokeConsent, ConsentExpires, TypeInv, TypeOK
<1>2. Grants[c] = GrantOf(consents[c])
  BY DEF Grants
<1>3. UNCHANGED <<InUse, Owners, payments>>
  BY Images DEF RevokeConsent, ConsentExpires
<1>4. CASE RevokeConsent(c)
  <2> DEFINE row == [consents[c] EXCEPT !.revoked = TRUE]
  <2>1. Grants' = [Grants EXCEPT ![c] = GrantOf(row)]
    BY <1>4, GrantWritten DEF RevokeConsent
  <2>2. /\ row # NoConsent
        /\ row.revoked
        /\ row.user = consents[c].user
        /\ row.provider = consents[c].provider
        /\ row.accessToken = consents[c].accessToken
    BY <1>1, NoneAssumption DEF Consent
  <2> HIDE DEF row
  <2>3. GrantOf(row) = [Grants[c] EXCEPT !.status = "withdrawn"]
    BY <1>1, <1>2, <2>2 DEF GrantOf, Standing
  <2>4. CASE consents[c].revoked
    <3>1. GrantOf(row) = Grants[c]
      BY <1>1, <1>2, <2>2, <2>4 DEF GrantOf, Standing
    <3>2. UNCHANGED Grants
      BY <2>1, <3>1 DEF Grants
    <3> QED
      BY <1>3, <3>2 DEF Sharing!vars
  <2>5. CASE ~consents[c].revoked
    <3>1. Grants[c].status \in {"active", "lapsed"}
      BY <1>1, <1>2, <2>5 DEF GrantOf, Standing
    <3>2. Sharing!Withdraw(c)
      BY <1>3, <2>1, <2>3, <3>1 DEF Sharing!Withdraw
    <3> QED
      BY <3>2 DEF Sharing!Next
  <2> QED
    BY <2>4, <2>5
<1>5. CASE ConsentExpires(c)
  <2> DEFINE row == [consents[c] EXCEPT !.expired = TRUE]
  <2>1. Grants' = [Grants EXCEPT ![c] = GrantOf(row)]
    BY <1>5, GrantWritten DEF ConsentExpires
  <2>2. /\ row # NoConsent
        /\ row.expired
        /\ row.revoked = consents[c].revoked
        /\ row.user = consents[c].user
        /\ row.provider = consents[c].provider
        /\ row.accessToken = consents[c].accessToken
    BY <1>1, NoneAssumption DEF Consent
  <2> HIDE DEF row
  <2>3. CASE consents[c].revoked \/ consents[c].expired
    <3>1. GrantOf(row) = Grants[c]
      BY <1>1, <1>2, <2>2, <2>3 DEF GrantOf, Standing
    <3>2. UNCHANGED Grants
      BY <2>1, <3>1 DEF Grants
    <3> QED
      BY <1>3, <3>2 DEF Sharing!vars
  <2>4. CASE ~consents[c].revoked /\ ~consents[c].expired
    <3>1. Grants[c].status = "active"
      BY <1>1, <1>2, <2>4 DEF GrantOf, Standing
    <3>2. GrantOf(row) = [Grants[c] EXCEPT !.status = "lapsed"]
      BY <1>1, <1>2, <2>2, <2>4 DEF GrantOf, Standing
    <3>3. Sharing!Lapse(c)
      BY <1>3, <2>1, <3>1, <3>2 DEF Sharing!Lapse
    <3> QED
      BY <3>3 DEF Sharing!Next
  <2> QED
    BY <2>3, <2>4
<1> QED
  BY <1>4, <1>5
-----------------------------------------------------------------------------
(* Runs. *)

\* A run holds no consent before it has loaded one.
LoadingHoldsNone ==
  \A w \in Instance : workers[w].pc = "load" => workers[w].consent = None

\* Every step keeps it: only StartJob makes a run that is loading.
LEMMA LoadingStep ==
  ASSUME TypeInv, LoadingHoldsNone, [Next]_vars
  PROVE  LoadingHoldsNone'
<1>1. CASE UNCHANGED workers
  BY <1>1 DEF LoadingHoldsNone
<1>2. ASSUME NEW w \in Instance, NEW j \in JobId, StartJob(w, j)
      PROVE  LoadingHoldsNone'
  BY <1>2 DEF TypeInv, TypeOK, StartJob, LoadingHoldsNone
<1>3. ASSUME NEW w \in Instance, NEW c \in ConsentId, LoadConsent(w, c)
      PROVE  LoadingHoldsNone'
  BY <1>3 DEF TypeInv, TypeOK, Worker, LoadConsent, LoadingHoldsNone
<1>4. ASSUME NEW w \in Instance, SkipSync(w) \/ CalculateScore(w) \/ SyncFails(w)
      PROVE  LoadingHoldsNone'
  BY <1>4 DEF TypeInv, TypeOK, SkipSync, CalculateScore, SyncFails, Report, LoadingHoldsNone
<1>5. ASSUME NEW w \in Instance, UpsertAccount(w) \/ UpsertPayment(w)
      PROVE  LoadingHoldsNone'
  BY <1>5 DEF TypeInv, TypeOK, Worker, UpsertAccount, UpsertPayment, LoadingHoldsNone
<1>6. ASSUME NEW i \in Instance, Crash(i)
      PROVE  LoadingHoldsNone'
  BY <1>6 DEF TypeInv, TypeOK, Crash, LoadingHoldsNone
<1> QED
  BY <1>1, <1>2, <1>3, <1>4, <1>5, <1>6
     DEF Next, vars, Connect, StateExpires, Callback, CreateConsent, EnqueueInitialSync,
         RequestFails, RevokeConsent, ConsentExpires, CreateEnergyAccount, WorkerStep,
         Promote, JobStalls

SharingInv == TypeInv /\ LoadingHoldsNone /\ DataInv

\* What the refinement rests on holds in every reachable state.
LEMMA SharingInvariance == Spec => []SharingInv
<1>1. Init => LoadingHoldsNone
  BY DEF Init, LoadingHoldsNone
<1>2. TypeInv /\ LoadingHoldsNone /\ [Next]_vars => LoadingHoldsNone'
  BY LoadingStep
<1> QED
  BY TypeInvariance, DataInvariance, <1>1, <1>2, PTL DEF Spec, SharingInv

\* Loading an active consent begins its use.
LEMMA LoadBegins ==
  ASSUME SharingInv, NEW w \in Instance, NEW c \in ConsentId, LoadConsent(w, c)
  PROVE  Sharing!Next
<1>1. Grants[c].status = "active"
  <2>1. c \in ConsentIds /\ ~consents[c].revoked /\ ~consents[c].expired
    BY DEF LoadConsent, Loadable, Unrevoked
  <2> QED
    BY <2>1 DEF Grants, GrantOf, Standing
<1>2. InUse' = InUse \cup {c}
  <2>1. /\ workers[w].consent = None
        /\ workers' = [workers EXCEPT ![w].pc = "account", ![w].consent = c]
        /\ workers[w] \in Worker
    BY DEF LoadConsent, SharingInv, LoadingHoldsNone, TypeInv, TypeOK
  <2>2. workers'[w].consent = c /\ workers'[w] # Idle
    BY <2>1 DEF SharingInv, TypeInv, TypeOK, Worker
  <2>3. \A v \in Instance : v # w => workers'[v] = workers[v]
    BY <2>1 DEF SharingInv, TypeInv, TypeOK
  <2> QED
    BY <2>1, <2>2, <2>3, NoneAssumption DEF InUse, Held
<1>3. UNCHANGED <<Grants, Owners, payments>>
  BY Images DEF LoadConsent
<1>4. Sharing!BeginReading(c)
  BY <1>1, <1>2, <1>3 DEF Sharing!BeginReading
<1> QED
  BY <1>4 DEF Sharing!Next

\* A run that ends, by its outcome or in a crash, gives up at most the consent
\* it held.
LEMMA EndOfRun ==
  ASSUME SharingInv, NEW w \in Instance, workers' = [workers EXCEPT ![w] = Idle],
         UNCHANGED <<consents, accounts, payments>>
  PROVE  [Sharing!Next]_(Sharing!vars)
<1>1. UNCHANGED <<Grants, Owners, payments>>
  BY Images
<1>2. workers'[w] = Idle /\ \A v \in Instance : v # w => workers'[v] = workers[v]
  BY DEF SharingInv, TypeInv, TypeOK
<1>3. CASE InUse' = InUse
  BY <1>1, <1>3 DEF Sharing!vars
<1>4. CASE InUse' # InUse
  <2>1. PICK c \in ConsentId : c \in InUse /\ c \notin InUse'
    BY <1>2, <1>4 DEF InUse, Held
  <2>2. workers[w].consent = c
    BY <1>2, <2>1 DEF InUse, Held
  <2>3. InUse' = InUse \ {c}
    BY <1>2, <2>1, <2>2 DEF InUse, Held
  <2>4. Sharing!EndReading(c)
    BY <1>1, <2>3 DEF Sharing!EndReading
  <2> QED
    BY <2>4 DEF Sharing!Next
<1> QED
  BY <1>3, <1>4

\* A new account has an owner.
LEMMA AccountOwned ==
  ASSUME SharingInv, NEW a \in AccountNumber, NEW u \in User, NEW row,
         accounts[a] = NoAccount, row.user = u, row # NoAccount,
         accounts' = [accounts EXCEPT ![a] = row],
         InUse' = InUse, UNCHANGED <<consents, payments>>
  PROVE  Sharing!Next
<1>1. Owners[a] = None
  BY DEF Owners
<1>2. Owners' = [Owners EXCEPT ![a] = u]
  BY DEF Owners, SharingInv, TypeInv, TypeOK
<1>3. Sharing!Own(a, u)
  BY <1>1, <1>2, Images DEF Sharing!Own
<1> QED
  BY <1>3 DEF Sharing!Next

\* The upsert of a run opens the account or leaves everything as it was.
LEMMA UpsertOwns ==
  ASSUME SharingInv, NEW w \in Instance, UpsertAccount(w)
  PROVE  [Sharing!Next]_(Sharing!vars)
<1> DEFINE p == ProviderOf(w)
           a == AccountNumberOf(w)
           u == jobs[workers[w].job].user
           row == [user |-> u, provider |-> p, deviceId |-> DeviceId(p, a)]
<1>1. workers[w] \in Worker /\ workers[w].pc = "account"
  BY DEF UpsertAccount, SharingInv, TypeInv, TypeOK
<1>2. u \in User
  BY <1>1 DEF SharingInv, TypeInv, TypeOK, RunInv, RunHasRows, Job
<1>3. a \in AccountNumber
  BY <1>1, AccountOfAssumption
     DEF SharingInv, TypeInv, TypeOK, RunInv, RunHasRows, ConsentsOfJob, Consent, AccountNumberOf
<1>4. InUse' = InUse
  <2>1. workers' = [workers EXCEPT ![w].pc = "payments", ![w].index = 1]
    BY DEF UpsertAccount
  <2>2. /\ workers'[w] = [workers[w] EXCEPT !.pc = "payments", !.index = 1]
        /\ \A v \in Instance : v # w => workers'[v] = workers[v]
    BY <2>1 DEF SharingInv, TypeInv, TypeOK
  <2>3. /\ workers'[w].consent = workers[w].consent
        /\ workers'[w].pc = "payments"
        /\ workers[w].pc = "account"
    BY <1>1, <2>2 DEF Worker
  <2>4. workers'[w] # Idle /\ workers[w] # Idle
    BY <2>3
  <2>5. \A c \in ConsentId : Held(c)' <=> Held(c)
    BY <2>2, <2>3, <2>4 DEF Held
  <2> QED
    BY <2>5 DEF InUse
<1>5. CASE UNCHANGED accounts
  BY <1>4, <1>5, Images DEF UpsertAccount, Sharing!vars
<1>6. CASE ~UNCHANGED accounts
  <2>1. accounts[a] = NoAccount /\ accounts' = [accounts EXCEPT ![a] = row]
    BY <1>6 DEF UpsertAccount
  <2>2. row.user = u /\ row # NoAccount
    BY <1>2, NoneAssumption
  <2>3. UNCHANGED <<consents, payments>>
    BY DEF UpsertAccount
  <2> HIDE DEF row, a, u
  <2>4. Sharing!Next
    BY <1>2, <1>3, <1>4, <2>1, <2>2, <2>3, AccountOwned
  <2> QED
    BY <2>4
<1> QED
  BY <1>5, <1>6

\* One iteration of the payment loop copies the next entry of the history the
\* consent gives access to.
LEMMA UpsertCopies ==
  ASSUME SharingInv, NEW w \in Instance, UpsertPayment(w)
  PROVE  Sharing!Next
<1> DEFINE c == workers[w].consent
           i == workers[w].index
<1>1. workers[w] \in Worker /\ workers[w].pc = "payments" /\ workers[w] # Idle
  BY DEF UpsertPayment, SharingInv, TypeInv, TypeOK
<1>2. c \in ConsentId /\ consents[c] # NoConsent
  BY <1>1 DEF SharingInv, TypeInv, RunInv, RunHasRows, ConsentsOfJob
<1>3. c \in InUse
  BY <1>1, <1>2 DEF InUse, Held
<1>4. i \in Index
  BY <1>1, BoundsAssumption DEF Worker, UpsertPayment, Index
<1>5. \A k \in Index : Sharing!Entry(c, k) = Reference(c, k)
  BY <1>2 DEF Sharing!Entry, Reference, Grants, GrantOf
<1>6. Grants[c].account = AccountNumberOf(w)
  BY <1>2 DEF Grants, GrantOf, AccountNumberOf
<1>7. Owners[Grants[c].account] # None
  <2>1. accounts[AccountNumberOf(w)] # NoAccount /\ AccountNumberOf(w) \in AccountNumber
    <3>1. consents[c] \in Consent
      BY <1>2 DEF SharingInv, TypeInv, TypeOK
    <3> QED
      BY <1>1, <3>1, AccountOfAssumption
         DEF SharingInv, DataInv, RunProgress, AccountNumberOf, Consent
  <2> QED
    BY <1>6, <2>1, NoneAssumption DEF Owners, SharingInv, TypeInv, TypeOK, EnergyAccount
<1>8. \A k \in Index : k < i => Sharing!Entry(c, k) \in payments
  BY <1>1, <1>5 DEF SharingInv, DataInv, RunProgress
<1>9. payments' = payments \cup {Sharing!Entry(c, i)}
  BY <1>4, <1>5 DEF UpsertPayment, Reference, ProviderOf, AccountNumberOf
<1>10. InUse' = InUse
  <2>1. workers' = [workers EXCEPT ![w].index = @ + 1]
    BY DEF UpsertPayment
  <2>2. /\ workers'[w].consent = c
        /\ workers'[w] # Idle
        /\ \A v \in Instance : v # w => workers'[v] = workers[v]
    BY <1>1, <2>1 DEF SharingInv, TypeInv, TypeOK, Worker
  <2> QED
    BY <1>1, <2>2 DEF InUse, Held
<1>11. UNCHANGED <<Grants, Owners>>
  BY Images DEF UpsertPayment
<1>12. Sharing!Copy(c, i)
  BY <1>3, <1>7, <1>8, <1>9, <1>10, <1>11 DEF Sharing!Copy
<1> QED
  BY <1>2, <1>4, <1>12 DEF Sharing!Next

-----------------------------------------------------------------------------
(* The refinement. *)

\* Every step of the pipeline is a step of the promise, or invisible to it.
LEMMA SharingStep ==
  ASSUME SharingInv, [Next]_vars
  PROVE  [Sharing!Next]_(Sharing!vars)
<1>1. TypeInv
  BY DEF SharingInv
<1>2. CASE UNCHANGED <<consents, workers, accounts, payments>>
  BY <1>2, Images DEF Sharing!vars
<1>3. ASSUME NEW r \in Request, NEW c \in ConsentId, CreateConsent(r, c)
      PROVE  Sharing!Next
  BY <1>1, <1>3, CreateConsentGives
<1>4. ASSUME NEW c \in ConsentId, RevokeConsent(c) \/ ConsentExpires(c)
      PROVE  [Sharing!Next]_(Sharing!vars)
  BY <1>1, <1>4, EndOfConsent
<1>5. ASSUME NEW u \in User, NEW p \in Provider, NEW a \in AccountNumber, NEW d \in Device,
             CreateEnergyAccount(u, p, a, d)
      PROVE  Sharing!Next
  <2> DEFINE row == [user |-> u, provider |-> p, deviceId |-> d]
  <2>1. row.user = u /\ row # NoAccount
    BY NoneAssumption
  <2>2. /\ accounts[a] = NoAccount
        /\ accounts' = [accounts EXCEPT ![a] = row]
        /\ InUse' = InUse
        /\ UNCHANGED <<consents, payments>>
    BY <1>5, Images DEF CreateEnergyAccount
  <2> HIDE DEF row
  <2> QED
    BY <2>1, <2>2, AccountOwned
<1>6. ASSUME NEW w \in Instance, NEW j \in JobId, StartJob(w, j)
      PROVE  UNCHANGED Sharing!vars
  <2>1. /\ workers[w] = Idle
        /\ workers'[w].consent = None
        /\ \A v \in Instance : v # w => workers'[v] = workers[v]
    BY <1>1, <1>6 DEF StartJob, TypeInv, TypeOK
  <2>2. InUse' = InUse
    BY <2>1, NoneAssumption DEF InUse, Held
  <2> QED
    BY <1>6, <2>2, Images DEF StartJob, Sharing!vars
<1>7. ASSUME NEW w \in Instance, WorkerStep(w)
      PROVE  [Sharing!Next]_(Sharing!vars)
  <2>1. CASE SkipSync(w) \/ CalculateScore(w) \/ SyncFails(w)
    <3>1. /\ workers' = [workers EXCEPT ![w] = Idle]
          /\ UNCHANGED <<consents, accounts, payments>>
      BY <2>1 DEF SkipSync, CalculateScore, SyncFails, Report
    <3> QED
      BY <3>1, EndOfRun
  <2> QED
    BY <1>7, <2>1, LoadBegins, UpsertOwns, UpsertCopies DEF WorkerStep
<1>8. ASSUME NEW i \in Instance, Crash(i)
      PROVE  [Sharing!Next]_(Sharing!vars)
  BY <1>8, EndOfRun DEF Crash
<1> QED
  BY <1>2, <1>3, <1>4, <1>5, <1>6, <1>7, <1>8
     DEF Next, vars, Connect, StateExpires, Callback, EnqueueInitialSync, RequestFails,
         Promote, JobStalls

\* The pipeline keeps the promise of DataSharing whatever overlaps, crashes, is
\* retried, revoked or expires.
THEOREM ImplementsDataSharingHolds == Spec => ImplementsDataSharing
<1>1. Init => Sharing!Init
  BY DEF Init, Sharing!Init, Sharing!NoGrant, Grants, GrantOf, InUse, Held, Owners
<1>2. SharingInv /\ [Next]_vars => [Sharing!Next]_(Sharing!vars)
  BY SharingStep
<1> QED
  BY <1>1, <1>2, SharingInvariance, PTL DEF Spec, ImplementsDataSharing, Sharing!Spec

-----------------------------------------------------------------------------
(* Expiry without revocation. *)

\* A consent of the pair that appears in a step was inserted by it.
LEMMA NewConsent ==
  ASSUME TypeInv, [Next]_vars, NEW d \in ConsentId, d \in ConsentIds', d \notin ConsentIds
  PROVE  \E r \in Request : CreateConsent(r, d)
<1>1. CASE UNCHANGED consents
  BY <1>1
<1>2. ASSUME NEW r \in Request, NEW c \in ConsentId, CreateConsent(r, c)
      PROVE  CreateConsent(r, d)
  BY <1>2 DEF CreateConsent, TypeInv, TypeOK
<1>3. ASSUME NEW c \in ConsentId, RevokeConsent(c) \/ ConsentExpires(c)
      PROVE  FALSE
  BY <1>3 DEF RevokeConsent, ConsentExpires, TypeInv, TypeOK
<1> QED
  BY <1>1, <1>2, <1>3
     DEF Next, vars, Connect, StateExpires, Callback, EnqueueInitialSync, RequestFails,
         CreateEnergyAccount, StartJob, WorkerStep, LoadConsent, SkipSync, UpsertAccount,
         UpsertPayment, CalculateScore, SyncFails, Promote, JobStalls, Crash

\* While an expired consent is not revoked, its user and provider get no new
\* consent and no run of theirs loads one.
LEMMA LapsedStep ==
  ASSUME TypeInv, OneActiveConsent, [Next]_vars,
         NEW c \in ConsentIds, Lapsed(c), NEW d \in ConsentId, d \in ConsentIds',
         consents'[d].user = consents[c].user, consents'[d].provider = consents[c].provider
  PROVE  d \in ConsentIds /\ (Held(d)' => Held(d))
<1>1. d \in ConsentIds
  <2>1. ASSUME NEW r \in Request, CreateConsent(r, d)
        PROVE  FALSE
    BY <2>1 DEF CreateConsent, Unrevoked, Lapsed, TypeInv, TypeOK
  <2> QED
    BY <2>1, NewConsent
<1>2. consents[d].user = consents[c].user /\ consents[d].provider = consents[c].provider
  BY <1>1, RowsPersist DEF ConsentsPersist
<1>3. ASSUME NEW w \in Instance, LoadConsent(w, d)
      PROVE  FALSE
  BY <1>1, <1>2, <1>3 DEF LoadConsent, Loadable, Unrevoked, Lapsed, OneActiveConsent
<1>4. Held(d)' => Held(d)
  BY <1>3, HeldBefore DEF Held
<1> QED
  BY <1>1, <1>4

\* An expired consent blocks the renewal of its connection until it is revoked.
THEOREM LapsedBlocksRenewalHolds == Spec => LapsedBlocksRenewal
<1>1. TypeInv /\ OneActiveConsent /\ [Next]_vars =>
        [\A c \in ConsentIds, d \in ConsentId :
           /\ Lapsed(c)
           /\ d \in ConsentIds'
           /\ consents'[d].user = consents[c].user
           /\ consents'[d].provider = consents[c].provider
           => d \in ConsentIds /\ (Held(d)' => Held(d))]_vars
  BY LapsedStep
<1> QED
  BY <1>1, TypeInvariance, OneActiveConsentHolds, PTL DEF Spec, LapsedBlocksRenewal
====

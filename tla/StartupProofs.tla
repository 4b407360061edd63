---- MODULE StartupProofs ----
(***************************************************************************)
(* The safety properties of Startup, for every set of deployments and any  *)
(* number of migrations, retries and mishaps.  The strengthening says what *)
(* each stage of the entrypoint has behind it: nothing but a deployment    *)
(* changes the environment, nothing removes a row, and only a serving      *)
(* application lets anyone else write, so a stage's work is still there    *)
(* when the next one begins.                                               *)
(***************************************************************************)
EXTENDS Startup, RegistrationProofs

Up == {"booting", "serving", "unreachable"}

StartupType ==
  /\ emails \subseteq Email
  /\ schema \in [applied : 0..NumMigrations, unfinished : BOOLEAN]
  /\ providers \in [Slug -> Name \cup {None}]
  /\ accounts \in [Number -> Account \cup {NoAccount}]
  /\ history \in [seeded : {0, 3}, entered : {0, 1}]
  /\ container \in [pc : PC, retries : Nat, count : Nat]
  /\ env \in Deployment

\* Past the migrations the schema is whole.
Migrated ==
  /\ container.pc = "applying" =>
       schema.unfinished /\ schema.applied < NumMigrations
  /\ container.pc \in SeedPC \cup Up =>
       ~schema.unfinished /\ schema.applied = NumMigrations

\* Each step of the seed leaves its row behind.
Seeded ==
  /\ container.pc \in SeedPC => env.seed
  /\ env.seed =>
       /\ container.pc \in {"admin", "provider", "account", "count", "payments"} \cup Up
            => DemoEmail \in emails
       /\ container.pc \in {"provider", "account", "count", "payments"} \cup Up
            => AdminEmail \in emails
       /\ container.pc \in {"account", "count", "payments"} \cup Up
            => providers["m-kopa"] # None
       /\ container.pc \in {"count", "payments"} \cup Up
            => accounts["MKP-93842"] # NoAccount
       /\ container.pc \in Up => history.seeded + history.entered > 0

\* What the seed counted is still so when it inserts.
Counted ==
  container.pc = "payments" => container.count = history.seeded + history.entered

Booted ==
  /\ container.pc = "serving" => ValidConfig(env) /\ ListensOnPort(env)
  /\ container.pc = "unreachable" => ~ListensOnPort(env)

StartupInv == StartupType /\ Migrated /\ Seeded /\ Counted /\ Booted

\* A first start has nothing behind it.
LEMMA InitStartup == StartupInit => StartupInv
BY NumMigrationsAssumption
DEF StartupInit, Init, StartupInv, StartupType, Migrated, Seeded, Counted, Booted,
    Started, PC, SeedPC, Up, NoAccount

USE DEF StartupType, Migrated, Seeded, Counted, Booted, PC, SeedPC, Up, Goto,
        tables

\* Each move of the entrypoint leaves behind what the next stage relies on.
LEMMA ProceedStep == StartupInv /\ Proceed => StartupInv'
<1> SUFFICES ASSUME StartupInv, Proceed PROVE StartupInv'
  OBVIOUS
<1>1. CASE BeginMigration
  BY <1>1 DEF BeginMigration, StartupInv
<1>2. CASE FinishMigration
  BY <1>2, NumMigrationsAssumption DEF FinishMigration, StartupInv
<1>3. CASE MigrateFails
  <2>1. container.retries + 1 \in Nat /\ container.count \in Nat
    BY DEF StartupInv
  <2>2. container'.pc \in {"migrating", "exited"} /\ container' \in [pc : PC, retries : Nat, count : Nat]
    BY <1>3, <2>1 DEF MigrateFails, StartupInv
  <2> QED
    BY <1>3, <2>2 DEF MigrateFails, StartupInv
<1>4. CASE MigrationsApplied
  BY <1>4 DEF MigrationsApplied, StartupInv
<1>5. CASE SeedUser
  BY <1>5, SeedEmailsAssumption DEF SeedUser, StartupInv
<1>6. CASE SeedAdmin
  BY <1>6, SeedEmailsAssumption DEF SeedAdmin, StartupInv
<1>7. CASE SeedProvider
  BY <1>7, NoneAssumption DEF SeedProvider, StartupInv, Slug, Name
<1>8. CASE SeedAccount
  BY <1>8, SeedEmailsAssumption, DemoDeviceAssumption
  DEF SeedAccount, StartupInv, Number, Account, NoAccount, DemoAccount
<1>9. CASE CountPayments
  <2>1. history.seeded + history.entered \in Nat /\ container.retries \in Nat
    BY DEF StartupInv
  <2>2. /\ container'.pc = "payments"
        /\ container'.count = history.seeded + history.entered
        /\ container' \in [pc : PC, retries : Nat, count : Nat]
    BY <1>9, <2>1 DEF CountPayments, StartupInv
  <2> QED
    BY <1>9, <2>2 DEF CountPayments, StartupInv
<1>10. CASE SeedPayments
  BY <1>10 DEF SeedPayments, StartupInv
<1>11. CASE SeedFails
  BY <1>11 DEF SeedFails, StartupInv
<1>12. CASE Boot
  BY <1>12 DEF Boot, StartupInv
<1>13. CASE BootFails
  BY <1>13 DEF BootFails, StartupInv
<1> QED
  BY <1>1, <1>2, <1>3, <1>4, <1>5, <1>6, <1>7, <1>8, <1>9, <1>10, <1>11, <1>12,
     <1>13 DEF Proceed

\* Crashes, restarts, deployments and outages.
LEMMA MishapStep ==
  StartupInv /\ (Crash \/ Restart \/ Deploy \/ DatabaseDown \/ DatabaseUp)
    => StartupInv'
<1> SUFFICES ASSUME StartupInv,
                    Crash \/ Restart \/ Deploy \/ DatabaseDown \/ DatabaseUp
             PROVE  StartupInv'
  OBVIOUS
<1>1. CASE Crash
  BY <1>1 DEF Crash, StartupInv
<1>2. CASE Restart
  BY <1>2 DEF Restart, Started, StartupInv
<1>3. CASE Deploy
  BY <1>3 DEF Deploy, Started, StartupInv
<1>4. CASE DatabaseDown
  BY <1>4 DEF DatabaseDown, StartupInv
<1>5. CASE DatabaseUp
  BY <1>5 DEF DatabaseUp, StartupInv
<1> QED
  BY <1>1, <1>2, <1>3, <1>4, <1>5

\* The callers that are cut off are told of an error.
LEMMA CutOffStep ==
  ASSUME RegistrationInv, CutOff, UNCHANGED emails
  PROVE  RegistrationInv'
<1> DEFINE Cut(c) == [c EXCEPT !.pc = "serverError"]
<1>1. \A r \in Request :
        /\ requests[r].pc = "hashing" =>
             requests'[r] \in Call /\ requests'[r].pc = "serverError"
        /\ requests[r].pc # "hashing" => requests'[r] = requests[r]
  <2> TAKE r \in Request
  <2>1. CASE requests[r].pc = "hashing"
    <3>1. Cut(requests[r]) \in Call /\ Cut(requests[r]).pc = "serverError"
      BY <2>1, NewAnswer DEF RegistrationInv, Answered
    <3>2. requests'[r] = Cut(requests[r])
      BY <2>1 DEF CutOff
    <3> QED
      BY <2>1, <3>1, <3>2
  <2>2. CASE requests[r].pc # "hashing"
    BY <2>2 DEF CutOff
  <2> QED
    BY <2>1, <2>2
<1>2. TypeOK'
  <2>1. requests' = [r \in Request |-> requests'[r]]
    BY DEF CutOff
  <2> QED
    BY <1>1, <2>1 DEF RegistrationInv, TypeOK
<1> QED
  BY <1>1, <1>2 DEF RegistrationInv, Settled, OneCreatorPerEmail, RegisterAnswersConflict

\* More emails, and the same answers.
LEMMA MoreEmails ==
  ASSUME RegistrationInv, UNCHANGED requests,
         emails \subseteq emails', emails' \subseteq Email
  PROVE  RegistrationInv'
BY DEF RegistrationInv, TypeOK, Settled, OneCreatorPerEmail, RegisterAnswersConflict

\* A registered email stays registered.
LEMMA EmailsStay ==
  ASSUME RegistrationInv, Next
  PROVE  emails \subseteq emails'
BY DEF Next, LookUpEmail, InsertUser, LoseRace, InsertFails, AnswerLost

\* What users and administrators do while the application serves.
LEMMA UseStep == StartupInv /\ RegistrationInv /\ Use => StartupInv'
<1> SUFFICES ASSUME StartupInv, RegistrationInv, Use PROVE StartupInv'
  OBVIOUS
<1>1. CASE Register
  <2>1. emails \subseteq emails' /\ emails' \subseteq Email
    BY <1>1, EmailsStay, NextRegistration DEF Register, RegistrationInv, TypeOK
  <2> QED
    BY <1>1, <2>1 DEF Register, StartupInv
<1>2. CASE RequestFails
  BY <1>2 DEF RequestFails, InsertFails, StartupInv
<1>3. CASE EnterPayment
  BY <1>3 DEF EnterPayment, Answering, Serving, StartupInv
<1>4. ASSUME NEW slug \in Slug, NEW name \in Name, CreateProvider(slug, name)
      PROVE  StartupInv'
  BY <1>4, NoneAssumption DEF CreateProvider, Answering, Serving, StartupInv
<1>5. ASSUME NEW number \in Number, NEW device \in Device, NEW owner \in Email,
             CreateAccount(number, device, owner)
      PROVE  StartupInv'
  <2>1. [device |-> device, owner |-> owner] \in Account
    BY DEF Account
  <2>2. [device |-> device, owner |-> owner] # NoAccount
    BY NoneAssumption DEF NoAccount
  <2> QED
    BY <1>5, <2>1, <2>2 DEF CreateAccount, Answering, Serving, StartupInv
<1> QED
  BY <1>1, <1>2, <1>3, <1>4, <1>5 DEF Use

\* Every step, of the entrypoint or around it, keeps both invariants.
LEMMA NextStartup ==
  StartupInv /\ RegistrationInv /\ [StartupNext]_startupVars
    => StartupInv' /\ RegistrationInv'
<1> SUFFICES ASSUME StartupInv, RegistrationInv, [StartupNext]_startupVars
             PROVE  StartupInv' /\ RegistrationInv'
  OBVIOUS
<1>1. CASE Proceed
  <2>1. UNCHANGED requests /\ emails \subseteq emails' /\ emails' \subseteq Email
    BY <1>1, SeedEmailsAssumption
    DEF Proceed, BeginMigration, FinishMigration, MigrateFails, MigrationsApplied,
        SeedUser, SeedAdmin, SeedProvider, SeedAccount, CountPayments,
        SeedPayments, SeedFails, Boot, BootFails, StartupInv
  <2> QED
    BY <1>1, <2>1, ProceedStep, MoreEmails
<1>2. CASE Crash \/ Restart \/ Deploy \/ DatabaseDown \/ DatabaseUp
  <2>1. RegistrationInv'
    BY <1>2, CutOffStep, MoreEmails
    DEF Crash, Restart, Deploy, DatabaseDown, DatabaseUp, StartupInv
  <2> QED
    BY <1>2, <2>1, MishapStep
<1>3. CASE Use
  <2>1. RegistrationInv'
    <3>1. CASE Register
      BY <3>1, NextRegistration DEF Register
    <3>2. CASE RequestFails
      BY <3>2, NextRegistration DEF RequestFails, Next
    <3>3. CASE ~Register /\ ~RequestFails
      BY <1>3, <3>3, MoreEmails
      DEF Use, EnterPayment, CreateProvider, CreateAccount, StartupInv
    <3> QED
      BY <3>1, <3>2, <3>3
  <2> QED
    BY <1>3, <2>1, UseStep
<1>4. CASE UNCHANGED startupVars
  <2>1. StartupInv'
    BY <1>4 DEF startupVars, StartupInv
  <2>2. RegistrationInv'
    BY <1>4, NextRegistration DEF startupVars, vars
  <2> QED
    BY <2>1, <2>2
<1> QED
  BY <1>1, <1>2, <1>3, <1>4 DEF StartupNext

\* Both invariants hold of the composition.
THEOREM StartupInvHolds == StartupSpec => [](StartupInv /\ RegistrationInv)
<1>1. StartupInit => StartupInv /\ RegistrationInv
  BY InitStartup, InitRegistration DEF StartupInit
<1> QED
  BY <1>1, NextStartup, PTL DEF StartupSpec

\* An application that serves has everything it was started for.
THEOREM ServingIsReadyHolds == StartupSpec => []ServingIsReady
<1>1. StartupInv => ServingIsReady
  BY DEF StartupInv, ServingIsReady, Serving
<1> QED
  BY <1>1, StartupInvHolds, PTL

\* The demo history is seeded whole or not at all.
THEOREM DemoHistoryWholeHolds == StartupSpec => []DemoHistoryWhole
<1>1. StartupInv => DemoHistoryWhole
  BY DEF StartupInv, DemoHistoryWhole
<1> QED
  BY <1>1, StartupInvHolds, PTL

\* What Registration promises survives crashes and restarts of its process.
THEOREM RegistrationOutlivesRestarts ==
  StartupSpec => [](OneCreatorPerEmail /\ ConflictIsTrue /\ RegisterAnswersConflict)
<1>1. RegistrationInv => OneCreatorPerEmail /\ ConflictIsTrue /\ RegisterAnswersConflict
  BY DEF RegistrationInv, Settled, ConflictIsTrue
<1> QED
  BY <1>1, StartupInvHolds, PTL

-----------------------------------------------------------------------------
(* The action properties. *)

Kept ==
  /\ \A s \in Slug : providers[s] # None => providers'[s] = providers[s]
  /\ \A n \in Number : accounts[n] # NoAccount => accounts'[n] = accounts[n]
  /\ history'.entered >= history.entered

\* No step changes or removes a row that users made something of.
LEMMA StepKeeps == StartupInv /\ StartupNext => Kept
<1> SUFFICES ASSUME StartupInv, StartupNext PROVE Kept
  OBVIOUS
<1>1. CASE SeedProvider
  BY <1>1 DEF SeedProvider, StartupInv, Kept, Slug, Name
<1>2. CASE SeedAccount
  BY <1>2 DEF SeedAccount, StartupInv, Kept, Number
<1>3. CASE SeedPayments
  BY <1>3 DEF SeedPayments, StartupInv, Kept
<1>4. CASE EnterPayment
  BY <1>4 DEF EnterPayment, StartupInv, Kept
<1>5. ASSUME NEW slug \in Slug, NEW name \in Name, CreateProvider(slug, name)
      PROVE  Kept
  BY <1>5 DEF CreateProvider, StartupInv, Kept
<1>6. ASSUME NEW number \in Number, NEW device \in Device, NEW owner \in Email,
             CreateAccount(number, device, owner)
      PROVE  Kept
  BY <1>6 DEF CreateAccount, StartupInv, Kept
<1>7. CASE UNCHANGED <<providers, accounts, history>>
  BY <1>7 DEF StartupInv, Kept
<1> QED
  BY <1>1, <1>2, <1>3, <1>4, <1>5, <1>6, <1>7
  DEF StartupNext, Proceed, Use, BeginMigration, FinishMigration, MigrateFails,
      MigrationsApplied, SeedUser, SeedAdmin, CountPayments, SeedFails, Boot,
      BootFails, Crash, Restart, Deploy, DatabaseDown, DatabaseUp, Register,
      RequestFails

\* What users and administrators made of a row outlives every restart.
THEOREM RowsAreKeptHolds == StartupSpec => RowsAreKept
<1>1. StartupInv /\ [StartupNext]_startupVars => [Kept]_startupVars
  BY StepKeeps
<1> QED
  BY <1>1, StartupInvHolds, PTL DEF StartupSpec, RowsAreKept, Kept

StaysDown == Stuck /\ ~Serving /\ env' = env => Stuck' /\ ~Serving'

\* Only a serving application is used.
LEMMA UseServes == Use => Serving
<1>1. ASSUME NEW slug \in Slug, NEW name \in Name, CreateProvider(slug, name)
      PROVE  Serving
  BY <1>1 DEF CreateProvider, Answering
<1>2. ASSUME NEW number \in Number, NEW device \in Device, NEW owner \in Email,
             CreateAccount(number, device, owner)
      PROVE  Serving
  BY <1>2 DEF CreateAccount, Answering
<1> QED
  BY <1>1, <1>2 DEF Use, Register, RequestFails, EnterPayment, Answering

\* The entrypoint writes to the schema and the rows only at their own stages, and
\* serves only after Boot.
LEMMA ProceedStages ==
  ASSUME StartupInv, Proceed
  PROVE  /\ Boot \/ ~Serving'
         /\ \/ UNCHANGED schema
            \/ BeginMigration
            \/ FinishMigration
         /\ UNCHANGED <<providers, accounts>> \/ SeedProvider \/ SeedAccount
<1>1. CASE BeginMigration
  BY <1>1 DEF BeginMigration, StartupInv, Serving
<1>2. CASE FinishMigration
  BY <1>2 DEF FinishMigration, StartupInv, Serving
<1>3. CASE MigrateFails
  <2>1. container'.pc \in {"migrating", "exited"}
    BY <1>3 DEF MigrateFails, StartupInv
  <2> QED
    BY <1>3, <2>1 DEF MigrateFails, Serving
<1>4. CASE MigrationsApplied
  BY <1>4 DEF MigrationsApplied, StartupInv, Serving
<1>5. CASE SeedUser
  BY <1>5 DEF SeedUser, StartupInv, Serving
<1>6. CASE SeedAdmin
  BY <1>6 DEF SeedAdmin, StartupInv, Serving
<1>7. CASE SeedProvider
  BY <1>7 DEF SeedProvider, StartupInv, Serving
<1>8. CASE SeedAccount
  BY <1>8 DEF SeedAccount, StartupInv, Serving
<1>9. CASE CountPayments
  BY <1>9 DEF CountPayments, StartupInv, Serving
<1>10. CASE SeedPayments
  BY <1>10 DEF SeedPayments, StartupInv, Serving
<1>11. CASE SeedFails
  BY <1>11 DEF SeedFails, StartupInv, Serving
<1>12. CASE Boot
  BY <1>12 DEF Boot
<1>13. CASE BootFails
  BY <1>13 DEF BootFails, StartupInv, Serving
<1> QED
  BY <1>1, <1>2, <1>3, <1>4, <1>5, <1>6, <1>7, <1>8, <1>9, <1>10, <1>11, <1>12,
     <1>13 DEF Proceed

\* A mishap touches no table and starts nothing that serves.
LEMMA MishapStages ==
  ASSUME StartupInv, ~Serving,
         Crash \/ Restart \/ Deploy \/ DatabaseDown \/ DatabaseUp
  PROVE  ~Serving' /\ UNCHANGED <<schema, providers, accounts>>
<1>1. CASE Crash
  BY <1>1 DEF Crash, StartupInv, Serving
<1>2. CASE Restart
  BY <1>2 DEF Restart, Started, Serving
<1>3. CASE Deploy
  BY <1>3 DEF Deploy, Started, Serving
<1>4. CASE DatabaseDown \/ DatabaseUp
  BY <1>4 DEF DatabaseDown, DatabaseUp, Serving
<1> QED
  BY <1>1, <1>2, <1>3, <1>4

\* The first cause: only the attempt that begins a migration is ever applying.
LEMMA UnfinishedStays ==
  ASSUME StartupInv, schema.unfinished, container.pc # "applying",
         \/ Proceed
         \/ Crash \/ Restart \/ Deploy \/ DatabaseDown \/ DatabaseUp
  PROVE  schema'.unfinished /\ container'.pc # "applying"
<1>1. container.pc \in {"migrating", "exited"}
  BY DEF StartupInv
<1>2. CASE MigrateFails
  <2>1. container'.pc \in {"migrating", "exited"}
    BY <1>2 DEF MigrateFails, StartupInv
  <2> QED
    BY <1>2, <2>1 DEF MigrateFails
<1>3. CASE Crash
  BY <1>3 DEF Crash, StartupInv
<1>4. CASE Restart \/ Deploy \/ DatabaseDown \/ DatabaseUp
  BY <1>4 DEF Restart, Deploy, DatabaseDown, DatabaseUp, Started
<1>5. CASE Proceed /\ ~MigrateFails
  BY <1>1, <1>5
  DEF Proceed, BeginMigration, FinishMigration, MigrationsApplied, SeedUser,
      SeedAdmin, SeedProvider, SeedAccount, CountPayments, SeedPayments,
      SeedFails, Boot, BootFails
<1> QED
  BY <1>2, <1>3, <1>4, <1>5

\* A cause of being stuck lies before the stages it prevents, so the entrypoint
\* stops at it each time.
LEMMA StepStaysDown == StartupInv /\ StartupNext => StaysDown
<1> SUFFICES ASSUME StartupInv, StartupNext, Stuck, ~Serving, env' = env
             PROVE  Stuck' /\ ~Serving'
  BY DEF StaysDown
<1>1. Proceed \/ (Crash \/ Restart \/ Deploy \/ DatabaseDown \/ DatabaseUp)
  BY UseServes DEF StartupNext
<1>2. ~Serving'
  <2>1. CASE Boot
    <3>1. ListensOnPort(env) => ValidConfig(env) /\ env.seed /\ (ProviderBlocked \/ AccountBlocked)
      BY <2>1 DEF Boot, Stuck, StartupInv
    <3>2. ~ListensOnPort(env)
      BY <2>1, <3>1 DEF Boot, StartupInv, ProviderBlocked, AccountBlocked
    <3> QED
      BY <2>1, <3>2 DEF Boot, StartupInv, Serving
  <2>2. CASE ~Boot
    BY <1>1, <2>2, ProceedStages, MishapStages
  <2> QED
    BY <2>1, <2>2
<1>3. CASE schema.unfinished /\ container.pc # "applying"
  <2>1. schema'.unfinished /\ container'.pc # "applying"
    BY <1>1, <1>3, UnfinishedStays
  <2> QED
    BY <1>2, <2>1 DEF Stuck
<1>4. CASE ~ValidConfig(env) \/ ~ListensOnPort(env)
  BY <1>2, <1>4 DEF Stuck, ValidConfig, ListensOnPort
<1>5. CASE env.seed /\ ProviderBlocked
  <2>1. ~SeedProvider /\ ~SeedAccount
    BY <1>5 DEF SeedProvider, SeedAccount, StartupInv, ProviderBlocked
  <2>2. UNCHANGED providers
    BY <1>1, <2>1, ProceedStages, MishapStages
  <2>3. ProviderBlocked'
    BY <1>5, <2>2 DEF ProviderBlocked, HasName
  <2> QED
    BY <1>2, <1>5, <2>3 DEF Stuck
<1>6. CASE env.seed /\ AccountBlocked
  <2>1. ~SeedAccount
    BY <1>6 DEF SeedAccount
  <2>2. UNCHANGED accounts
    <3>1. CASE SeedProvider
      BY <3>1 DEF SeedProvider
    <3> QED
      BY <1>1, <2>1, <3>1, ProceedStages, MishapStages
  <2>3. AccountBlocked'
    BY <1>6, <2>2 DEF AccountBlocked, HasDevice
  <2> QED
    BY <1>2, <1>6, <2>3 DEF Stuck
<1> QED
  BY <1>3, <1>4, <1>5, <1>6 DEF Stuck

\* A stuck application stays down until it is deployed differently.
THEOREM StuckStaysDownHolds == StartupSpec => StuckStaysDown
<1>1. StartupInv /\ [StartupNext]_startupVars => [StaysDown]_startupVars
  BY StepStaysDown
<1> QED
  BY <1>1, StartupInvHolds, PTL DEF StartupSpec, StuckStaysDown, StaysDown

-----------------------------------------------------------------------------
(* The end of a start. *)

\* An attempt that is under way is one of those allowed.
Retrying ==
  container.pc \in {"migrating", "applying"} => container.retries < MaxRetries

MovesLeft ==
  2 * ((MaxRetries - container.retries) + (NumMigrations - schema.applied))

\* The measure where the migrations are under way, and past them.
LEMMA StepsLeftIs ==
  ASSUME StartupInv, Retrying
  PROVE  /\ container.pc = "migrating" => StepsLeft = 9 + MovesLeft /\ MovesLeft \in Nat
         /\ container.pc = "applying" => StepsLeft = 8 + MovesLeft /\ MovesLeft \in Nat
         /\ container.pc \notin {"migrating", "applying"} =>
              StepsLeft = Stage[container.pc] /\ StepsLeft \in 0..8
<1>1. container.retries \in Nat /\ schema.applied \in 0..NumMigrations
  BY DEF StartupInv
<1>2. container.pc \in {"migrating", "applying"} => MovesLeft \in Nat
  BY <1>1, MaxRetriesAssumption, NumMigrationsAssumption DEF Retrying, MovesLeft
<1>3. Stage["migrating"] = 9 /\ Stage["applying"] = 8
  BY DEF Stage
<1>4. container.pc \notin {"migrating", "applying"} => Stage[container.pc] \in 0..8
  BY DEF StartupInv, Stage
<1> QED
  BY <1>2, <1>3, <1>4 DEF StepsLeft, MovesLeft

\* In every reachable state it is a natural number.
LEMMA StepsLeftNat == StartupInv /\ Retrying => StepsLeft \in Nat
BY StepsLeftIs DEF StartupInv

\* One move of the entrypoint.
LEMMA ProceedUsesUp ==
  ASSUME StartupInv, Retrying, Proceed
  PROVE  Retrying' /\ StepsLeft' < StepsLeft
<1>1. StartupInv'
  BY ProceedStep
<1>2. Retrying'
  <2>1. CASE MigrateFails
    BY <2>1, MaxRetriesAssumption DEF MigrateFails, StartupInv, Retrying
  <2>2. CASE ~MigrateFails
    BY <2>2
    DEF Proceed, BeginMigration, FinishMigration, MigrationsApplied, SeedUser,
        SeedAdmin, SeedProvider, SeedAccount, CountPayments, SeedPayments,
        SeedFails, Boot, BootFails, StartupInv, Retrying
  <2> QED
    BY <2>1, <2>2
<1>3. /\ container'.pc = "migrating" => StepsLeft' = 9 + MovesLeft' /\ MovesLeft' \in Nat
      /\ container'.pc = "applying" => StepsLeft' = 8 + MovesLeft' /\ MovesLeft' \in Nat
      /\ container'.pc \notin {"migrating", "applying"} =>
           StepsLeft' = Stage[container'.pc] /\ StepsLeft' \in 0..8
  <2>1. (StartupInv /\ Retrying)' =>
          (/\ container.pc = "migrating" => StepsLeft = 9 + MovesLeft /\ MovesLeft \in Nat
           /\ container.pc = "applying" => StepsLeft = 8 + MovesLeft /\ MovesLeft \in Nat
           /\ container.pc \notin {"migrating", "applying"} =>
                StepsLeft = Stage[container.pc] /\ StepsLeft \in 0..8)'
    BY StepsLeftIs, PTL
  <2> QED
    BY <1>1, <1>2, <2>1 DEF Stage
<1>4. /\ container.pc = "migrating" => StepsLeft = 9 + MovesLeft /\ MovesLeft \in Nat
      /\ container.pc = "applying" => StepsLeft = 8 + MovesLeft /\ MovesLeft \in Nat
      /\ container.pc \notin {"migrating", "applying"} => StepsLeft = Stage[container.pc]
  BY StepsLeftIs
<1>5. CASE BeginMigration
  <2>1. /\ container.pc = "migrating" /\ container'.pc = "applying"
        /\ container'.retries = container.retries /\ schema'.applied = schema.applied
    BY <1>5 DEF BeginMigration, StartupInv
  <2>2. MovesLeft' = MovesLeft
    BY <2>1 DEF MovesLeft
  <2> QED
    BY <1>2, <1>3, <1>4, <2>1, <2>2
<1>6. CASE FinishMigration
  <2>1. /\ container.pc = "applying" /\ container'.pc = "migrating"
        /\ container'.retries = container.retries
        /\ container.retries \in Nat /\ schema.applied \in Nat
        /\ schema'.applied = schema.applied + 1
    BY <1>6, NumMigrationsAssumption DEF FinishMigration, StartupInv
  <2>2. MovesLeft' = MovesLeft - 2
    BY <2>1, MaxRetriesAssumption, NumMigrationsAssumption DEF MovesLeft
  <2> QED
    BY <1>2, <1>3, <1>4, <2>1, <2>2
<1>7. CASE MigrateFails
  <2>1. /\ container.pc \in {"applying", "migrating"}
        /\ container'.pc \in {"migrating", "exited"}
        /\ container'.retries = container.retries + 1
        /\ container.retries \in Nat /\ schema.applied \in Nat
        /\ schema'.applied = schema.applied
    BY <1>7, NumMigrationsAssumption DEF MigrateFails, StartupInv
  <2>2. MovesLeft' = MovesLeft - 2
    BY <2>1, MaxRetriesAssumption, NumMigrationsAssumption DEF MovesLeft
  <2>3. container'.pc = "exited" => StepsLeft' = 0
    BY <1>3 DEF Stage
  <2> QED
    BY <1>2, <1>3, <1>4, <2>1, <2>2, <2>3
<1>8. CASE MigrationsApplied
  <2>1. container.pc = "migrating" /\ container'.pc \in {"user", "booting"}
    BY <1>8 DEF MigrationsApplied, StartupInv
  <2>2. StepsLeft' \in 0..8
    BY <1>3, <2>1
  <2> QED
    BY <1>2, <1>4, <2>1, <2>2
<1>9. CASE SeedUser \/ SeedAdmin \/ SeedProvider \/ SeedAccount \/ CountPayments
        \/ SeedPayments
  <2>1. <<container.pc, container'.pc>> \in
          {<<"user", "admin">>, <<"admin", "provider">>, <<"provider", "account">>,
           <<"account", "count">>, <<"count", "payments">>, <<"payments", "booting">>}
    BY <1>9
    DEF SeedUser, SeedAdmin, SeedProvider, SeedAccount, CountPayments, SeedPayments,
        StartupInv
  <2>2. StepsLeft = Stage[container.pc] /\ StepsLeft' = Stage[container'.pc]
    BY <1>3, <1>4, <2>1
  <2> QED
    BY <1>2, <2>1, <2>2 DEF Stage
<1>10. CASE SeedFails \/ Boot \/ BootFails
  <2>1. \/ container.pc \in SeedPC \cup {"booting"} /\ container'.pc = "exited"
        \/ container.pc = "booting" /\ container'.pc \in {"serving", "unreachable"}
    BY <1>10 DEF SeedFails, Boot, BootFails, StartupInv
  <2>2. StepsLeft = Stage[container.pc] /\ StepsLeft' = Stage[container'.pc]
    BY <1>3, <1>4, <2>1
  <2> QED
    BY <1>2, <2>1, <2>2 DEF Stage
<1> QED
  BY <1>5, <1>6, <1>7, <1>8, <1>9, <1>10 DEF Proceed

\* Every other step: a crash leaves none, an outage or a request what there was.
LEMMA OthersAddNoStep ==
  ASSUME StartupInv, Retrying, StartupNext, ~Proceed
  PROVE  Retrying' /\ (StepsLeft' > StepsLeft => Restart \/ Deploy)
<1>1. CASE Crash
  <2>1. container'.pc = "exited"
    BY <1>1 DEF Crash, StartupInv
  <2>2. StepsLeft' = 0
    BY <2>1 DEF StepsLeft, Stage
  <2>3. StepsLeft \in Nat
    BY StepsLeftNat
  <2> QED
    BY <2>1, <2>2, <2>3 DEF Retrying
<1>2. CASE Restart \/ Deploy
  BY <1>2, MaxRetriesAssumption DEF Restart, Deploy, Started, Retrying
<1>3. CASE UNCHANGED <<container, schema>>
  <2>1. StepsLeft' = StepsLeft
    BY <1>3 DEF StepsLeft, Stage
  <2>2. StepsLeft \in Nat
    BY StepsLeftNat
  <2> QED
    BY <1>3, <2>1, <2>2 DEF Retrying
<1>4. Use \/ DatabaseDown \/ DatabaseUp => UNCHANGED <<container, schema>>
  BY DEF Use, Register, RequestFails, EnterPayment, CreateProvider, CreateAccount,
         DatabaseDown, DatabaseUp
<1> QED
  BY <1>1, <1>2, <1>3, <1>4 DEF StartupNext

\* A start ends, in serving or not, within a number of moves fixed by MaxRetries
\* and the migrations left, whatever fails on the way; nothing but a restart or a
\* deployment gives a container more.
THEOREM StartRunsOutHolds == StartupSpec => StartRunsOut
<1>1. StartupInit => Retrying
  BY MaxRetriesAssumption DEF StartupInit, Started, Retrying
<1>2. StartupInv /\ Retrying /\ [StartupNext]_startupVars =>
        /\ Retrying'
        /\ [/\ Proceed => StepsLeft' < StepsLeft
            /\ StepsLeft' > StepsLeft => Restart \/ Deploy]_startupVars
  <2> SUFFICES ASSUME StartupInv, Retrying, [StartupNext]_startupVars
               PROVE  /\ Retrying'
                      /\ \/ /\ Proceed => StepsLeft' < StepsLeft
                            /\ StepsLeft' > StepsLeft => Restart \/ Deploy
                         \/ UNCHANGED startupVars
    OBVIOUS
  <2>1. CASE Proceed
    <3>1. Retrying' /\ StepsLeft' < StepsLeft
      BY <2>1, ProceedUsesUp
    <3>2. StepsLeft \in Nat
      BY StepsLeftNat
    <3>3. (StepsLeft \in Nat)'
      <4>1. (StartupInv /\ Retrying)'
        BY <2>1, <3>1, ProceedStep
      <4> QED
        BY <4>1, StepsLeftNat, PTL
    <3> QED
      BY <3>1, <3>2, <3>3
  <2>2. CASE ~Proceed /\ StartupNext
    BY <2>2, OthersAddNoStep
  <2>3. CASE UNCHANGED startupVars
    BY <2>3 DEF startupVars, Retrying
  <2> QED
    BY <2>1, <2>2, <2>3
<1> QED
  BY <1>1, <1>2, StartupInvHolds, PTL DEF StartupSpec, StartRunsOut
====

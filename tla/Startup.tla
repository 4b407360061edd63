---- MODULE Startup ----
(***************************************************************************)
(* How the API container comes up: docker-entrypoint.sh applies the        *)
(* migrations with bounded retries, seeds the demo rows when told to, and  *)
(* starts the application, which checks its environment and connects to    *)
(* the database.  The container may die at any point and is started again  *)
(* where docker-compose.prod.yml says so; the database keeps what was      *)
(* written.  Users register (Registration) while the application serves.   *)
(***************************************************************************)
EXTENDS Registration

CONSTANTS
  DemoEmail, AdminEmail,  \* the emails of seed.cjs
  Device, DemoDevice,     \* device ids, and the one of seed.cjs
  Deployment,             \* the environments an operator may deploy
  NumMigrations,
  MaxRetries,             \* MAX_RETRIES
  MaxMishaps,             \* bound on crashes, outages and deployments
  None

ASSUME SeedEmailsAssumption == {DemoEmail, AdminEmail} \subseteq Email
ASSUME DemoDeviceAssumption == DemoDevice \in Device
ASSUME NumMigrationsAssumption == NumMigrations \in Nat
ASSUME MaxRetriesAssumption == MaxRetries \in Nat \ {0}
ASSUME MaxMishapsAssumption == MaxMishaps \in Nat

VARIABLES
  schema,     \* table _prisma_migrations: applied, and whether one is unfinished
  providers,  \* table Provider: the name under each slug
  accounts,   \* table EnergyAccount, by number
  history,    \* payments of the demo account: seeded, and entered by hand
  container,  \* where the entrypoint is
  env,        \* its environment
  dbUp, mishaps

tables == <<emails, schema, providers, accounts, history>>
startupVars == <<emails, requests, schema, providers, accounts, history,
                 container, env, dbUp, mishaps>>

-----------------------------------------------------------------------------
(* The environment: what app.config.ts tells apart. *)

\* "trailing" is a number followed by text, which parseInt takes for a number.
PortText == {"unset", "blank", "number", "trailing", "invalid"}

Environment ==
  [encryptionKey : {"hex64", "other", "unset"},
   databaseUrl : {"set", "unset"}, jwtSecret : {"set", "unset"},
   nodeEnv : {"unset", "known", "other"},
   port : PortText, redisPort : PortText,
   trustProxy : {"off", "all", "hops", "other"},
   seed : BOOLEAN,      \* SEED_DEMO_DATA
   restart : BOOLEAN]   \* restart: unless-stopped

ASSUME DeploymentAssumption == Deployment \subseteq Environment

ValidConfig(e) ==
  /\ e.encryptionKey = "hex64"
  /\ e.databaseUrl = "set"
  /\ e.jwtSecret = "set"
  /\ e.nodeEnv # "other"
  /\ e.port # "invalid"
  /\ e.redisPort # "invalid"
  /\ e.trustProxy # "other"

\* main.ts listens on PORT as it stands: listen refuses an empty one, and takes
\* one with trailing text for the name of a pipe.
ListensOnPort(e) == e.port \in {"unset", "number"}

-----------------------------------------------------------------------------
Slug == {"m-kopa", "other"}
Name == {"M-KOPA", "Other"}
Number == {"MKP-93842", "other"}

NoAccount == [device |-> None]
ASSUME NoneAssumption == None \notin Name \cup Device

Account == [device : Device, owner : Email]

HasName(name) == \E s \in Slug : providers[s] = name
HasDevice(device) == \E n \in Number : accounts[n].device = device

SeedPC == {"user", "admin", "provider", "account", "count", "payments"}
PC == {"migrating", "applying", "booting", "serving", "unreachable", "exited"}
      \cup SeedPC

\* count is what the seed has counted.
Started == [pc |-> "migrating", retries |-> 0, count |-> 0]

StartupInit ==
  /\ Init
  /\ schema = [applied |-> 0, unfinished |-> FALSE]
  /\ providers = [s \in Slug |-> None]
  /\ accounts = [n \in Number |-> NoAccount]
  /\ history = [seeded |-> 0, entered |-> 0]
  /\ container = Started
  /\ env \in Deployment
  /\ dbUp = TRUE
  /\ mishaps = 0

Goto(pc) == container' = [container EXCEPT !.pc = pc]

Serving == container.pc = "serving"

-----------------------------------------------------------------------------
(* docker-entrypoint.sh: until npx prisma migrate deploy ... *)

BeginMigration ==
  /\ container.pc = "migrating"
  /\ dbUp
  /\ ~schema.unfinished
  /\ schema.applied < NumMigrations
  /\ schema' = [schema EXCEPT !.unfinished = TRUE]
  /\ Goto("applying")
  /\ UNCHANGED <<emails, requests, providers, accounts, history, env, dbUp, mishaps>>

FinishMigration ==
  /\ container.pc = "applying"
  /\ dbUp
  /\ schema' = [applied |-> schema.applied + 1, unfinished |-> FALSE]
  /\ Goto("migrating")
  /\ UNCHANGED <<emails, requests, providers, accounts, history, env, dbUp, mishaps>>

\* Fault: after the last attempt the script goes on.
MigrateFailsGoOn ==
  /\ \/ container.pc = "applying"
     \/ container.pc = "migrating" /\ (~dbUp \/ schema.unfinished)
  /\ container' =
       [container EXCEPT
          !.pc = IF container.retries + 1 < MaxRetries THEN "migrating" ELSE "booting",
          !.retries = @ + 1]
  /\ UNCHANGED <<tables, requests, env, dbUp, mishaps>>

\* Fault: the attempts are not counted.
MigrateFailsUncounted ==
  /\ \/ container.pc = "applying"
     \/ container.pc = "migrating" /\ (~dbUp \/ schema.unfinished)
  /\ Goto("migrating")
  /\ UNCHANGED <<tables, requests, env, dbUp, mishaps>>

\* An attempt fails: no database, a migration that an earlier attempt began
\* and did not finish, or one that is refused now and stays unfinished.
MigrateFails ==
  /\ \/ container.pc = "applying"
     \/ container.pc = "migrating" /\ (~dbUp \/ schema.unfinished)
  /\ container' =
       [container EXCEPT
          !.pc = IF container.retries + 1 < MaxRetries THEN "migrating" ELSE "exited",
          !.retries = @ + 1]
  /\ UNCHANGED <<tables, requests, env, dbUp, mishaps>>

MigrationsApplied ==
  /\ container.pc = "migrating"
  /\ dbUp
  /\ ~schema.unfinished
  /\ schema.applied = NumMigrations
  /\ Goto(IF env.seed THEN "user" ELSE "booting")
  /\ UNCHANGED <<tables, requests, env, dbUp, mishaps>>

-----------------------------------------------------------------------------
(* seed.cjs, and seed.ts, which differ in how an enum is written: upserts     *)
(* with an empty update, each on its own.                                     *)

\* Fault: the demo user is created, not upserted.
SeedUserByCreate ==
  /\ container.pc = "user"
  /\ dbUp
  /\ emails' = emails \cup {DemoEmail}
  /\ Goto(IF DemoEmail \in emails THEN "exited" ELSE "admin")
  /\ UNCHANGED <<requests, schema, providers, accounts, history, env, dbUp, mishaps>>

SeedUser ==
  /\ container.pc = "user"
  /\ dbUp
  /\ emails' = emails \cup {DemoEmail}
  /\ Goto("admin")
  /\ UNCHANGED <<requests, schema, providers, accounts, history, env, dbUp, mishaps>>

SeedAdmin ==
  /\ container.pc = "admin"
  /\ dbUp
  /\ emails' = emails \cup {AdminEmail}
  /\ Goto("provider")
  /\ UNCHANGED <<requests, schema, providers, accounts, history, env, dbUp, mishaps>>

\* The name is unique too: a row of another slug may hold it.
ProviderBlocked == providers["m-kopa"] = None /\ HasName("M-KOPA")

SeedProvider ==
  /\ container.pc = "provider"
  /\ dbUp
  /\ ~ProviderBlocked
  /\ providers' = IF providers["m-kopa"] = None
                  THEN [providers EXCEPT !["m-kopa"] = "M-KOPA"]
                  ELSE providers
  /\ Goto("account")
  /\ UNCHANGED <<emails, requests, schema, accounts, history, env, dbUp, mishaps>>

\* And so is the device of an account.
AccountBlocked ==
  accounts["MKP-93842"] = NoAccount /\ HasDevice(DemoDevice)

DemoAccount == [device |-> DemoDevice, owner |-> DemoEmail]

\* Fault: the update of the upsert restores the row.
SeedAccountAnew ==
  /\ container.pc = "account"
  /\ dbUp
  /\ ~AccountBlocked
  /\ accounts' = [accounts EXCEPT !["MKP-93842"] = DemoAccount]
  /\ Goto("count")
  /\ UNCHANGED <<emails, requests, schema, providers, history, env, dbUp, mishaps>>

SeedAccount ==
  /\ container.pc = "account"
  /\ dbUp
  /\ ~AccountBlocked
  /\ accounts' = IF accounts["MKP-93842"] = NoAccount
                 THEN [accounts EXCEPT !["MKP-93842"] = DemoAccount]
                 ELSE accounts
  /\ Goto("count")
  /\ UNCHANGED <<emails, requests, schema, providers, history, env, dbUp, mishaps>>

CountPayments ==
  /\ container.pc = "count"
  /\ dbUp
  /\ container' = [container EXCEPT !.pc = "payments",
                                    !.count = history.seeded + history.entered]
  /\ UNCHANGED <<tables, requests, env, dbUp, mishaps>>

\* Fault: three inserts of their own instead of one createMany.
SeedPaymentsOneByOne ==
  /\ container.pc = "payments"
  /\ dbUp
  /\ IF container.count = 0 /\ history.seeded < 3
     THEN /\ history' = [history EXCEPT !.seeded = @ + 1]
          /\ UNCHANGED container
     ELSE Goto("booting") /\ UNCHANGED history
  /\ UNCHANGED <<emails, requests, schema, providers, accounts, env, dbUp, mishaps>>

SeedPayments ==
  /\ container.pc = "payments"
  /\ dbUp
  /\ history' = IF container.count = 0
                THEN [history EXCEPT !.seeded = @ + 3] ELSE history
  /\ Goto("booting")
  /\ UNCHANGED <<emails, requests, schema, providers, accounts, env, dbUp, mishaps>>

\* Fault: the script goes on (no set -e).
SeedFailsGoOn ==
  /\ \/ container.pc \in SeedPC /\ ~dbUp
     \/ container.pc = "provider" /\ ProviderBlocked
     \/ container.pc = "account" /\ AccountBlocked
  /\ Goto("booting")
  /\ UNCHANGED <<tables, requests, env, dbUp, mishaps>>

\* The seed throws, and the script ends with it (set -e).
SeedFails ==
  /\ \/ container.pc \in SeedPC /\ ~dbUp
     \/ container.pc = "provider" /\ ProviderBlocked
     \/ container.pc = "account" /\ AccountBlocked
  /\ Goto("exited")
  /\ UNCHANGED <<tables, requests, env, dbUp, mishaps>>

-----------------------------------------------------------------------------
(* exec node dist/main.js *)

\* The configuration is loaded, PrismaService connects, the port is opened.
Boot ==
  /\ container.pc = "booting"
  /\ ValidConfig(env)
  /\ env.port # "blank"
  /\ dbUp
  /\ Goto(IF ListensOnPort(env) THEN "serving" ELSE "unreachable")
  /\ UNCHANGED <<tables, requests, env, dbUp, mishaps>>

\* One of the three throws, and the process ends.
BootFails ==
  /\ container.pc = "booting"
  /\ ~ValidConfig(env) \/ ~dbUp \/ env.port = "blank"
  /\ Goto("exited")
  /\ UNCHANGED <<tables, requests, env, dbUp, mishaps>>

-----------------------------------------------------------------------------
(* What may happen to a container and its database. *)

\* The callers whose password was being hashed see their connection close.
CutOff ==
  requests' = [r \in Request |->
    IF requests[r].pc = "hashing"
    THEN [requests[r] EXCEPT !.pc = "serverError"] ELSE requests[r]]

Mishap == mishaps < MaxMishaps /\ mishaps' = mishaps + 1

Crash ==
  /\ Mishap
  /\ container.pc # "exited"
  /\ Goto("exited")
  /\ CutOff
  /\ UNCHANGED <<tables, env, dbUp>>

\* restart: unless-stopped
Restart ==
  /\ container.pc = "exited"
  /\ env.restart
  /\ container' = Started
  /\ UNCHANGED <<tables, requests, env, dbUp, mishaps>>

\* docker compose up, with this environment or another: the container is
\* replaced, and no two run at once (one service, one container_name).
Deploy ==
  /\ Mishap
  /\ env' \in Deployment
  /\ container' = Started
  /\ CutOff
  /\ UNCHANGED <<tables, dbUp>>

DatabaseDown ==
  /\ Mishap
  /\ dbUp
  /\ dbUp' = FALSE
  /\ UNCHANGED <<tables, requests, container, env>>

DatabaseUp ==
  /\ ~dbUp
  /\ dbUp' = TRUE
  /\ UNCHANGED <<tables, requests, container, env, mishaps>>

-----------------------------------------------------------------------------
(* The application while it serves. *)

Answering == Serving /\ dbUp

\* register and createUser, as in Registration.
Register ==
  /\ Answering
  /\ Next
  /\ UNCHANGED <<schema, providers, accounts, history, container, env, dbUp, mishaps>>

RequestFails ==
  /\ Serving
  /\ \E r \in Request : InsertFails(r)
  /\ UNCHANGED <<schema, providers, accounts, history, container, env, dbUp, mishaps>>

\* POST /providers, by an administrator.
CreateProvider(slug, name) ==
  /\ Answering
  /\ providers[slug] = None
  /\ ~HasName(name)
  /\ providers' = [providers EXCEPT ![slug] = name]
  /\ UNCHANGED <<emails, requests, schema, accounts, history, container, env, dbUp, mishaps>>

\* POST /energy-accounts, for oneself; the provider must exist.
CreateAccount(number, device, owner) ==
  /\ Answering
  /\ owner \in emails
  /\ \E s \in Slug : providers[s] # None
  /\ accounts[number] = NoAccount
  /\ ~HasDevice(device)
  /\ accounts' = [accounts EXCEPT ![number] = [device |-> device, owner |-> owner]]
  /\ UNCHANGED <<emails, requests, schema, providers, history, container, env, dbUp, mishaps>>

\* POST /payments, by an administrator, for the account of the demo; one stands
\* for any number of them.
EnterPayment ==
  /\ Answering
  /\ accounts["MKP-93842"] # NoAccount
  /\ history.entered = 0
  /\ history' = [history EXCEPT !.entered = 1]
  /\ UNCHANGED <<emails, requests, schema, providers, accounts, container, env, dbUp, mishaps>>

-----------------------------------------------------------------------------
\* The steps the entrypoint takes by itself.
Proceed ==
  \/ BeginMigration \/ FinishMigration \/ MigrateFails \/ MigrationsApplied
  \/ SeedUser \/ SeedAdmin \/ SeedProvider \/ SeedAccount
  \/ CountPayments \/ SeedPayments \/ SeedFails
  \/ Boot \/ BootFails

Use ==
  \/ Register \/ RequestFails \/ EnterPayment
  \/ \E slug \in Slug, name \in Name : CreateProvider(slug, name)
  \/ \E number \in Number, device \in Device, owner \in Email :
       CreateAccount(number, device, owner)

StartupNext ==
  \/ Proceed
  \/ Crash \/ Restart \/ Deploy \/ DatabaseDown \/ DatabaseUp
  \/ Use

StartupSpec ==
  /\ StartupInit /\ [][StartupNext]_startupVars
  /\ WF_startupVars(Proceed)
  /\ WF_startupVars(Restart)
  /\ WF_startupVars(DatabaseUp)

-----------------------------------------------------------------------------
(* Properties. *)

\* Whatever died or was away on the way up, an application that serves has its
\* whole schema, a valid configuration and, where it was seeded, every row the
\* README promises of a demo.
ServingIsReady ==
  Serving =>
    /\ schema = [applied |-> NumMigrations, unfinished |-> FALSE]
    /\ ValidConfig(env)
    /\ env.seed =>
         /\ {DemoEmail, AdminEmail} \subseteq emails
         /\ providers["m-kopa"] # None
         /\ accounts["MKP-93842"] # NoAccount
         /\ history.seeded + history.entered > 0

\* The demo history is there once or not at all, however often the seed is cut
\* short and run again; the score of the demo depends on all three rows.
DemoHistoryWhole == history.seeded \in {0, 3}

\* No start of a container changes the owner of an account, the name of a
\* provider, or a payment: what users made of a row outlives the seed.
RowsAreKept ==
  [][/\ \A s \in Slug : providers[s] # None => providers'[s] = providers[s]
     /\ \A n \in Number : accounts[n] # NoAccount => accounts'[n] = accounts[n]
     /\ history'.entered >= history.entered]_startupVars

\* Nothing inside the container repairs these.
Stuck ==
  \/ schema.unfinished /\ container.pc # "applying"
  \/ ~ValidConfig(env)
  \/ ~ListensOnPort(env)
  \/ env.seed /\ (ProviderBlocked \/ AccountBlocked)

\* A provider that an administrator registered under the demo's name, or a
\* migration that died half way, keeps the application down through every
\* restart, until it is deployed differently.
StuckStaysDown ==
  [][Stuck /\ ~Serving /\ env' = env => Stuck' /\ ~Serving']_startupVars

\* How many moves a container may still make before it is started anew: one per
\* statement of the seed, two per attempt and per migration left.
Stage ==
  [exited |-> 0, serving |-> 1, unreachable |-> 1, booting |-> 2,
   payments |-> 3, count |-> 4, account |-> 5, provider |-> 6, admin |-> 7,
   user |-> 8, applying |-> 8, migrating |-> 9]

StepsLeft ==
  Stage[container.pc] +
    IF container.pc \in {"migrating", "applying"}
    THEN 2 * ((MaxRetries - container.retries) + (NumMigrations - schema.applied))
    ELSE 0

\* The loop of the entrypoint ends whatever fails in it and however often: each
\* move of a start uses up some of a bounded number of them, so it ends in
\* serving, in being unreachable or in exit, and only a restart or a deployment
\* gives a container new ones.
StartRunsOut ==
  [][/\ Proceed => StepsLeft' < StepsLeft
     /\ StepsLeft' > StepsLeft => Restart \/ Deploy]_startupVars

\* Once crashes, outages and deployments end, the application serves, unless
\* it is stuck or its container was left exited on purpose.
EventuallyServes ==
  <>[](\/ Serving
       \/ Stuck
       \/ container.pc = "exited" /\ ~env.restart)
====

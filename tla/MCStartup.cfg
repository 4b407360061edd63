\* One container and its database through two mishaps.
CONSTANTS
  Email = {demo, admin}
  Request = {r1, r2}
  DemoEmail = demo
  AdminEmail = admin
  Device = {battery}
  DemoDevice = battery
  Deployment <- Deployments
  NumMigrations = 1
  MaxRetries = 2
  MaxMishaps = 2
  None = None
SPECIFICATION StartupSpec
INVARIANTS OneCreatorPerEmail ConflictIsTrue RegisterAnswersConflict ServingIsReady DemoHistoryWhole
PROPERTIES RowsAreKept StuckStaysDown StartRunsOut EventuallyServes
CHECK_DEADLOCK FALSE

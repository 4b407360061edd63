\* Two processes; a job lost by one is run again by the other, and a failed one is
\* retried, perhaps under a renewed consent.
CONSTANTS
  User = {u1}
  Provider = {mkopa}
  a1 = a1
  Token = {t1}
  AccountNumber = {a1}
  AccountOf <- OneAccount
  Serial = {}
  ConsentId = {c1, c2}
  JobId = {j1}
  Request = {r1}
  Instance = {i1, i2}
  NumPayments = 2
  MaxAttempts = 2
  MaxStalls = 1
  None = None
SPECIFICATION FairSpec
INVARIANTS TypeOK DataHasConsent HistoryHasNoGaps CompletedMeansSynced
PROPERTIES WithdrawnStaysReleased JobsRunOut JobsFinish
CHECK_DEADLOCK FALSE

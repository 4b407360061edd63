\* The process dies, or Redis refuses, between the consent and its job.
CONSTANTS
  User = {u1}
  Provider = {mkopa}
  a1 = a1
  Token = {t1}
  AccountNumber = {a1}
  AccountOf <- OneAccount
  Serial = {s1}
  ConsentId = {c1, c2}
  JobId = {j1}
  Request = {r1}
  Instance = {i1, i2}
  NumPayments = 2
  MaxAttempts = 3
  MaxStalls = 1
  None = None
SPECIFICATION Spec
INVARIANTS ConnectionIsScheduled
CHECK_DEADLOCK FALSE

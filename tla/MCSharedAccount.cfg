\* Two users connect with codes of their own; one API process, as deployed.
CONSTANTS
  u1 = u1
  u2 = u2
  User = {u1, u2}
  Provider = {mkopa}
  Token <- Tokens
  AccountNumber <- Accounts
  AccountOf <- AccountOfToken
  Serial = {}
  ConsentId = {c1, c2}
  JobId = {j1, j2}
  Request = {r1}
  Instance = {i1}
  NumPayments = 2
  MaxAttempts = 3
  MaxStalls = 1
  None = None
SPECIFICATION OwnCodesSpec
INVARIANTS SyncsOwnAccount
CHECK_DEADLOCK FALSE

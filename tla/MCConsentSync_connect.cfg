\* Callbacks of one user and of two users race; both users' tokens open one account.
CONSTANTS
  User = {u1, u2}
  Provider = {mkopa}
  a1 = a1
  Token = {t1}
  AccountNumber = {a1}
  AccountOf <- OneAccount
  Serial = {}
  ConsentId = {c1, c2}
  JobId = {j1, j2}
  Request = {r1, r2}
  Instance = {i1}
  NumPayments = 2
  MaxAttempts = 1
  MaxStalls = 0
  None = None
SPECIFICATION Spec
SYMMETRY Ids
INVARIANTS OneActiveConsent JobHasConsent CompletedMeansSynced
PROPERTIES OwnerIsPermanent WithdrawnStaysReleased LapsedBlocksRenewal ImplementsDataSharing
CHECK_DEADLOCK FALSE

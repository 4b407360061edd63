\* Two resets with one token overlap.
CONSTANTS
  User = {u1}
  Password = {p1, p2}
  TokenId = {t1}
  ResetId = {k1}
  Request = {r1, r2}
  MaxFailed = 1
  None = None
SPECIFICATION FairSpec
PROPERTY OneTimeReset
CHECK_DEADLOCK FALSE

\* A refresh under way while its session is terminated.
CONSTANTS
  User = {u1}
  Password = {p1, p2}
  TokenId = {t1, t2}
  ResetId = {k1}
  Request = {r1}
  MaxFailed = 1
  None = None
SPECIFICATION FairSpec
PROPERTY TerminationIsFinal
CHECK_DEADLOCK FALSE

\* Two tabs of one browser; their calls and replies are delayed, lost, reordered.
CONSTANTS
  User = {u1}
  Password = {p1, p2}
  TokenId = {t1, t2, t3}
  ResetId = {}
  Request = {r1, r2}
  MaxFailed = 1
  None = None
SPECIFICATION BrowserSpec
SYMMETRY Ids
INVARIANTS CookieIsCurrent OneLiveTokenPerSession
PROPERTY ImplementsLifecycle
CHECK_DEADLOCK FALSE

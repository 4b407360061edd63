\* Two overlapping requests ask for reset tokens and use them.
CONSTANTS
  User = {u1}
  Password = {p1, p2}
  TokenId = {t1, t2}
  ResetId = {k1, k2, k3}
  Request = {r1, r2}
  MaxFailed = 2
  None = None
SPECIFICATION Spec
SYMMETRY Ids
INVARIANTS TypeOK LockMatchesCounter ResetTokensBounded
PROPERTY DisabledStaysOut
CHECK_DEADLOCK FALSE

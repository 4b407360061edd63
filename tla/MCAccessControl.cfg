CONSTANTS
  User = {u1, u2}
  Request = {r1, r2}
  None = None
SPECIFICATION Spec
SYMMETRY Ids
INVARIANTS ServedIsAllowed
PROPERTIES DeactivatedStaysOut DemotionTakesEffect
CHECK_DEADLOCK FALSE

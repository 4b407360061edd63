CONSTANTS
  Email = {e1, e2}
  Request = {r1, r2}
SPECIFICATION Spec
SYMMETRY Ids
INVARIANT BothAnswerConflict
CHECK_DEADLOCK FALSE

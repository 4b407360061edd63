CONSTANTS
  User = {user, admin}
  Admins = {admin}
  Account = {a1, a2}
  Request = {r1}
  NoUser = NoUser
  MaxPayments = 3
SPECIFICATION Spec
SYMMETRY Ids
INVARIANTS TypeOK ScoreIsReference ScoreAccountsForSummary AnswersBelongToCaller
PROPERTY ScoreNeverRises
CHECK_DEADLOCK FALSE

---- MODULE Registration ----
(***************************************************************************)
(* Accounts are created by AuthService.register (public) and               *)
(* UsersService.createUser (administrators).  Both look the email up, hash *)
(* the password and insert; only the unique index on User.email settles    *)
(* which of several overlapping requests wins.                             *)
(***************************************************************************)
EXTENDS FiniteSets, Naturals

CONSTANTS Email, Request

VARIABLES
  emails,   \* emails of the rows of table User
  requests  \* every request, with its reply once it has one

vars == <<emails, requests>>

\* A request is being hashed for or has its reply: created, conflict (409),
\* uniqueViolation (Prisma's P2002 reached the exception filter, which answers
\* 500) or serverError (any other failure).
NoCall == [pc |-> "none"]

Init ==
  /\ emails = {}
  /\ requests = [r \in Request |-> NoCall]

\* The lookup before the hash.
LookUpEmail(r, email, endpoint) ==
  /\ requests[r] = NoCall
  /\ requests' = [requests EXCEPT ![r] =
       [pc |-> IF email \in emails THEN "conflict" ELSE "hashing",
        email |-> email, endpoint |-> endpoint]]
  /\ UNCHANGED emails

\* Fault: the index on email is not unique.
InsertUserAgain(r) ==
  /\ requests[r].pc = "hashing"
  /\ emails' = emails \cup {requests[r].email}
  /\ requests' = [requests EXCEPT ![r].pc = "created"]

\* The insert after the hash.
InsertUser(r) ==
  /\ requests[r].pc = "hashing"
  /\ requests[r].email \notin emails
  /\ emails' = emails \cup {requests[r].email}
  /\ requests' = [requests EXCEPT ![r].pc = "created"]

\* Fault: every error of the insert is answered as a conflict.
MaskErrors(r) ==
  /\ requests[r].pc = "hashing"
  /\ requests' = [requests EXCEPT ![r].pc = "conflict"]
  /\ UNCHANGED emails

\* Fault: register does not translate the violation.
LoseRaceUncaught(r) ==
  /\ requests[r].pc = "hashing"
  /\ requests[r].email \in emails
  /\ requests' = [requests EXCEPT ![r].pc = "uniqueViolation"]
  /\ UNCHANGED emails

\* The insert is refused: another request was faster.  register translates
\* the violation, createUser lets it through.
LoseRace(r) ==
  /\ requests[r].pc = "hashing"
  /\ requests[r].email \in emails
  /\ requests' = [requests EXCEPT ![r].pc =
       IF requests[r].endpoint = "register" THEN "conflict"
                                            ELSE "uniqueViolation"]
  /\ UNCHANGED emails

\* The database is unreachable or the process dies: the caller sees an error.
InsertFails(r) ==
  /\ requests[r].pc = "hashing"
  /\ requests' = [requests EXCEPT ![r].pc = "serverError"]
  /\ UNCHANGED emails

\* The row is written, and the connection is lost before the answer: the caller
\* sees an error, and a conflict when it tries again.
AnswerLost(r) ==
  /\ requests[r].pc = "hashing"
  /\ requests[r].email \notin emails
  /\ emails' = emails \cup {requests[r].email}
  /\ requests' = [requests EXCEPT ![r].pc = "serverError"]

Next ==
  \/ \E r \in Request, email \in Email, endpoint \in {"register", "createUser"} :
       LookUpEmail(r, email, endpoint)
  \/ \E r \in Request : InsertUser(r) \/ LoseRace(r) \/ InsertFails(r) \/ AnswerLost(r)

Spec == Init /\ [][Next]_vars

-----------------------------------------------------------------------------
\* However requests for one email overlap, one of them at most is told that
\* it created the account.
OneCreatorPerEmail ==
  \A r, s \in Request :
    /\ requests[r].pc = "created"
    /\ requests[s].pc = "created"
    /\ requests[r].email = requests[s].email
    => r = s

\* "Email already in use" is only said of an email that is in use, and never
\* covers up another failure of the insert.
ConflictIsTrue ==
  \A r \in Request : requests[r].pc = "conflict" => requests[r].email \in emails

\* The race both lookups let through ends in a 409 for callers of register.
RegisterAnswersConflict ==
  \A r \in Request :
    requests[r].pc = "uniqueViolation" => requests[r].endpoint = "createUser"

\* "both now return a consistent 409 instead of leaking a server error"
\* (auth.service.ts:60-61).
BothAnswerConflict == \A r \in Request : requests[r].pc # "uniqueViolation"
====

---- MODULE Sessions ----
(***************************************************************************)
(* The session and recovery part of AuthService: login with its lockout,   *)
(* rotation of refresh tokens, logout, and the password reset.             *)
(*                                                                         *)
(* A handler reads its row, awaits bcrypt or the database, and writes from *)
(* what it read.  Requests of one user overlap at every await, so each is  *)
(* a record that carries what it read until it writes.                     *)
(***************************************************************************)
EXTENDS Naturals, FiniteSets

CONSTANTS
  User, Password,
  TokenId,    \* refresh tokens; the uuid of a family is its first token's
  ResetId,    \* password reset tokens
  Request,    \* requests that can be in flight at once
  MaxFailed,  \* MAX_FAILED_LOGIN_ATTEMPTS
  None

ASSUME MaxFailedAssumption == MaxFailed \in Nat \ {0}
ASSUME NoUserAssumption == None \notin User
ASSUME RequestAssumption == IsFiniteSet(Request)

VARIABLES
  users,        \* table User
  tokens,       \* table RefreshToken
  resetTokens,  \* table PasswordResetToken
  requests      \* the requests being handled

vars == <<users, tokens, resetTokens, requests>>

-----------------------------------------------------------------------------
(* The rows and records. *)

\* lockedUntil: null, in the future, or in the past.
Lock == {"none", "locked", "over"}

UserRow == [password : Password, active : BOOLEAN,
            attempts : 0..MaxFailed, lock : Lock]

Token == [user : User, family : TokenId, revoked : BOOLEAN, expired : BOOLEAN]

NoToken == [user |-> None]

\* A deleted row keeps its identifier: a uuid is not used again.
ResetToken == [user : User, state : {"unused", "used", "deleted"},
               expired : BOOLEAN]

NoResetToken == [user |-> None]

\* attempts and lock are the ones login read; valid, whether the password
\* presented is the one it read.
Login == [pc : {"compare", "opening"}, user : User, valid : BOOLEAN,
          attempts : 0..MaxFailed, lock : Lock]
Refresh == [pc : {"rotating", "rotated"}, user : User, token : TokenId]
Forgot == [pc : {"forgot"}, user : User]
Reset == [pc : {"resetting"}, user : User, token : ResetId,
          password : Password]

NoRequest == [pc |-> "none"]

TokenIds == {t \in TokenId : tokens[t] # NoToken}
ResetIds == {k \in ResetId : resetTokens[k] # NoResetToken}

FamilyOf(t) == tokens[t].family

Init ==
  /\ \E password \in [User -> Password] :
       users = [u \in User |-> [password |-> password[u], active |-> TRUE,
                               attempts |-> 0, lock |-> "none"]]
  /\ tokens = [t \in TokenId |-> NoToken]
  /\ resetTokens = [k \in ResetId |-> NoResetToken]
  /\ requests = [r \in Request |-> NoRequest]

-----------------------------------------------------------------------------
(* login *)

\* The user is read; a disabled or locked account is refused at once.
ReadUser(r, u, p) ==
  /\ requests[r] = NoRequest
  /\ users[u].active
  /\ users[u].lock # "locked"
  /\ requests' = [requests EXCEPT ![r] =
       [pc |-> "compare", user |-> u, valid |-> (p = users[u].password),
        attempts |-> users[u].attempts, lock |-> users[u].lock]]
  /\ UNCHANGED <<users, tokens, resetTokens>>

\* Fault: the count goes on after a lock is over.
NewAttemptsNeverFresh(login) == login.attempts + 1

\* The attempts written after a failure: a lock that was over when the user
\* was read starts a fresh count.
NewAttempts(login) == (IF login.lock = "over" THEN 0 ELSE login.attempts) + 1

\* Fault: lockedUntil is not reset with a fresh count.
FailLoginKeepLock(r) ==
  /\ requests[r].pc = "compare"
  /\ ~requests[r].valid
  /\ users' = [users EXCEPT ![requests[r].user] =
       [@ EXCEPT !.attempts = NewAttempts(requests[r]),
                 !.lock = IF NewAttempts(requests[r]) >= MaxFailed
                          THEN "locked" ELSE @]]
  /\ requests' = [requests EXCEPT ![r] = NoRequest]
  /\ UNCHANGED <<tokens, resetTokens>>

\* A wrong password: both fields are written, from the values read before.
FailLogin(r) ==
  /\ requests[r].pc = "compare"
  /\ ~requests[r].valid
  /\ users' = [users EXCEPT ![requests[r].user] =
       [@ EXCEPT !.attempts = NewAttempts(requests[r]),
                 !.lock = IF NewAttempts(requests[r]) >= MaxFailed
                          THEN "locked" ELSE "none"]]
  /\ requests' = [requests EXCEPT ![r] = NoRequest]
  /\ UNCHANGED <<tokens, resetTokens>>

\* The right password: counter and lock are cleared if the user had any.
PassLogin(r) ==
  /\ requests[r].pc = "compare"
  /\ requests[r].valid
  /\ users' = IF requests[r].attempts > 0 \/ requests[r].lock # "none"
              THEN [users EXCEPT ![requests[r].user] =
                      [@ EXCEPT !.attempts = 0, !.lock = "none"]]
              ELSE users
  /\ requests' = [requests EXCEPT ![r].pc = "opening"]
  /\ UNCHANGED <<tokens, resetTokens>>

\* The first token of a new family.
OpenSession(r, t) ==
  /\ requests[r].pc = "opening"
  /\ tokens[t] = NoToken
  /\ tokens' = [tokens EXCEPT ![t] =
       [user |-> requests[r].user, family |-> t,
        revoked |-> FALSE, expired |-> FALSE]]
  /\ requests' = [requests EXCEPT ![r] = NoRequest]
  /\ UNCHANGED <<users, resetTokens>>

-----------------------------------------------------------------------------
(* refresh and logout *)

\* Faults: the revoked flag is not tested; the user is not tested.
PresentRevokedToken(r, t) ==
  /\ requests[r] = NoRequest
  /\ t \in TokenIds
  /\ ~tokens[t].expired
  /\ users[tokens[t].user].active
  /\ requests' = [requests EXCEPT ![r] =
       [pc |-> "rotating", user |-> tokens[t].user, token |-> t]]
  /\ UNCHANGED <<users, tokens, resetTokens>>
PresentTokenOfAnyone(r, t) ==
  /\ requests[r] = NoRequest
  /\ t \in TokenIds
  /\ ~tokens[t].revoked
  /\ ~tokens[t].expired
  /\ requests' = [requests EXCEPT ![r] =
       [pc |-> "rotating", user |-> tokens[t].user, token |-> t]]
  /\ UNCHANGED <<users, tokens, resetTokens>>

\* refresh: the token and its user are read and pass every test.
PresentToken(r, t) ==
  /\ requests[r] = NoRequest
  /\ t \in TokenIds
  /\ ~tokens[t].revoked
  /\ ~tokens[t].expired
  /\ users[tokens[t].user].active
  /\ requests' = [requests EXCEPT ![r] =
       [pc |-> "rotating", user |-> tokens[t].user, token |-> t]]
  /\ UNCHANGED <<users, tokens, resetTokens>>

\* The presented token is revoked, whatever has become of it since.
RevokePresented(r) ==
  /\ requests[r].pc = "rotating"
  /\ tokens' = [tokens EXCEPT ![requests[r].token].revoked = TRUE]
  /\ requests' = [requests EXCEPT ![r].pc = "rotated"]
  /\ UNCHANGED <<users, resetTokens>>

\* The next token of the family.
IssueNext(r, t) ==
  /\ requests[r].pc = "rotated"
  /\ tokens[t] = NoToken
  /\ tokens' = [tokens EXCEPT ![t] =
       [user |-> requests[r].user, family |-> FamilyOf(requests[r].token),
        revoked |-> FALSE, expired |-> FALSE]]
  /\ requests' = [requests EXCEPT ![r] = NoRequest]
  /\ UNCHANGED <<users, resetTokens>>

\* updateMany where { family }.
RevokeFamily(f) ==
  tokens' = [t \in TokenId |->
    IF t \in TokenIds /\ FamilyOf(t) = f
    THEN [tokens[t] EXCEPT !.revoked = TRUE]
    ELSE tokens[t]]

\* refresh with a token that was revoked before.  Neither the flag nor the
\* family of a token ever changes back, so reading and updating is one step.
DetectReuse(t) ==
  /\ t \in TokenIds
  /\ tokens[t].revoked
  /\ RevokeFamily(FamilyOf(t))
  /\ UNCHANGED <<users, resetTokens, requests>>

\* logout, with any token of the family.
Logout(t) ==
  /\ t \in TokenIds
  /\ RevokeFamily(FamilyOf(t))
  /\ UNCHANGED <<users, resetTokens, requests>>

-----------------------------------------------------------------------------
(* forgotPassword and resetPassword *)

\* Fault: the older reset tokens are left alone.
ForgetPasswordKeepOlder(r, u) ==
  /\ requests[r] = NoRequest
  /\ users[u].active
  /\ requests' = [requests EXCEPT ![r] = [pc |-> "forgot", user |-> u]]
  /\ UNCHANGED <<users, tokens, resetTokens>>

\* The user is read and all of its reset tokens are deleted.
ForgetPassword(r, u) ==
  /\ requests[r] = NoRequest
  /\ users[u].active
  /\ resetTokens' = [k \in ResetId |->
       IF resetTokens[k] # NoResetToken /\ resetTokens[k].user = u
       THEN [resetTokens[k] EXCEPT !.state = "deleted"]
       ELSE resetTokens[k]]
  /\ requests' = [requests EXCEPT ![r] = [pc |-> "forgot", user |-> u]]
  /\ UNCHANGED <<users, tokens>>

\* The new one is stored; handing it to the user is left to a mail service.
IssueResetToken(r, k) ==
  /\ requests[r].pc = "forgot"
  /\ resetTokens[k] = NoResetToken
  /\ resetTokens' = [resetTokens EXCEPT ![k] =
       [user |-> requests[r].user, state |-> "unused", expired |-> FALSE]]
  /\ requests' = [requests EXCEPT ![r] = NoRequest]
  /\ UNCHANGED <<users, tokens>>

\* resetPassword, up to the hash of the new password.
PresentResetToken(r, k, p) ==
  /\ requests[r] = NoRequest
  /\ k \in ResetIds
  /\ resetTokens[k].state = "unused"
  /\ ~resetTokens[k].expired
  /\ users[resetTokens[k].user].active
  /\ requests' = [requests EXCEPT ![r] =
       [pc |-> "resetting", user |-> resetTokens[k].user, token |-> k,
        password |-> p]]
  /\ UNCHANGED <<users, tokens, resetTokens>>

\* The transaction.  It goes by the id read before the hash: a token used since
\* is used again.  The update of a deleted row fails and takes the whole
\* transaction with it (see RequestFails).
CommitReset(r) ==
  LET u == requests[r].user
      k == requests[r].token IN
  /\ requests[r].pc = "resetting"
  /\ resetTokens[k].state # "deleted"
  /\ resetTokens' = [resetTokens EXCEPT ![k].state = "used"]
  /\ users' = [users EXCEPT ![u] =
       [@ EXCEPT !.password = requests[r].password,
                 !.attempts = 0, !.lock = "none"]]
  /\ tokens' = [t \in TokenId |->
       IF t \in TokenIds /\ tokens[t].user = u
       THEN [tokens[t] EXCEPT !.revoked = TRUE]
       ELSE tokens[t]]
  /\ requests' = [requests EXCEPT ![r] = NoRequest]

-----------------------------------------------------------------------------
(* Administration, time and failures. *)

SoftDeleteUser(u) ==
  /\ users' = [users EXCEPT ![u].active = FALSE]
  /\ UNCHANGED <<tokens, resetTokens, requests>>

LockEnds(u) ==
  /\ users[u].lock = "locked"
  /\ users' = [users EXCEPT ![u].lock = "over"]
  /\ UNCHANGED <<tokens, resetTokens, requests>>

TokenExpires(t) ==
  /\ t \in TokenIds
  /\ ~tokens[t].expired
  /\ tokens' = [tokens EXCEPT ![t].expired = TRUE]
  /\ UNCHANGED <<users, resetTokens, requests>>

ResetTokenExpires(k) ==
  /\ k \in ResetIds
  /\ ~resetTokens[k].expired
  /\ resetTokens' = [resetTokens EXCEPT ![k].expired = TRUE]
  /\ UNCHANGED <<users, tokens, requests>>

\* The database refuses the next write, or the process dies.
RequestFails(r) ==
  /\ requests[r] # NoRequest
  /\ requests' = [requests EXCEPT ![r] = NoRequest]
  /\ UNCHANGED <<users, tokens, resetTokens>>

-----------------------------------------------------------------------------
Next ==
  \/ \E r \in Request, u \in User, p \in Password : ReadUser(r, u, p)
  \/ \E r \in Request : FailLogin(r) \/ PassLogin(r)
  \/ \E r \in Request, t \in TokenId :
       OpenSession(r, t) \/ PresentToken(r, t) \/ IssueNext(r, t)
  \/ \E r \in Request : RevokePresented(r)
  \/ \E t \in TokenId : DetectReuse(t) \/ Logout(t)
  \/ \E r \in Request, u \in User : ForgetPassword(r, u)
  \/ \E r \in Request, k \in ResetId : IssueResetToken(r, k)
  \/ \E r \in Request, k \in ResetId, p \in Password :
       PresentResetToken(r, k, p)
  \/ \E r \in Request : CommitReset(r)
  \/ \E u \in User : SoftDeleteUser(u) \/ LockEnds(u)
  \/ \E t \in TokenId : TokenExpires(t)
  \/ \E k \in ResetId : ResetTokenExpires(k)
  \/ \E r \in Request : RequestFails(r)

Spec == Init /\ [][Next]_vars

\* A request that was read goes on, or fails.
RequestStep(r) ==
  \/ FailLogin(r) \/ PassLogin(r) \/ RevokePresented(r) \/ CommitReset(r)
  \/ \E t \in TokenId : OpenSession(r, t) \/ IssueNext(r, t)
  \/ \E k \in ResetId : IssueResetToken(r, k)
  \/ RequestFails(r)

FairSpec == Spec /\ \A r \in Request : WF_vars(RequestStep(r))

-----------------------------------------------------------------------------
(* Properties. *)

\* Every row and record has its shape.  The counter of failed logins never
\* passes MaxFailed, stale writes included.
TypeOK ==
  /\ users \in [User -> UserRow]
  /\ tokens \in [TokenId -> Token \cup {NoToken}]
  /\ resetTokens \in [ResetId -> ResetToken \cup {NoResetToken}]
  /\ requests \in [Request ->
       Login \cup Refresh \cup Forgot \cup Reset \cup {NoRequest}]

\* The two lockout columns agree whichever of several overlapping logins and
\* resets writes last: an account has a lock exactly when its counter is full.
LockMatchesCounter ==
  \A u \in User : (users[u].lock # "none") <=> (users[u].attempts = MaxFailed)

Live(t) == ~tokens[t].revoked /\ ~tokens[t].expired

Refreshing(r) == requests[r].pc \in {"rotating", "rotated"}

Known(f) == \E t \in TokenIds : FamilyOf(t) = f

Ongoing(f) ==
  \/ \E t \in TokenIds : FamilyOf(t) = f /\ Live(t)
  \/ \E r \in Request : Refreshing(r) /\ FamilyOf(requests[r].token) = f

\* A session is what a family's tokens and the refreshes under way make of it.
Status ==
  [f \in TokenId |-> IF ~Known(f) THEN "none"
                     ELSE IF Ongoing(f) THEN "open" ELSE "closed"]

Lifecycle == INSTANCE SessionLifecycle WITH Family <- TokenId, status <- Status

\* A session that logout, reuse detection, a reset or expiry has closed stays
\* closed, once the refreshes that had read a token of it before are over.
ImplementsLifecycle == Lifecycle!Spec

UnusedResetTokens(u) ==
  {k \in ResetIds : resetTokens[k].user = u /\ resetTokens[k].state = "unused"}

\* "Invalidate any existing unused reset tokens": requests that overlap may
\* leave one token each, never more.
ResetTokensBounded ==
  \A u \in User : Cardinality(UnusedResetTokens(u)) <= Cardinality(Request)

InFlight(u) == \E r \in Request : /\ requests[r] # NoRequest
                                  /\ requests[r].user = u

\* Once the requests of a disabled user that were under way are over, none of
\* its tokens, passwords or reset tokens lets it in again.
DisabledStaysOut ==
  [][\A u \in User : ~users[u].active /\ ~InFlight(u) => ~InFlight(u)']_vars

Terminated(f) ==
  /\ f \in TokenIds
  /\ \A t \in TokenIds : FamilyOf(t) = f => tokens[t].revoked
  /\ \A r \in Request :
       requests[r].pc = "rotated" => FamilyOf(requests[r].token) # f

\* "All active sessions in this family have been terminated"
\* (auth.service.ts:225): from the moment all tokens of a family are revoked,
\* and no refresh is between its two writes, none of them is live again.
TerminationIsFinal ==
  \A f \in TokenId :
    [](Terminated(f) => [](\A t \in TokenIds : FamilyOf(t) = f => ~Live(t)))

\* "Reset password using a valid one-time recovery token"
\* (auth.controller.ts:207): one that was used changes no password again.
OneTimeReset ==
  [][\A r \in Request :
       CommitReset(r) /\ resetTokens[requests[r].token].state = "used"
         => \A u \in User : users'[u].password = users[u].password]_vars

ResetsApart ==
  \A r, q \in Request :
    /\ requests[r].pc = "resetting"
    /\ requests[q].pc = "resetting"
    /\ requests[r].token = requests[q].token
    => r = q

\* The behaviours in which no two resets with one token overlap.
ResetsApartSpec == Init /\ ResetsApart /\ [][Next /\ ResetsApart']_vars
====

---- MODULE SessionsProofs ----
(***************************************************************************)
(* Proofs about Sessions for any number of users, tokens and overlapping   *)
(* requests.  Everything rests on IInv: the types, what a request may      *)
(* carry, and the agreement of the two lockout columns.                    *)
(***************************************************************************)
EXTENDS Sessions, FiniteSetTheorems, TLAPS

\* A request refers to rows that exist and belong to its user, and families
\* are named after a token that exists.
ReferenceInv ==
  /\ \A t \in TokenId : tokens[t] # NoToken => tokens[FamilyOf(t)] # NoToken
  /\ \A r \in Request :
       /\ Refreshing(r) =>
            /\ tokens[requests[r].token] # NoToken
            /\ tokens[requests[r].token].user = requests[r].user
       /\ requests[r].pc = "resetting" =>
            /\ resetTokens[requests[r].token] # NoResetToken
            /\ resetTokens[requests[r].token].user = requests[r].user

\* What a login read was unlocked and consistent when it was read.
LoginInv ==
  \A r \in Request : requests[r].pc = "compare" =>
    /\ requests[r].lock # "locked"
    /\ (requests[r].lock # "none") <=> (requests[r].attempts = MaxFailed)

IInv == TypeOK /\ ReferenceInv /\ LoginInv /\ LockMatchesCounter

-----------------------------------------------------------------------------
\* The initial state satisfies the inductive invariant.
LEMMA InitIInv == Init => IInv
<1> SUFFICES ASSUME Init PROVE IInv
  OBVIOUS
<1>1. TypeOK
  <2>1. \A p \in Password : [password |-> p, active |-> TRUE,
                             attempts |-> 0, lock |-> "none"] \in UserRow
    BY MaxFailedAssumption DEF UserRow, Lock
  <2>2. users \in [User -> UserRow]
    BY <2>1 DEF Init
  <2> QED
    BY <2>2 DEF Init, TypeOK
<1>2. ReferenceInv
  BY NoUserAssumption DEF Init, ReferenceInv, NoRequest, Refreshing
<1>3. LoginInv
  BY DEF Init, LoginInv, NoRequest
<1>4. LockMatchesCounter
  <2> SUFFICES ASSUME NEW u \in User
               PROVE  users[u].lock = "none" /\ users[u].attempts # MaxFailed
    BY DEF LockMatchesCounter
  <2> QED
    BY MaxFailedAssumption DEF Init
<1> QED
  BY <1>1, <1>2, <1>3, <1>4 DEF IInv

\* The records of the four kinds of requests are told apart by their pc.
LEMMA RequestKinds ==
  ASSUME TypeOK, NEW r \in Request
  PROVE  /\ requests[r].pc \in {"compare", "opening"} => requests[r] \in Login
         /\ Refreshing(r) => requests[r] \in Refresh
         /\ requests[r].pc = "forgot" => requests[r] \in Forgot
         /\ requests[r].pc = "resetting" => requests[r] \in Reset
         /\ requests[r] # NoRequest => requests[r].user \in User
  BY DEF TypeOK, Login, Refresh, Forgot, Reset, NoRequest, Refreshing

\* Revoking and expiring a token keeps its user and family.
LEMMA TokenUpdates ==
  ASSUME NEW row \in Token, NEW new,
         \/ new = row
         \/ new = [row EXCEPT !.revoked = TRUE]
         \/ new = [row EXCEPT !.expired = TRUE]
  PROVE  /\ new \in Token
         /\ new # NoToken
         /\ new.user = row.user
         /\ new.family = row.family
<1>1. /\ new \in Token
      /\ new.user = row.user
      /\ new.family = row.family
  BY DEF Token
<1>2. new.user \in User
  BY <1>1 DEF Token
<1>3. NoToken.user = None
  BY DEF NoToken
<1> QED
  BY <1>1, <1>2, <1>3, NoUserAssumption

\* No update of a reset token changes its user.
LEMMA ResetTokenUpdates ==
  ASSUME NEW row \in ResetToken, NEW new,
         \/ new = row
         \/ \E s \in {"used", "deleted"} : new = [row EXCEPT !.state = s]
         \/ new = [row EXCEPT !.expired = TRUE]
  PROVE  /\ new \in ResetToken
         /\ new # NoResetToken
         /\ new.user = row.user
<1>1. /\ new \in ResetToken
      /\ new.user = row.user
  BY DEF ResetToken
<1>2. new.user \in User
  BY <1>1 DEF ResetToken
<1>3. NoResetToken.user = None
  BY DEF NoResetToken
<1> QED
  BY <1>1, <1>2, <1>3, NoUserAssumption

\* A count written with the lock it calls for leaves a consistent row.
LEMMA Counted ==
  ASSUME NEW row \in UserRow, NEW a \in 0..MaxFailed, NEW new,
         new = [row EXCEPT !.attempts = a,
                           !.lock = IF a >= MaxFailed THEN "locked" ELSE "none"]
  PROVE  new \in UserRow /\ (new.lock # "none" <=> new.attempts = MaxFailed)
<1> DEFINE l == IF a >= MaxFailed THEN "locked" ELSE "none"
<1>1. l \in Lock /\ (l # "none" <=> a = MaxFailed)
  BY MaxFailedAssumption DEF Lock
<1> HIDE DEF l
<1>2. new \in UserRow /\ new.attempts = a /\ new.lock = l
  <2>1. new = [row EXCEPT !.attempts = a, !.lock = l]
    BY DEF l
  <2> QED
    BY <1>1, <2>1 DEF UserRow
<1> QED
  BY <1>1, <1>2

\* Clearing them leaves an unlocked row.
LEMMA Cleared ==
  ASSUME NEW row \in UserRow, NEW p \in Password, NEW new,
         \/ new = [row EXCEPT !.attempts = 0, !.lock = "none"]
         \/ new = [row EXCEPT !.password = p, !.attempts = 0, !.lock = "none"]
  PROVE  new \in UserRow /\ (new.lock # "none" <=> new.attempts = MaxFailed)
<1> DEFINE zero == 0
           none == "none"
<1>1. zero \in 0..MaxFailed /\ none \in Lock /\ none = "none" /\ zero # MaxFailed
  BY MaxFailedAssumption DEF Lock
<1>2. \/ new = [row EXCEPT !.attempts = zero, !.lock = none]
      \/ new = [row EXCEPT !.password = p, !.attempts = zero, !.lock = none]
  OBVIOUS
<1> HIDE DEF zero, none
<1>3. new \in UserRow /\ new.attempts = zero /\ new.lock = none
  BY <1>1, <1>2 DEF UserRow
<1> QED
  BY <1>1, <1>3

\* A count that continues from an unlocked row stays within the limit.
LEMMA NewAttemptsBounded ==
  ASSUME NEW login, login.attempts \in 0..MaxFailed,
         login.lock = "over" \/ login.attempts # MaxFailed
  PROVE  NewAttempts(login) \in 0..MaxFailed
  BY MaxFailedAssumption DEF NewAttempts

-----------------------------------------------------------------------------
\* Every step preserves the inductive invariant, one step of the proof per
\* action.
LEMMA IInvStep == IInv /\ [Next]_vars => IInv'
<1> SUFFICES ASSUME IInv, [Next]_vars PROVE IInv'
  OBVIOUS
<1> USE DEF IInv, TypeOK, ReferenceInv, LoginInv, LockMatchesCounter, Refreshing,
        NoRequest, NoToken, NoResetToken, UserRow, Lock, FamilyOf, TokenIds,
        ResetIds
<1>1. ASSUME NEW r \in Request, NEW u \in User, NEW p \in Password,
             ReadUser(r, u, p)
      PROVE  IInv'
  BY <1>1 DEF ReadUser, Login
<1>2. ASSUME NEW r \in Request, FailLogin(r)
      PROVE  IInv'
  <2> DEFINE login == requests[r]
             row == [users[login.user] EXCEPT
                       !.attempts = NewAttempts(login),
                       !.lock = IF NewAttempts(login) >= MaxFailed
                                THEN "locked" ELSE "none"]
  <2>1. login \in Login
    BY <1>2, RequestKinds DEF FailLogin
  <2>2. NewAttempts(login) \in 0..MaxFailed
    <3>1. /\ login.attempts \in 0..MaxFailed
          /\ login.lock = "over" \/ login.attempts # MaxFailed
      BY <2>1, <1>2 DEF FailLogin, Login
    <3> QED
      BY <3>1, NewAttemptsBounded
  <2>3. users[login.user] \in UserRow
    BY <2>1 DEF Login
  <2>4. /\ row \in UserRow
        /\ row.lock # "none" <=> row.attempts = MaxFailed
    BY <2>2, <2>3, Counted
  <2> QED
    BY <1>2, <2>1, <2>4 DEF FailLogin, Login
<1>3. ASSUME NEW r \in Request, PassLogin(r)
      PROVE  IInv'
  <2> DEFINE login == requests[r]
             row == [users[login.user] EXCEPT !.attempts = 0, !.lock = "none"]
  <2>1. login \in Login /\ [login EXCEPT !.pc = "opening"] \in Login
    BY <1>3, RequestKinds DEF PassLogin, Login
  <2>2. users[login.user] \in UserRow
    BY <2>1 DEF Login
  <2>3. /\ row \in UserRow
        /\ row.lock # "none" <=> row.attempts = MaxFailed
    BY <2>2, Cleared DEF UserRow
  <2> QED
    BY <1>3, <2>1, <2>3 DEF PassLogin, Login
<1>4. ASSUME NEW r \in Request, NEW t \in TokenId, OpenSession(r, t)
      PROVE  IInv'
  BY <1>4, RequestKinds, NoUserAssumption DEF OpenSession, Login, Token
<1>5. ASSUME NEW r \in Request, NEW t \in TokenId, PresentToken(r, t)
      PROVE  IInv'
  BY <1>5 DEF PresentToken, Refresh, Token
<1>6. ASSUME NEW r \in Request, NEW t \in TokenId, IssueNext(r, t)
      PROVE  IInv'
  BY <1>6, RequestKinds, NoUserAssumption DEF IssueNext, Refresh, Token
<1>7. ASSUME NEW r \in Request, RevokePresented(r)
      PROVE  IInv'
  <2> DEFINE refresh == requests[r]
  <2>1. /\ refresh \in Refresh
        /\ [refresh EXCEPT !.pc = "rotated"] \in Refresh
    BY <1>7, RequestKinds DEF RevokePresented, Refresh
  <2>2. tokens[refresh.token] \in Token
    BY <1>7, <2>1 DEF RevokePresented, Refresh
  <2> QED
    BY <1>7, <2>1, <2>2, TokenUpdates DEF RevokePresented, Refresh
<1>8. ASSUME NEW t \in TokenId, DetectReuse(t) \/ Logout(t)
      PROVE  IInv'
  <2>1. \A s \in TokenId : tokens[s] # NoToken => tokens[s] \in Token
    OBVIOUS
  <2>2. \A s \in TokenId :
          /\ tokens'[s] \in Token \cup {NoToken}
          /\ tokens'[s] = NoToken <=> tokens[s] = NoToken
          /\ tokens[s] # NoToken => /\ tokens'[s].user = tokens[s].user
                                   /\ tokens'[s].family = tokens[s].family
    BY <1>8, <2>1, TokenUpdates DEF DetectReuse, Logout, RevokeFamily
  <2>3. tokens' = [s \in TokenId |-> tokens'[s]]
    BY <1>8 DEF DetectReuse, Logout, RevokeFamily
  <2>4. UNCHANGED <<users, resetTokens, requests>>
    BY <1>8 DEF DetectReuse, Logout
  <2>5. TypeOK' /\ LoginInv' /\ LockMatchesCounter'
    BY <2>2, <2>3, <2>4
  <2>6. \A s \in Request : Refreshing(s) => requests[s].token \in TokenId
    BY RequestKinds DEF Refresh
  <2>7. \A s \in TokenId : tokens[s] # NoToken => FamilyOf(s) \in TokenId
    BY <2>1 DEF Token
  <2>8. ReferenceInv'
    BY <2>2, <2>4, <2>6, <2>7
  <2> QED
    BY <2>5, <2>8
<1>9. ASSUME NEW r \in Request, NEW u \in User, ForgetPassword(r, u)
      PROVE  IInv'
  <2>1. \A k \in ResetId : resetTokens[k] # NoResetToken =>
          resetTokens[k] \in ResetToken
    OBVIOUS
  <2>2. \A k \in ResetId :
          /\ resetTokens'[k] \in ResetToken \cup {NoResetToken}
          /\ resetTokens'[k] = NoResetToken <=> resetTokens[k] = NoResetToken
          /\ resetTokens[k] # NoResetToken =>
               resetTokens'[k].user = resetTokens[k].user
    BY <1>9, <2>1, ResetTokenUpdates DEF ForgetPassword
  <2>3. resetTokens' = [k \in ResetId |-> resetTokens'[k]]
    BY <1>9 DEF ForgetPassword
  <2>4. TypeOK' /\ LoginInv' /\ LockMatchesCounter'
    BY <1>9, <2>2, <2>3 DEF ForgetPassword, Forgot
  <2>5. \A s \in Request : requests[s].pc = "resetting" =>
          requests[s].token \in ResetId
    BY RequestKinds DEF Reset
  <2>6. ReferenceInv'
    BY <1>9, <2>2, <2>5 DEF ForgetPassword
  <2> QED
    BY <2>4, <2>6
<1>10. ASSUME NEW r \in Request, NEW k \in ResetId, IssueResetToken(r, k)
       PROVE  IInv'
  BY <1>10, RequestKinds, NoUserAssumption DEF IssueResetToken, Forgot, ResetToken
<1>11. ASSUME NEW r \in Request, NEW k \in ResetId, NEW p \in Password,
              PresentResetToken(r, k, p)
       PROVE  IInv'
  BY <1>11 DEF PresentResetToken, Reset, ResetToken
<1>12. ASSUME NEW r \in Request, CommitReset(r)
       PROVE  IInv'
  <2> DEFINE reset == requests[r]
             row == [users[reset.user] EXCEPT !.password = reset.password,
                                              !.attempts = 0, !.lock = "none"]
  <2>1. reset \in Reset
    BY <1>12, RequestKinds DEF CommitReset
  <2>2. resetTokens[reset.token] \in ResetToken
    BY <1>12, <2>1 DEF CommitReset, Reset
  <2>3. users[reset.user] \in UserRow
    BY <2>1 DEF Reset
  <2>4. /\ row \in UserRow
        /\ row.lock # "none" <=> row.attempts = MaxFailed
    BY <2>1, <2>3, Cleared DEF Reset
  <2>5. \A s \in TokenId : tokens[s] # NoToken => tokens[s] \in Token
    OBVIOUS
  <2>6. TypeOK' /\ LockMatchesCounter'
    BY <1>12, <2>1, <2>2, <2>4, <2>5, TokenUpdates, ResetTokenUpdates
    DEF CommitReset, Reset
  <2>7. LoginInv'
    BY <1>12 DEF CommitReset
  <2>8. \A s \in TokenId :
          /\ tokens'[s] = NoToken <=> tokens[s] = NoToken
          /\ tokens[s] # NoToken => /\ tokens'[s].user = tokens[s].user
                                   /\ tokens'[s].family = tokens[s].family
    BY <1>12, <2>5, TokenUpdates DEF CommitReset
  <2>9. \A k \in ResetId :
          /\ resetTokens'[k] = NoResetToken <=> resetTokens[k] = NoResetToken
          /\ resetTokens[k] # NoResetToken =>
               resetTokens'[k].user = resetTokens[k].user
    BY <1>12, <2>1, <2>2, ResetTokenUpdates DEF CommitReset, Reset
  <2>10. \A s \in Request :
           /\ Refreshing(s) => requests[s].token \in TokenId
           /\ requests[s].pc = "resetting" => requests[s].token \in ResetId
    BY RequestKinds DEF Refresh, Reset
  <2>11. \A s \in TokenId : tokens[s] # NoToken => FamilyOf(s) \in TokenId
    BY <2>5 DEF Token
  <2>12. \A s \in Request :
           requests'[s] = requests[s] \/ requests'[s].pc = "none"
    BY <1>12 DEF CommitReset
  <2>13. ReferenceInv'
    <3>1. \A t \in TokenId : tokens'[t] # NoToken =>
            tokens'[tokens'[t].family] # NoToken
      BY <2>8, <2>11
    <3>2. \A s \in Request :
            /\ Refreshing(s)' =>
                 /\ tokens'[requests'[s].token] # NoToken
                 /\ tokens'[requests'[s].token].user = requests'[s].user
            /\ requests'[s].pc = "resetting" =>
                 /\ resetTokens'[requests'[s].token] # NoResetToken
                 /\ resetTokens'[requests'[s].token].user = requests'[s].user
      BY <2>8, <2>9, <2>10, <2>12
    <3> QED
      BY <3>1, <3>2
  <2> QED
    BY <2>6, <2>7, <2>13
<1>13. ASSUME NEW u \in User, SoftDeleteUser(u) \/ LockEnds(u)
       PROVE  IInv'
  <2>1. /\ users[u] \in UserRow
        /\ [users[u] EXCEPT !.active = FALSE] \in UserRow
        /\ [users[u] EXCEPT !.lock = "over"] \in UserRow
    OBVIOUS
  <2>2. CASE SoftDeleteUser(u)
    BY <2>1, <2>2 DEF SoftDeleteUser
  <2>3. CASE LockEnds(u)
    BY <2>1, <2>3 DEF LockEnds
  <2> QED
    BY <1>13, <2>2, <2>3
<1>14. ASSUME NEW t \in TokenId, TokenExpires(t)
       PROVE  IInv'
  <2>1. tokens[t] \in Token
    BY <1>14 DEF TokenExpires
  <2> QED
    BY <1>14, <2>1, TokenUpdates DEF TokenExpires
<1>15. ASSUME NEW k \in ResetId, ResetTokenExpires(k)
       PROVE  IInv'
  BY <1>15, ResetTokenUpdates DEF ResetTokenExpires
<1>16. ASSUME NEW r \in Request, RequestFails(r)
       PROVE  IInv'
  BY <1>16 DEF RequestFails
<1>17. CASE UNCHANGED vars
  BY <1>17 DEF vars
<1> QED
  BY <1>1, <1>2, <1>3, <1>4, <1>5, <1>6, <1>7, <1>8, <1>9, <1>10, <1>11,
     <1>12, <1>13, <1>14, <1>15, <1>16, <1>17 DEF Next

\* The inductive invariant holds in every reachable state.
LEMMA IInvHolds == Spec => []IInv
  BY InitIInv, IInvStep, PTL DEF Spec

\* Rows and requests keep their shape, and no interleaving of failed logins
\* takes the counter past its limit.
THEOREM TypeCorrect == Spec => []TypeOK
<1>1. IInv => TypeOK
  BY DEF IInv
<1> QED
  BY <1>1, IInvHolds, PTL

\* The lockout columns agree under every interleaving of stale writes.
THEOREM LockMatchesCounterHolds == Spec => []LockMatchesCounter
<1>1. IInv => LockMatchesCounter
  BY DEF IInv
<1> QED
  BY <1>1, IInvHolds, PTL

-----------------------------------------------------------------------------
\* What a step does to a request: nothing, end it, advance it for its user,
\* or take it up for an active user and, in a reset, with an unspent token.
LEMMA RequestMoves ==
  ASSUME IInv, [Next]_vars, NEW q \in Request
  PROVE  \/ requests'[q] \in {requests[q], NoRequest}
         \/ /\ requests[q] # NoRequest
            /\ requests'[q].pc \in {"opening", "rotated"}
            /\ requests'[q].user = requests[q].user
         \/ /\ requests[q] = NoRequest
            /\ users[requests'[q].user].active
            /\ requests'[q].pc = "resetting" =>
                 /\ resetTokens[requests'[q].token].state = "unused"
                 /\ ~resetTokens[requests'[q].token].expired
<1> USE DEF NoRequest
<1> DEFINE Moves ==
         \/ requests'[q] \in {requests[q], NoRequest}
         \/ /\ requests[q] # NoRequest
            /\ requests'[q].pc \in {"opening", "rotated"}
            /\ requests'[q].user = requests[q].user
         \/ /\ requests[q] = NoRequest
            /\ users[requests'[q].user].active
            /\ requests'[q].pc = "resetting" =>
                 /\ resetTokens[requests'[q].token].state = "unused"
                 /\ ~resetTokens[requests'[q].token].expired
<1> SUFFICES Moves
  OBVIOUS
<1>1. TypeOK
  BY DEF IInv
<1>2. ASSUME NEW r \in Request, NEW u \in User, NEW p \in Password,
             ReadUser(r, u, p)
      PROVE  Moves
  BY <1>1, <1>2 DEF ReadUser, TypeOK
<1>3. ASSUME NEW r \in Request, FailLogin(r)
      PROVE  Moves
  BY <1>1, <1>3 DEF FailLogin, TypeOK
<1>4. ASSUME NEW r \in Request, PassLogin(r)
      PROVE  Moves
  <2>1. requests[r] \in Login
    BY <1>1, <1>4, RequestKinds DEF PassLogin, Refreshing
  <2>2. [requests[r] EXCEPT !.pc = "opening"].user = requests[r].user
    BY <2>1 DEF Login
  <2> QED
    BY <1>1, <1>4, <2>1, <2>2 DEF PassLogin, TypeOK
<1>5. ASSUME NEW r \in Request, NEW t \in TokenId, OpenSession(r, t)
      PROVE  Moves
  BY <1>1, <1>5 DEF OpenSession, TypeOK
<1>6. ASSUME NEW r \in Request, NEW t \in TokenId, PresentToken(r, t)
      PROVE  Moves
  BY <1>1, <1>6 DEF PresentToken, TypeOK
<1>7. ASSUME NEW r \in Request, NEW t \in TokenId, IssueNext(r, t)
      PROVE  Moves
  BY <1>1, <1>7 DEF IssueNext, TypeOK
<1>8. ASSUME NEW r \in Request, RevokePresented(r)
      PROVE  Moves
  <2>1. requests[r] \in Refresh
    BY <1>1, <1>8, RequestKinds DEF RevokePresented, Refreshing
  <2>2. [requests[r] EXCEPT !.pc = "rotated"].user = requests[r].user
    BY <2>1 DEF Refresh
  <2> QED
    BY <1>1, <1>8, <2>1, <2>2 DEF RevokePresented, TypeOK
<1>9. ASSUME NEW r \in Request, NEW u \in User, ForgetPassword(r, u)
      PROVE  Moves
  BY <1>1, <1>9 DEF ForgetPassword, TypeOK
<1>10. ASSUME NEW r \in Request, NEW k \in ResetId, IssueResetToken(r, k)
      PROVE  Moves
  BY <1>1, <1>10 DEF IssueResetToken, TypeOK
<1>11. ASSUME NEW r \in Request, NEW k \in ResetId, NEW p \in Password,
             PresentResetToken(r, k, p)
      PROVE  Moves
  BY <1>1, <1>11 DEF PresentResetToken, TypeOK
<1>12. ASSUME NEW r \in Request, CommitReset(r)
      PROVE  Moves
  BY <1>1, <1>12 DEF CommitReset, TypeOK
<1>13. ASSUME NEW r \in Request, RequestFails(r)
      PROVE  Moves
  BY <1>1, <1>13 DEF RequestFails, TypeOK
<1>14. ASSUME requests' = requests
      PROVE  Moves
  BY <1>14
<1> HIDE DEF Moves
<1> QED
  BY <1>2, <1>3, <1>4, <1>5, <1>6, <1>7, <1>8, <1>9, <1>10, <1>11, <1>12,
     <1>13, <1>14
  DEF Next, vars, DetectReuse, Logout, SoftDeleteUser, LockEnds, TokenExpires,
      ResetTokenExpires

\* What OneTimeReset needs: a token under way in a reset has not been used.
HeldUnused ==
  \A r \in Request :
    requests[r].pc = "resetting" => resetTokens[requests[r].token].state # "used"

\* A token becomes used only by the reset of a request that holds it.
LEMMA UsedByCommit ==
  ASSUME IInv, [Next]_vars, NEW k \in ResetId, resetTokens'[k].state = "used",
         resetTokens[k].state # "used"
  PROVE  \E q \in Request : CommitReset(q) /\ requests[q].token = k
<1>1. TypeOK
  BY DEF IInv
<1>2. ASSUME NEW r \in Request, NEW u \in User, ForgetPassword(r, u)
      PROVE  FALSE
  <2>1. resetTokens[k] # NoResetToken =>
          [resetTokens[k] EXCEPT !.state = "deleted"].state = "deleted"
    BY <1>1 DEF TypeOK, ResetToken
  <2> QED
    BY <1>2, <2>1 DEF ForgetPassword
<1>3. ASSUME NEW r \in Request, NEW i \in ResetId, IssueResetToken(r, i)
      PROVE  FALSE
  BY <1>1, <1>3 DEF IssueResetToken, TypeOK
<1>4. ASSUME NEW i \in ResetId, ResetTokenExpires(i)
      PROVE  FALSE
  <2>1. resetTokens[i] \in ResetToken
    BY <1>1, <1>4 DEF ResetTokenExpires, ResetIds, TypeOK
  <2>2. [resetTokens[i] EXCEPT !.expired = TRUE].state = resetTokens[i].state
    BY <2>1 DEF ResetToken
  <2> QED
    BY <1>1, <1>4, <2>2 DEF ResetTokenExpires, TypeOK
<1>5. ASSUME NEW q \in Request, CommitReset(q)
      PROVE  requests[q].token = k
  <2>1. requests[q].token \in ResetId
    BY <1>1, <1>5, RequestKinds DEF CommitReset, Reset
  <2> QED
    BY <1>1, <1>5, <2>1 DEF CommitReset, TypeOK
<1>6. CASE UNCHANGED resetTokens
  BY <1>6
<1> QED
  BY <1>2, <1>3, <1>4, <1>5, <1>6
  DEF Next, vars, ReadUser, FailLogin, PassLogin, OpenSession, PresentToken,
      IssueNext, RevokePresented, DetectReuse, Logout, PresentResetToken,
      SoftDeleteUser, LockEnds, TokenExpires, RequestFails

\* A request that takes a token up finds it unused, and while it holds it no
\* other may use it; when it uses it itself, it is over.
LEMMA HeldUnusedStep ==
  ASSUME IInv, ResetsApart, HeldUnused, [Next /\ ResetsApart']_vars
  PROVE  HeldUnused'
<1> SUFFICES ASSUME NEW r \in Request, requests'[r].pc = "resetting",
                    resetTokens'[requests'[r].token].state = "used"
             PROVE  FALSE
  BY DEF HeldUnused
<1> DEFINE k == requests'[r].token
<1>1. [Next]_vars
  OBVIOUS
<1>2. resetTokens[k].state # "used"
  BY <1>1, RequestMoves DEF HeldUnused, NoRequest
<1>3. k \in ResetId
  <2>1. TypeOK'
    BY <1>1, IInvStep DEF IInv
  <2> QED
    BY <2>1 DEF TypeOK, Login, Refresh, Forgot, Reset, NoRequest
<1> HIDE DEF k
<1>4. PICK q \in Request : CommitReset(q) /\ requests[q].token = k
  BY <1>1, <1>2, <1>3, UsedByCommit DEF k
<1>5. requests' = [requests EXCEPT ![q] = NoRequest] /\ requests[q].pc = "resetting"
  BY <1>4 DEF CommitReset
<1>6. requests'[q] = NoRequest /\ (r # q => requests'[r] = requests[r])
  BY <1>5 DEF IInv, TypeOK
<1>7. r # q
  BY <1>6 DEF NoRequest
<1> QED
  BY <1>4, <1>5, <1>6, <1>7 DEF ResetsApart, k

\* Overlap is the only way in which a reset token sets two passwords: where no
\* two resets with one token overlap, each is one-time as documented.
THEOREM ResetsApartAreOneTime == ResetsApartSpec => OneTimeReset
<1>1. Init => HeldUnused
  BY DEF Init, HeldUnused, NoRequest
<1>2. ResetsApartSpec => Spec
  <2>1. [Next /\ ResetsApart']_vars => [Next]_vars
    OBVIOUS
  <2> QED
    BY <2>1, PTL DEF ResetsApartSpec, Spec
<1>3. ResetsApart /\ [Next /\ ResetsApart']_vars => ResetsApart'
  BY DEF vars, ResetsApart
<1>4. IInv /\ ResetsApart /\ HeldUnused /\ [Next /\ ResetsApart']_vars => HeldUnused'
  BY HeldUnusedStep
<1>5. HeldUnused =>
        \A r \in Request :
          CommitReset(r) /\ resetTokens[requests[r].token].state = "used"
            => \A u \in User : users'[u].password = users[u].password
  BY DEF HeldUnused, CommitReset
<1> QED
  BY <1>1, <1>2, <1>3, <1>4, <1>5, IInvHolds, PTL DEF ResetsApartSpec, OneTimeReset

-----------------------------------------------------------------------------
\* A disabled user without a request under way gets none again.
THEOREM DisabledStaysOutHolds == Spec => DisabledStaysOut
<1>1. IInv /\ [Next]_vars =>
        \A u \in User : ~users[u].active /\ ~InFlight(u) => ~InFlight(u)'
  BY RequestMoves DEF InFlight, NoRequest
<1> QED
  BY <1>1, IInvHolds, PTL DEF Spec, DisabledStaysOut

-----------------------------------------------------------------------------
(* Sessions implements SessionLifecycle. *)

\* A step that makes no family known and reopens none closes sessions or
\* leaves them all alone.
LEMMA ClosingStep ==
  ASSUME \A f \in TokenId : Known(f)' <=> Known(f),
         \A f \in TokenId : Known(f) /\ Ongoing(f)' => Ongoing(f)
  PROVE  [Lifecycle!Next]_Status
<1> DEFINE F == {f \in TokenId : Status[f] = "open" /\ Status'[f] = "closed"}
<1>1. \A f \in TokenId : Status'[f] = IF f \in F THEN "closed" ELSE Status[f]
  BY DEF Status
<1>2. Status' = [f \in TokenId |-> Status'[f]]
  BY DEF Status
<1>3. Status' = [f \in TokenId |-> IF f \in F THEN "closed" ELSE Status[f]]
  BY <1>1, <1>2
<1>4. F \in SUBSET TokenId /\ \A f \in F : Status[f] = "open"
  OBVIOUS
<1> HIDE DEF F
<1> QED
  BY <1>3, <1>4 DEF Lifecycle!Next, Lifecycle!Close

\* Actions that leave tokens and refreshes alone leave every session alone.
LEMMA UnrelatedStep ==
  ASSUME TypeOK, TypeOK', UNCHANGED tokens,
         \A r \in Request : Refreshing(r)' => requests'[r] = requests[r]
  PROVE  [Lifecycle!Next]_Status
<1>1. \A f \in TokenId : Known(f)' <=> Known(f)
  BY DEF Known, TokenIds, FamilyOf
<1>2. \A f \in TokenId : Known(f) /\ Ongoing(f)' => Ongoing(f)
  BY DEF Ongoing, TokenIds, FamilyOf, Live, Refreshing
<1> QED
  BY <1>1, <1>2, ClosingStep

\* The refreshes under way and the tokens they hold.
LEMMA RefreshHoldsToken ==
  ASSUME IInv, NEW r \in Request, Refreshing(r)
  PROVE  /\ requests[r] \in Refresh
         /\ requests[r].token \in TokenId
         /\ tokens[requests[r].token] # NoToken
  BY RequestKinds DEF IInv, ReferenceInv, Refresh

\* Rows of the token table are tokens, and their families exist.
LEMMA TokenRow ==
  ASSUME IInv, NEW t \in TokenId, tokens[t] # NoToken
  PROVE  /\ tokens[t] \in Token
         /\ FamilyOf(t) \in TokenId
         /\ tokens[FamilyOf(t)] # NoToken
  BY DEF IInv, TypeOK, ReferenceInv, Token, FamilyOf

\* Actions that only revoke or expire tokens.
LEMMA RevokingStep ==
  ASSUME IInv, IInv',
         \A t \in TokenId :
           \/ tokens'[t] = tokens[t]
           \/ /\ tokens[t] # NoToken
              /\ \/ tokens'[t] = [tokens[t] EXCEPT !.revoked = TRUE]
                 \/ tokens'[t] = [tokens[t] EXCEPT !.expired = TRUE],
         \A r \in Request : Refreshing(r)' =>
           Refreshing(r) /\ requests'[r].token = requests[r].token
  PROVE  [Lifecycle!Next]_Status
<1>1. \A t \in TokenId :
        /\ tokens'[t] = NoToken <=> tokens[t] = NoToken
        /\ tokens[t] # NoToken =>
             /\ tokens'[t].family = tokens[t].family
             /\ tokens[t].revoked => tokens'[t].revoked
             /\ tokens[t].expired => tokens'[t].expired
  <2> TAKE t \in TokenId
  <2>1. CASE tokens'[t] = tokens[t]
    BY <2>1
  <2>2. CASE tokens[t] # NoToken /\ tokens'[t] # tokens[t]
    <3>1. tokens[t] \in Token
      BY <2>2, TokenRow
    <3>2. tokens'[t] # NoToken /\ tokens'[t].family = tokens[t].family
      BY <2>2, <3>1, TokenUpdates
    <3>3. /\ tokens[t].revoked => tokens'[t].revoked
          /\ tokens[t].expired => tokens'[t].expired
      BY <2>2, <3>1 DEF Token
    <3> QED
      BY <2>2, <3>2, <3>3
  <2> QED
    BY <2>1, <2>2
<1>2. \A f \in TokenId : Known(f)' <=> Known(f)
  BY <1>1 DEF Known, TokenIds, FamilyOf
<1>3. \A r \in Request : Refreshing(r) =>
        requests[r].token \in TokenId /\ tokens[requests[r].token] # NoToken
  BY RefreshHoldsToken DEF TokenIds
<1>4. \A f \in TokenId : Known(f) /\ Ongoing(f)' => Ongoing(f)
  BY <1>1, <1>3 DEF Ongoing, TokenIds, FamilyOf, Live
<1> QED
  BY <1>2, <1>4, ClosingStep

\* Every step opens a session, closes sessions or leaves them alone.
LEMMA LifecycleStep ==
  IInv /\ IInv' /\ [Next]_vars => [Lifecycle!Next]_Status
<1> SUFFICES ASSUME IInv, IInv', [Next]_vars PROVE [Lifecycle!Next]_Status
  OBVIOUS
<1>1. TypeOK /\ TypeOK'
  BY DEF IInv
<1>2. ASSUME NEW r \in Request, NEW u \in User,
             \/ \E p \in Password : ReadUser(r, u, p)
             \/ ForgetPassword(r, u)
      PROVE  [Lifecycle!Next]_Status
  BY <1>1, <1>2, UnrelatedStep
  DEF ReadUser, ForgetPassword, Refreshing, TypeOK
<1>3. ASSUME NEW r \in Request, FailLogin(r) \/ PassLogin(r)
      PROVE  [Lifecycle!Next]_Status
  <2>1. \A q \in Request : Refreshing(q)' => requests'[q] = requests[q]
    BY <1>1, <1>3, RequestKinds
    DEF FailLogin, PassLogin, Login, NoRequest, Refreshing, TypeOK
  <2> QED
    BY <1>1, <1>3, <2>1, UnrelatedStep DEF FailLogin, PassLogin
<1>4. ASSUME NEW r \in Request, NEW k \in ResetId,
             \/ IssueResetToken(r, k)
             \/ \E p \in Password : PresentResetToken(r, k, p)
      PROVE  [Lifecycle!Next]_Status
  BY <1>1, <1>4, UnrelatedStep
  DEF IssueResetToken, PresentResetToken, NoRequest, Refreshing, TypeOK
<1>5. ASSUME UNCHANGED <<tokens, requests>>
      PROVE  [Lifecycle!Next]_Status
  BY <1>1, <1>5, UnrelatedStep
<1>6. ASSUME NEW r \in Request, RevokePresented(r)
      PROVE  [Lifecycle!Next]_Status
  <2>1. requests[r] \in Refresh /\ tokens[requests[r].token] # NoToken
    BY <1>6, RefreshHoldsToken DEF RevokePresented, Refreshing
  <2>2. \A q \in Request : Refreshing(q)' =>
          Refreshing(q) /\ requests'[q].token = requests[q].token
    BY <1>1, <1>6, <2>1 DEF RevokePresented, Refreshing, Refresh, TypeOK
  <2>3. \A t \in TokenId :
          \/ tokens'[t] = tokens[t]
          \/ /\ tokens[t] # NoToken
             /\ tokens'[t] = [tokens[t] EXCEPT !.revoked = TRUE]
    BY <1>1, <1>6, <2>1 DEF RevokePresented, TypeOK
  <2> QED
    BY <2>2, <2>3, RevokingStep
<1>7. ASSUME NEW t \in TokenId, DetectReuse(t) \/ Logout(t)
      PROVE  [Lifecycle!Next]_Status
  <2>1. \A s \in TokenId :
          \/ tokens'[s] = tokens[s]
          \/ /\ tokens[s] # NoToken
             /\ tokens'[s] = [tokens[s] EXCEPT !.revoked = TRUE]
    BY <1>7 DEF DetectReuse, Logout, RevokeFamily, TokenIds
  <2>2. UNCHANGED requests
    BY <1>7 DEF DetectReuse, Logout
  <2> QED
    BY <2>1, <2>2, RevokingStep DEF Refreshing
<1>8. ASSUME NEW r \in Request, CommitReset(r)
      PROVE  [Lifecycle!Next]_Status
  <2>1. \A s \in TokenId :
          \/ tokens'[s] = tokens[s]
          \/ /\ tokens[s] # NoToken
             /\ tokens'[s] = [tokens[s] EXCEPT !.revoked = TRUE]
    BY <1>8 DEF CommitReset, TokenIds
  <2>2. \A q \in Request : Refreshing(q)' => requests'[q] = requests[q]
    BY <1>1, <1>8 DEF CommitReset, Refreshing, NoRequest, TypeOK
  <2> QED
    BY <2>1, <2>2, RevokingStep DEF Refreshing
<1>9. ASSUME NEW t \in TokenId, TokenExpires(t)
      PROVE  [Lifecycle!Next]_Status
  <2>1. \A s \in TokenId :
          \/ tokens'[s] = tokens[s]
          \/ /\ tokens[s] # NoToken
             /\ tokens'[s] = [tokens[s] EXCEPT !.expired = TRUE]
    BY <1>1, <1>9 DEF TokenExpires, TokenIds, TypeOK
  <2>2. UNCHANGED requests
    BY <1>9 DEF TokenExpires
  <2> QED
    BY <2>1, <2>2, RevokingStep DEF Refreshing
<1>10. ASSUME NEW r \in Request, RequestFails(r)
       PROVE  [Lifecycle!Next]_Status
  <2>1. \A q \in Request : Refreshing(q)' => requests'[q] = requests[q]
    BY <1>1, <1>10 DEF RequestFails, Refreshing, NoRequest, TypeOK
  <2> QED
    BY <1>1, <1>10, <2>1, UnrelatedStep DEF RequestFails
<1>11. ASSUME NEW r \in Request, NEW t \in TokenId, PresentToken(r, t)
       PROVE  [Lifecycle!Next]_Status
  <2>1. \A f \in TokenId : Known(f)' <=> Known(f)
    BY <1>11 DEF PresentToken, Known, TokenIds, FamilyOf
  <2>2. Ongoing(FamilyOf(t))
    BY <1>11 DEF PresentToken, Ongoing, Live
  <2>3. \A f \in TokenId : Ongoing(f)' => Ongoing(f)
    BY <1>1, <1>11, <2>2
    DEF PresentToken, Ongoing, Refreshing, TokenIds, FamilyOf, Live, TypeOK
  <2> QED
    BY <2>1, <2>3, ClosingStep
<1>12. ASSUME NEW r \in Request, NEW t \in TokenId, IssueNext(r, t)
       PROVE  [Lifecycle!Next]_Status
  <2> DEFINE g == FamilyOf(requests[r].token)
  <2>1. /\ requests[r].token \in TokenIds
        /\ requests[r].token # t
        /\ Refreshing(r)
    BY <1>12, RefreshHoldsToken DEF IssueNext, Refreshing, TokenIds
  <2>2. Known(g) /\ Ongoing(g)
    BY <2>1 DEF Known, Ongoing
  <2>3. \A s \in TokenId : s # t => tokens'[s] = tokens[s]
    BY <1>1, <1>12 DEF IssueNext, TypeOK
  <2>4. /\ tokens'[t].family = g
        /\ tokens[t] = NoToken
        /\ tokens'[t] # NoToken
    BY <1>1, <1>12, <2>1, RequestKinds, NoUserAssumption
    DEF IssueNext, TypeOK, NoToken, NoRequest
  <2>5. \A f \in TokenId : Known(f)' <=> Known(f)
    BY <2>2, <2>3, <2>4 DEF Known, TokenIds, FamilyOf
  <2>6. \A q \in Request : Refreshing(q)' =>
          /\ Refreshing(q)
          /\ requests'[q] = requests[q]
          /\ requests[q].token \in TokenId
          /\ requests[q].token # t
    BY <1>1, <1>12, RefreshHoldsToken
    DEF IssueNext, Refreshing, NoRequest, TypeOK
  <2>7. \A f \in TokenId : Ongoing(f)' => Ongoing(f)
    BY <2>2, <2>3, <2>4, <2>6 DEF Ongoing, TokenIds, FamilyOf, Live
  <2> QED
    BY <2>5, <2>7, ClosingStep
<1>13. ASSUME NEW r \in Request, NEW t \in TokenId, OpenSession(r, t)
       PROVE  [Lifecycle!Next]_Status
  <2>1. \A s \in TokenId : s # t => tokens'[s] = tokens[s]
    BY <1>1, <1>13 DEF OpenSession, TypeOK
  <2>2. /\ tokens[t] = NoToken
        /\ tokens'[t].family = t
        /\ tokens'[t] # NoToken
        /\ ~tokens'[t].revoked /\ ~tokens'[t].expired
    BY <1>1, <1>13, RequestKinds, NoUserAssumption
    DEF OpenSession, Login, TypeOK, NoToken
  <2>3. \A s \in TokenId : tokens[s] # NoToken => FamilyOf(s) # t
    BY <2>2, TokenRow
  <2>4. \A q \in Request :
          /\ Refreshing(q)' => Refreshing(q)
          /\ Refreshing(q) => Refreshing(q)' /\ requests'[q] = requests[q]
          /\ Refreshing(q) => /\ requests[q].token \in TokenId
                             /\ requests[q].token # t
                             /\ FamilyOf(requests[q].token) # t
    BY <1>1, <1>13, <2>2, <2>3, RefreshHoldsToken
    DEF OpenSession, Refreshing, NoRequest, TypeOK
  <2>5. Status[t] = "none" /\ Status'[t] = "open"
    <3>1. ~Known(t)
      BY <2>3 DEF Known, TokenIds
    <3>2. Known(t)' /\ Ongoing(t)'
      BY <2>2 DEF Known, Ongoing, TokenIds, FamilyOf, Live
    <3> QED
      BY <3>1, <3>2 DEF Status
  <2>6. ASSUME NEW f \in TokenId, f # t
        PROVE  Status'[f] = Status[f]
    <3>1. Known(f)' <=> Known(f)
      BY <2>1, <2>2, <2>6 DEF Known, TokenIds, FamilyOf
    <3>2. Ongoing(f)' <=> Ongoing(f)
      BY <2>1, <2>2, <2>4, <2>6 DEF Ongoing, TokenIds, FamilyOf, Live
    <3> QED
      BY <3>1, <3>2 DEF Status
  <2>7. Status' = [Status EXCEPT ![t] = "open"]
    BY <2>5, <2>6 DEF Status
  <2> QED
    BY <2>5, <2>7 DEF Lifecycle!Next, Lifecycle!Open
<1> QED
  BY <1>2, <1>3, <1>4, <1>5, <1>6, <1>7, <1>8, <1>9, <1>10, <1>11, <1>12, <1>13
  DEF Next, vars, SoftDeleteUser, LockEnds, ResetTokenExpires

\* The refresh tokens of AuthService implement the life cycle of sessions: no
\* closed session opens again, for any number of users and requests.
THEOREM ImplementsLifecycleHolds == Spec => ImplementsLifecycle
<1>1. Init => Lifecycle!Init
  BY DEF Init, Lifecycle!Init, Status, Known, TokenIds
<1>2. IInv /\ IInv' /\ [Next]_vars => [Lifecycle!Next]_Status
  BY LifecycleStep
<1> QED
  BY <1>1, <1>2, IInvHolds, PTL DEF Spec, ImplementsLifecycle, Lifecycle!Spec

-----------------------------------------------------------------------------
\* The requests that are about to store a reset token for a user.
Issuing(u) == {r \in Request : requests[r].pc = "forgot" /\ requests[r].user = u}

\* What ResetTokensBounded needs to be inductive: a request counts from the
\* moment it has deleted the older tokens.
ResetBoundInv ==
  \A u \in User :
    /\ IsFiniteSet(UnusedResetTokens(u))
    /\ Cardinality(UnusedResetTokens(u)) + Cardinality(Issuing(u))
         <= Cardinality(Request)

\* What a step does to the unused tokens of a user and the requests about to
\* add one: neither grows, the tokens are deleted, or one request adds its own.
LEMMA ResetTokenMoves ==
  ASSUME IInv, [Next]_vars, NEW u \in User
  PROVE  \/ /\ UnusedResetTokens(u)' \subseteq UnusedResetTokens(u)
            /\ Issuing(u)' \subseteq Issuing(u)
         \/ UnusedResetTokens(u)' = {}
         \/ \E r \in Issuing(u), k \in ResetId :
              /\ UnusedResetTokens(u)' = UnusedResetTokens(u) \cup {k}
              /\ Issuing(u)' \subseteq Issuing(u) \ {r}
<1> USE DEF UnusedResetTokens, ResetIds, Issuing
<1> DEFINE Fewer == /\ UnusedResetTokens(u)' \subseteq UnusedResetTokens(u)
                    /\ Issuing(u)' \subseteq Issuing(u)
           Added == \E r \in Issuing(u), k \in ResetId :
                      /\ UnusedResetTokens(u)' = UnusedResetTokens(u) \cup {k}
                      /\ Issuing(u)' \subseteq Issuing(u) \ {r}
           Moves == Fewer \/ UnusedResetTokens(u)' = {} \/ Added
<1> SUFFICES Moves
  OBVIOUS
<1>t. TypeOK
  BY DEF IInv
<1>1. ASSUME NEW r \in Request, NEW v \in User, ForgetPassword(r, v)
      PROVE  Moves
  <2>1. CASE u = v
    <3>1. \A k \in ResetIds : resetTokens[k].user = u =>
            [resetTokens[k] EXCEPT !.state = "deleted"].state = "deleted"
      BY <1>t DEF TypeOK, ResetToken, NoResetToken
    <3>2. \A k \in ResetIds : resetTokens[k].user = u =>
            resetTokens'[k].state = "deleted"
      BY <1>1, <2>1, <3>1 DEF ForgetPassword
    <3>3. \A k \in ResetId : (k \notin ResetIds \/ resetTokens[k].user # u)
            => resetTokens'[k] = resetTokens[k]
      BY <1>1, <2>1 DEF ForgetPassword
    <3> QED
      BY <3>2, <3>3
  <2>2. CASE u # v
    <3>1. \A k \in ResetIds : resetTokens[k].user = v =>
            resetTokens'[k].user = v
      <4> SUFFICES ASSUME NEW k \in ResetIds, resetTokens[k].user = v
                   PROVE  resetTokens'[k].user = v
        OBVIOUS
      <4>1. resetTokens[k] \in ResetToken
        BY <1>t DEF TypeOK
      <4>2. [resetTokens[k] EXCEPT !.state = "deleted"].user = v
        BY <4>1 DEF ResetToken
      <4> QED
        BY <1>1, <4>2 DEF ForgetPassword
    <3>2. \A k \in ResetId : (k \notin ResetIds \/ resetTokens[k].user # v)
            => resetTokens'[k] = resetTokens[k]
      BY <1>1 DEF ForgetPassword
    <3>3. UnusedResetTokens(u)' \subseteq UnusedResetTokens(u)
      BY <2>2, <3>1, <3>2
    <3>4. Issuing(u)' \subseteq Issuing(u)
      BY <1>1, <1>t, <2>2 DEF ForgetPassword, TypeOK
    <3> QED
      BY <3>3, <3>4
  <2> QED
    BY <2>1, <2>2
<1>2. ASSUME NEW r \in Request, NEW k \in ResetId, IssueResetToken(r, k)
      PROVE  Moves
  <2>1. \A j \in ResetId : resetTokens'[j] =
          IF j = k THEN [user |-> requests[r].user, state |-> "unused",
                         expired |-> FALSE]
          ELSE resetTokens[j]
    BY <1>2, <1>t DEF IssueResetToken, TypeOK
  <2>2. \A q \in Request : requests'[q] = IF q = r THEN NoRequest ELSE requests[q]
    BY <1>2, <1>t DEF IssueResetToken, TypeOK
  <2>3. Issuing(u)' \subseteq Issuing(u) \ {r}
    BY <2>2 DEF NoRequest
  <2>4. resetTokens[k] = NoResetToken /\ requests[r].pc = "forgot"
    BY <1>2 DEF IssueResetToken
  <2>5. requests[r].user \in User
    BY <1>t, <2>4, RequestKinds DEF NoRequest
  <2>6. [user |-> requests[r].user, state |-> "unused", expired |-> FALSE]
          # NoResetToken
    BY <2>5, NoUserAssumption DEF NoResetToken
  <2>7. CASE requests[r].user = u
    <3>1. UnusedResetTokens(u)' = UnusedResetTokens(u) \cup {k}
      BY <2>1, <2>6, <2>7
    <3> QED
      BY <2>3, <2>4, <2>7, <3>1
  <2>8. CASE requests[r].user # u
    <3>1. UnusedResetTokens(u)' \subseteq UnusedResetTokens(u)
      BY <2>1, <2>8
    <3> QED
      BY <2>3, <3>1
  <2> QED
    BY <2>7, <2>8
<1>3. ASSUME NEW r \in Request, CommitReset(r)
      PROVE  Moves
  <2>1. requests[r].token \in ResetId /\ resetTokens[requests[r].token] \in ResetToken
    BY <1>3, <1>t, RequestKinds DEF CommitReset, IInv, ReferenceInv, Reset, TypeOK
  <2>2. resetTokens'[requests[r].token] = [resetTokens[requests[r].token] EXCEPT !.state = "used"]
    BY <1>3, <1>t, <2>1 DEF CommitReset, TypeOK
  <2>3. resetTokens'[requests[r].token].state = "used"
    BY <2>1, <2>2 DEF ResetToken
  <2>4. \A k \in ResetId : k # requests[r].token => resetTokens'[k] = resetTokens[k]
    BY <1>3, <1>t DEF CommitReset, TypeOK
  <2>5. UnusedResetTokens(u)' \subseteq UnusedResetTokens(u)
    BY <2>3, <2>4
  <2>6. Issuing(u)' \subseteq Issuing(u)
    BY <1>3, <1>t DEF CommitReset, TypeOK, NoRequest
  <2> QED
    BY <2>5, <2>6
<1>4. ASSUME NEW k \in ResetId, ResetTokenExpires(k)
      PROVE  Moves
  <2>1. resetTokens[k] \in ResetToken
    BY <1>4, <1>t DEF ResetTokenExpires, TypeOK
  <2>2. resetTokens'[k] = [resetTokens[k] EXCEPT !.expired = TRUE]
    BY <1>4, <1>t DEF ResetTokenExpires, TypeOK
  <2>3. resetTokens'[k].user = resetTokens[k].user /\ resetTokens'[k].state = resetTokens[k].state
    BY <2>1, <2>2 DEF ResetToken
  <2>4. \A j \in ResetId : j # k => resetTokens'[j] = resetTokens[j]
    BY <1>4, <1>t DEF ResetTokenExpires, TypeOK
  <2>5. UnusedResetTokens(u)' \subseteq UnusedResetTokens(u)
    BY <1>4, <2>3, <2>4 DEF ResetTokenExpires
  <2> QED
    BY <1>4, <2>5 DEF ResetTokenExpires
<1>5. ASSUME UNCHANGED resetTokens,
             \A r \in Request : requests'[r].pc = "forgot" => requests'[r] = requests[r]
      PROVE  Moves
  BY <1>5
<1>6. ASSUME NEW r \in Request,
             \/ \E v \in User, p \in Password : ReadUser(r, v, p)
             \/ FailLogin(r) \/ PassLogin(r) \/ RevokePresented(r) \/ RequestFails(r)
             \/ \E t \in TokenId : OpenSession(r, t) \/ PresentToken(r, t) \/ IssueNext(r, t)
             \/ \E k \in ResetId, p \in Password : PresentResetToken(r, k, p)
      PROVE  Moves
  <2>1. requests' = [requests EXCEPT ![r] = requests'[r]] /\ UNCHANGED resetTokens
    BY <1>6, <1>t
    DEF TypeOK, ReadUser, FailLogin, PassLogin, RevokePresented, RequestFails,
        OpenSession, PresentToken, IssueNext, PresentResetToken
  <2>2. CASE PassLogin(r)
    <3>1. requests[r] \in Login
      BY <1>t, <2>2, RequestKinds DEF PassLogin, Refreshing
    <3>2. requests'[r].pc = "opening"
      BY <1>t, <2>2, <3>1 DEF PassLogin, TypeOK, Login
    <3> QED
      BY <1>t, <1>5, <2>1, <3>2 DEF TypeOK
  <2>3. CASE RevokePresented(r)
    <3>1. requests[r] \in Refresh
      BY <1>t, <2>3, RequestKinds DEF RevokePresented, Refreshing
    <3>2. requests'[r].pc = "rotated"
      BY <1>t, <2>3, <3>1 DEF RevokePresented, TypeOK, Refresh
    <3> QED
      BY <1>t, <1>5, <2>1, <3>2 DEF TypeOK
  <2>4. CASE ~PassLogin(r) /\ ~RevokePresented(r)
    <3>1. requests'[r].pc # "forgot"
      BY <1>6, <1>t, <2>4
      DEF TypeOK, ReadUser, FailLogin, RequestFails, OpenSession, PresentToken,
          IssueNext, PresentResetToken, NoRequest
    <3> QED
      BY <1>t, <1>5, <2>1, <3>1 DEF TypeOK
  <2> QED
    BY <2>2, <2>3, <2>4
<1>7. ASSUME UNCHANGED <<requests, resetTokens>>
      PROVE  Moves
  BY <1>7
<1> HIDE DEF Moves
<1> QED
  BY <1>1, <1>2, <1>3, <1>4, <1>6, <1>7
  DEF Next, vars, DetectReuse, Logout, SoftDeleteUser, LockEnds, TokenExpires

\* Every step keeps unused reset tokens and those who will insert one few.
LEMMA ResetBoundStep == IInv /\ ResetBoundInv /\ [Next]_vars => ResetBoundInv'
<1> SUFFICES ASSUME IInv, ResetBoundInv, [Next]_vars, NEW u \in User
             PROVE  /\ IsFiniteSet(UnusedResetTokens(u)')
                    /\ Cardinality(UnusedResetTokens(u)') + Cardinality(Issuing(u)')
                         <= Cardinality(Request)
  BY DEF ResetBoundInv
<1> DEFINE U == UnusedResetTokens(u)
           I == Issuing(u)
           V == UnusedResetTokens(u)'
           J == Issuing(u)'
<1>1. /\ IsFiniteSet(U) /\ I \subseteq Request /\ J \subseteq Request
      /\ Cardinality(U) + Cardinality(I) <= Cardinality(Request)
  BY DEF ResetBoundInv, Issuing
<1>2. \/ V \subseteq U /\ J \subseteq I
      \/ V = {}
      \/ \E r \in I, k \in ResetId : V = U \cup {k} /\ J \subseteq I \ {r}
  BY ResetTokenMoves
<1> HIDE DEF U, I, V, J
<1>3. IsFiniteSet(I) /\ IsFiniteSet(J)
  BY <1>1, RequestAssumption, FS_Subset
<1>4. /\ Cardinality(U) \in Nat /\ Cardinality(I) \in Nat
      /\ Cardinality(J) \in Nat /\ Cardinality(Request) \in Nat
  BY <1>1, <1>3, RequestAssumption, FS_CardinalityType
<1>5. CASE V \subseteq U /\ J \subseteq I
  <2>1. IsFiniteSet(V) /\ Cardinality(V) <= Cardinality(U)
    BY <1>1, <1>5, FS_Subset
  <2>2. Cardinality(J) <= Cardinality(I)
    BY <1>3, <1>5, FS_Subset
  <2>3. Cardinality(V) \in Nat
    BY <2>1, FS_CardinalityType
  <2>4. Cardinality(V) + Cardinality(J) <= Cardinality(Request)
    BY <1>1, <1>4, <2>1, <2>2, <2>3
  <2> QED
    BY <2>1, <2>4 DEF V, J
<1>6. CASE V = {}
  <2>1. IsFiniteSet(V) /\ Cardinality(V) = 0
    BY <1>6, FS_EmptySet
  <2>2. Cardinality(J) <= Cardinality(Request)
    BY <1>1, RequestAssumption, FS_Subset
  <2>3. Cardinality(V) + Cardinality(J) <= Cardinality(Request)
    BY <1>4, <2>1, <2>2
  <2> QED
    BY <2>1, <2>3 DEF V, J
<1>7. ASSUME NEW r \in I, NEW k \in ResetId, V = U \cup {k}, J \subseteq I \ {r}
      PROVE  /\ IsFiniteSet(V)
             /\ Cardinality(V) + Cardinality(J) <= Cardinality(Request)
  <2>1. IsFiniteSet(V) /\ Cardinality(V) <= Cardinality(U) + 1
    BY <1>1, <1>4, <1>7, FS_AddElement
  <2>2. IsFiniteSet(I \ {r}) /\ Cardinality(I \ {r}) = Cardinality(I) - 1
    BY <1>3, FS_RemoveElement
  <2>3. Cardinality(J) <= Cardinality(I) - 1
    BY <1>7, <2>2, FS_Subset
  <2>4. Cardinality(V) \in Nat
    BY <2>1, FS_CardinalityType
  <2> QED
    BY <1>1, <1>4, <2>1, <2>3, <2>4
<1> QED
  BY <1>2, <1>5, <1>6, <1>7 DEF V, J

\* However requests for a password reset overlap, a user never has more unused
\* tokens than there are requests, for any number of users and tokens.
THEOREM ResetTokensBoundedHolds == Spec => []ResetTokensBounded
<1>1. Init => ResetBoundInv
  <2> SUFFICES ASSUME Init, NEW u \in User
               PROVE  /\ IsFiniteSet(UnusedResetTokens(u))
                      /\ Cardinality(UnusedResetTokens(u)) + Cardinality(Issuing(u))
                           <= Cardinality(Request)
    BY DEF ResetBoundInv
  <2>1. UnusedResetTokens(u) = {} /\ Issuing(u) = {}
    BY DEF Init, UnusedResetTokens, ResetIds, Issuing, NoRequest
  <2>2. Cardinality(Request) \in Nat
    BY RequestAssumption, FS_CardinalityType
  <2> QED
    BY <2>1, <2>2, FS_EmptySet
<1>2. ResetBoundInv => ResetTokensBounded
  <2> SUFFICES ASSUME ResetBoundInv, NEW u \in User
               PROVE  Cardinality(UnusedResetTokens(u)) <= Cardinality(Request)
    BY DEF ResetTokensBounded
  <2>1. IsFiniteSet(Issuing(u))
    BY RequestAssumption, FS_Subset DEF Issuing
  <2>2. /\ Cardinality(UnusedResetTokens(u)) \in Nat
        /\ Cardinality(Issuing(u)) \in Nat /\ Cardinality(Request) \in Nat
    BY <2>1, RequestAssumption, FS_CardinalityType DEF ResetBoundInv
  <2> QED
    BY <2>2 DEF ResetBoundInv
<1> QED
  BY <1>1, <1>2, IInvHolds, ResetBoundStep, PTL DEF Spec
====

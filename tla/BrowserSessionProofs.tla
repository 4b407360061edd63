---- MODULE BrowserSessionProofs ----
(***************************************************************************)
(* Proofs about BrowserSession, for any number of tabs: what a browser     *)
(* does is something Sessions allows, so its theorems carry over; as long  *)
(* as refreshes do not overlap, a session has one usable token, whatever   *)
(* calls and replies are lost or late; and as long as none is lost either, *)
(* the jar holds no token that AuthService would take for stolen.          *)
(***************************************************************************)
EXTENDS BrowserSession, SessionsProofs

\* Each step of the browser and of AuthController is one of Sessions, or leaves
\* its variables alone.
LEMMA BrowserStep == [BrowserNext]_allVars => [Next]_vars
<1> SUFFICES ASSUME [BrowserNext]_allVars PROVE [Next]_vars
  OBVIOUS
<1>1. ASSUME NEW r \in Request, NEW u \in User, NEW p \in Password,
             LoginArrives(r, u, p)
      PROVE  Next
  BY <1>1 DEF LoginArrives, Next
<1>2. ASSUME NEW r \in Request, LoginGoesOn(r)
      PROVE  Next
  BY <1>2 DEF LoginGoesOn, Next
<1>3. ASSUME NEW r \in Request, RefreshArrives(r)
      PROVE  Next
  BY <1>3 DEF RefreshArrives, PresentToken, DetectReuse, TokenIds, Next
<1>4. ASSUME NEW r \in Request, RefreshGoesOn(r)
      PROVE  Next
  BY <1>4 DEF RefreshGoesOn, Next
<1>5. ASSUME NEW r \in Request, LogoutArrives(r)
      PROVE  [Next]_vars
  BY <1>5 DEF LogoutArrives, Logout, TokenIds, Next, vars
<1>6. ASSUME NEW r \in Request, CallFails(r)
      PROVE  Next
  BY <1>6 DEF CallFails, Next
<1>7. CASE Elsewhere
  BY <1>7 DEF Elsewhere, Next
<1>8. ASSUME \/ \E r \in Request, op \in {"login", "refresh", "logout"} : Send(r, op)
             \/ \E r \in Request : Deliver(r) \/ Lose(r) \/ Refused(r)
             \/ UNCHANGED allVars
      PROVE  UNCHANGED vars
  BY <1>8 DEF Send, Deliver, Lose, Refused, allVars, vars
<1> QED
  BY <1>1, <1>2, <1>3, <1>4, <1>5, <1>6, <1>7, <1>8 DEF BrowserNext

\* A browser uses AuthService as Sessions describes it.
THEOREM BrowserImplementsSessions == BrowserSpec => Spec
<1>1. BrowserInit => Init
  BY DEF BrowserInit
<1> QED
  BY <1>1, BrowserStep, PTL DEF BrowserSpec, Spec

\* And so what was proved of Sessions holds of it.
THEOREM BrowserKeepsLifecycle == BrowserSpec => ImplementsLifecycle /\ DisabledStaysOut
BY BrowserImplementsSessions, ImplementsLifecycleHolds, DisabledStaysOutHolds, PTL

-----------------------------------------------------------------------------
(* The inductive invariant for OneLiveTokenPerSession. *)

CallsType ==
  /\ calls \in [Request -> Call \cup {NoCall}]
  /\ cookie \in TokenId \cup {None}
  /\ mishap \in {"none", "loss", "overlap"}

\* Whoever refreshes in AuthService does it for a call that is with the server.
Refreshes == \A r \in Request : Refreshing(r) => At(r, "server", "refresh")

OneRefresh ==
  \A q, r \in Request : UnderWay(q, "refresh") /\ UnderWay(r, "refresh") => q = r

\* A refresh under way holds the only token of its family that can be live, and
\* once that is revoked none is.
RefreshHoldsLive ==
  \A r \in Request, s \in TokenId :
    /\ Refreshing(r)
    /\ s \in TokenIds
    /\ Live(s)
    /\ FamilyOf(s) = FamilyOf(requests[r].token)
    => requests[r].pc = "rotating" /\ s = requests[r].token

OneLive ==
  \A s, t \in TokenId :
    s \in TokenIds /\ t \in TokenIds /\ Live(s) /\ Live(t) /\ FamilyOf(s) = FamilyOf(t)
    => s = t

BrowserInv ==
  /\ CallsType
  /\ Refreshes
  /\ mishap # "overlap" => OneRefresh /\ RefreshHoldsLive /\ OneLive

\* No call is under way at the beginning.
LEMMA InitBrowser == BrowserInit => BrowserInv
BY DEF BrowserInit, Init, BrowserInv, CallsType, Refreshes, OneRefresh,
       RefreshHoldsLive, OneLive, Refreshing, NoRequest, UnderWay, TokenIds

\* A call ends, or goes on with its operation.
LEMMA CallGoesOn ==
  ASSUME BrowserInv, NEW r \in Request, NEW c \in Call \cup {NoCall},
         calls' = [calls EXCEPT ![r] = c],
         c = NoCall \/ (calls[r] # NoCall /\ c.op = calls[r].op),
         cookie' \in TokenId \cup {None},
         mishap' \in {"none", "loss", "overlap"},
         mishap = "overlap" => mishap' = "overlap"
  PROVE  /\ CallsType'
         /\ mishap' # "overlap" => mishap # "overlap" /\ OneRefresh'
<1>1. \A q \in Request : calls'[q] = IF q = r THEN c ELSE calls[q]
  BY DEF BrowserInv, CallsType
<1>2. \A q \in Request : UnderWay(q, "refresh")' => UnderWay(q, "refresh")
  BY <1>1 DEF UnderWay
<1>3. CallsType'
  BY DEF BrowserInv, CallsType
<1> QED
  BY <1>2, <1>3 DEF BrowserInv, OneRefresh

\* The two ways it goes on.
LEMMA CallRows ==
  ASSUME BrowserInv, NEW r \in Request, NEW next \in TokenId \cup {None},
         calls[r].at \in {"network", "server"}
  PROVE  /\ calls[r] # NoCall
         /\ calls[r].at = "network" =>
              /\ [calls[r] EXCEPT !.at = "server"] \in Call
              /\ [calls[r] EXCEPT !.at = "server"].at = "server"
              /\ [calls[r] EXCEPT !.at = "server"].op = calls[r].op
         /\ [at |-> "reply", op |-> calls[r].op, token |-> calls[r].token,
             next |-> next] \in Call
<1>1. calls[r] # NoCall /\ calls[r] \in Call
  BY DEF BrowserInv, CallsType, NoCall
<1>2. calls[r] \in [at : {"network", "server"}, op : {"login", "refresh", "logout"},
                    token : TokenId \cup {None}]
  BY <1>1 DEF Call
<1> QED
  BY <1>1, <1>2 DEF Call

\* A call that is sent carries the cookie, and a second refresh is an overlap.
LEMMA SendMoves ==
  ASSUME BrowserInv, NEW r \in Request, NEW op \in {"login", "refresh", "logout"},
         Send(r, op)
  PROVE  /\ CallsType'
         /\ mishap' # "overlap" => mishap # "overlap" /\ OneRefresh'
<1> DEFINE c == [at |-> "network", op |-> op,
                 token |-> IF op = "login" THEN None ELSE cookie]
<1>1. c \in Call /\ c.op = op
  BY DEF Call, BrowserInv, CallsType
<1>2. calls' = [calls EXCEPT ![r] = c] /\ cookie' = cookie
  BY DEF Send
<1>3. /\ mishap' \in {"none", "loss", "overlap"}
      /\ mishap' # "overlap" =>
           /\ mishap # "overlap"
           /\ op = "refresh" => \A q \in Request : ~UnderWay(q, "refresh")
  BY DEF Send, BrowserInv, CallsType
<1> HIDE DEF c
<1>4. \A q \in Request : calls'[q] = IF q = r THEN c ELSE calls[q]
  BY <1>2 DEF BrowserInv, CallsType
<1>5. CallsType'
  BY <1>1, <1>2, <1>3 DEF BrowserInv, CallsType
<1>6. ASSUME mishap' # "overlap" PROVE OneRefresh'
  <2>1. CASE op = "refresh"
    BY <1>3, <1>4, <1>6, <2>1 DEF OneRefresh, UnderWay
  <2>2. CASE op # "refresh"
    BY <1>1, <1>3, <1>4, <1>6, <2>2 DEF OneRefresh, UnderWay, BrowserInv
  <2> QED
    BY <2>1, <2>2
<1> QED
  BY <1>3, <1>5, <1>6

\* What the steps do to the calls.
LEMMA CallMoves ==
  ASSUME BrowserInv, [BrowserNext]_allVars
  PROVE  /\ CallsType'
         /\ mishap' # "overlap" => mishap # "overlap" /\ OneRefresh'
<1> DEFINE Goal == /\ CallsType'
                   /\ mishap' # "overlap" => mishap # "overlap" /\ OneRefresh'
<1>t. cookie \in TokenId \cup {None} /\ mishap \in {"none", "loss", "overlap"}
  BY DEF BrowserInv, CallsType
<1>1. ASSUME NEW r \in Request, Deliver(r) \/ Lose(r) \/ Refused(r) PROVE Goal
  <2>1. calls' = [calls EXCEPT ![r] = NoCall]
    BY <1>1 DEF Deliver, Lose, Refused, Refuse
  <2>2. cookie' \in TokenId \cup {None}
    <3>1. CASE Deliver(r)
      BY <3>1 DEF Deliver, BrowserInv, CallsType, Call, NoCall
    <3> QED
      BY <1>1, <1>t, <3>1 DEF Lose, Refused
  <2>3. mishap' \in {"none", "loss", "overlap"} /\ (mishap = "overlap" => mishap' = "overlap")
    BY <1>1, <1>t DEF Deliver, Lose, Refused, TokenLost
  <2> QED
    BY <2>1, <2>2, <2>3, CallGoesOn
<1>2. ASSUME NEW r \in Request,
             UNCHANGED <<cookie, mishap>>,
             calls[r].at = "network",
             calls' = [calls EXCEPT ![r].at = "server"]
      PROVE  Goal
  <2>1. calls' = [calls EXCEPT ![r] = [calls[r] EXCEPT !.at = "server"]]
    BY <1>2 DEF BrowserInv, CallsType
  <2> QED
    BY <1>2, <1>t, <2>1, CallRows, CallGoesOn
<1>3. ASSUME NEW r \in Request, NEW next \in TokenId \cup {None},
             UNCHANGED <<cookie, mishap>>,
             calls[r].at \in {"network", "server"},
             Answer(r, next)
      PROVE  Goal
  <2> DEFINE c == [at |-> "reply", op |-> calls[r].op, token |-> calls[r].token,
                   next |-> next]
  <2>1. calls' = [calls EXCEPT ![r] = c] /\ c.op = calls[r].op
    BY <1>3 DEF Answer
  <2>2. c \in Call /\ calls[r] # NoCall
    BY <1>3, CallRows
  <2> HIDE DEF c
  <2> QED
    BY <1>3, <1>t, <2>1, <2>2, CallGoesOn
<1>4. ASSUME NEW r \in Request, UNCHANGED cookie, Refuse(r),
             UNCHANGED mishap \/ TokenLost
      PROVE  Goal
  <2>1. mishap' \in {"none", "loss", "overlap"} /\ (mishap = "overlap" => mishap' = "overlap")
    BY <1>4, <1>t DEF TokenLost
  <2> QED
    BY <1>4, <1>t, <2>1, CallGoesOn DEF Refuse
<1>5. ASSUME UNCHANGED <<calls, cookie, mishap>> PROVE Goal
  BY <1>5 DEF BrowserInv, CallsType, OneRefresh, UnderWay
<1>6. ASSUME NEW r \in Request, LoginGoesOn(r) PROVE Goal
  <2>1. CASE FailLogin(r) /\ Refuse(r)
    BY <1>4, <1>6, <2>1 DEF LoginGoesOn
  <2>2. CASE PassLogin(r) /\ UNCHANGED calls
    BY <1>5, <1>6, <2>2 DEF LoginGoesOn
  <2>3. ASSUME NEW t \in TokenId, Answer(r, t) PROVE Goal
    BY <1>3, <1>6, <2>3 DEF LoginGoesOn, At
  <2> QED
    BY <1>6, <2>1, <2>2, <2>3 DEF LoginGoesOn
<1>7. ASSUME NEW r \in Request, RefreshArrives(r) PROVE Goal
  BY <1>2, <1>4, <1>7 DEF RefreshArrives, At
<1>8. ASSUME NEW r \in Request, RefreshGoesOn(r) PROVE Goal
  <2>1. CASE UNCHANGED calls
    BY <1>5, <1>8, <2>1 DEF RefreshGoesOn
  <2>2. ASSUME NEW t \in TokenId, Answer(r, t) PROVE Goal
    BY <1>3, <1>8, <2>2 DEF RefreshGoesOn, At
  <2> QED
    BY <1>8, <2>1, <2>2 DEF RefreshGoesOn
<1>9. ASSUME NEW r \in Request, LogoutArrives(r) PROVE Goal
  BY <1>3, <1>9 DEF LogoutArrives, At
<1>10. ASSUME NEW r \in Request, CallFails(r) PROVE Goal
  BY <1>4, <1>10 DEF CallFails
<1>11. ASSUME NEW r \in Request, NEW u \in User, NEW p \in Password,
              LoginArrives(r, u, p)
       PROVE  Goal
  BY <1>2, <1>11 DEF LoginArrives, At
<1>12. ASSUME NEW r \in Request, NEW op \in {"login", "refresh", "logout"}, Send(r, op)
       PROVE  Goal
  BY <1>12, SendMoves
<1> HIDE DEF Goal
<1>13. Goal
  BY <1>1, <1>5, <1>6, <1>7, <1>8, <1>9, <1>10, <1>11, <1>12
  DEF BrowserNext, browserVars, allVars
<1> QED
  BY <1>13 DEF Goal

-----------------------------------------------------------------------------
\* One request and one call change.
LEMMA RefreshesMoves ==
  ASSUME BrowserInv, IInv, [BrowserNext]_allVars
  PROVE  Refreshes'
<1> USE DEF At
<1>t. /\ Refreshes
      /\ requests \in [Request -> Login \cup Refresh \cup Forgot \cup Reset \cup {NoRequest}]
      /\ calls \in [Request -> Call \cup {NoCall}]
  BY DEF BrowserInv, CallsType, IInv, TypeOK
<1>1. ASSUME NEW r \in Request,
             \A q \in Request \ {r} : requests'[q] = requests[q] /\ calls'[q] = calls[q],
             Refreshing(r)' => At(r, "server", "refresh")'
      PROVE  Refreshes'
  BY <1>t, <1>1 DEF Refreshes, Refreshing
<1>2. ASSUME NEW r \in Request, UNCHANGED requests,
             calls[r].at # "server",
             \A q \in Request \ {r} : calls'[q] = calls[q]
      PROVE  Refreshes'
  BY <1>t, <1>1, <1>2 DEF Refreshes, Refreshing
<1>3. ASSUME NEW r \in Request,
             \/ \E op \in {"login", "refresh", "logout"} : Send(r, op)
             \/ Deliver(r) \/ Lose(r) \/ Refused(r)
             \/ LogoutArrives(r)
      PROVE  Refreshes'
  <2>1. UNCHANGED requests /\ calls[r].at # "server"
    BY <1>3 DEF Send, Deliver, Lose, Refused, LogoutArrives, Logout, NoCall
  <2>2. \A q \in Request \ {r} : calls'[q] = calls[q]
    BY <1>3, <1>t DEF Send, Deliver, Lose, Refused, LogoutArrives, Refuse, Answer
  <2> QED
    BY <1>2, <2>1, <2>2
<1>4. ASSUME NEW r \in Request, NEW u \in User, NEW p \in Password,
             LoginArrives(r, u, p)
      PROVE  Refreshes'
  BY <1>t, <1>1, <1>4 DEF LoginArrives, ReadUser, Refreshing
<1>5. ASSUME NEW r \in Request, LoginGoesOn(r)
      PROVE  Refreshes'
  <2>1. requests'[r].pc \in {"none", "opening"}
    <3>1. CASE PassLogin(r)
      <4>1. requests[r] \in Login
        BY <3>1, RequestKinds DEF PassLogin, IInv
      <4> QED
        BY <1>t, <3>1, <4>1 DEF PassLogin, Login
    <3>2. CASE ~PassLogin(r)
      BY <1>t, <1>5, <3>2 DEF LoginGoesOn, FailLogin, OpenSession, NoRequest
    <3> QED
      BY <3>1, <3>2
  <2>2. \A q \in Request \ {r} : requests'[q] = requests[q] /\ calls'[q] = calls[q]
    BY <1>t, <1>5
    DEF LoginGoesOn, FailLogin, PassLogin, OpenSession, Refuse, Answer
  <2> QED
    BY <1>1, <2>1, <2>2 DEF Refreshing
<1>6. ASSUME NEW r \in Request, RefreshArrives(r)
      PROVE  Refreshes'
  <2>1. CASE DetectReuse(calls[r].token) /\ Refuse(r)
    BY <1>t, <1>2, <1>6, <2>1 DEF RefreshArrives, DetectReuse, Refuse
  <2>2. CASE PresentToken(r, calls[r].token) /\ calls' = [calls EXCEPT ![r].at = "server"]
    <3>1. calls[r] # NoCall
      BY <1>6 DEF RefreshArrives, NoCall
    <3>2. calls'[r].at = "server" /\ calls'[r].op = "refresh"
      <4>1. calls'[r] = [calls[r] EXCEPT !.at = "server"]
        BY <1>t, <2>2
      <4> QED
        BY <1>6, <4>1, CallRows DEF RefreshArrives
    <3> QED
      BY <1>t, <1>1, <2>2, <3>2 DEF PresentToken
  <2> QED
    BY <1>6, <2>1, <2>2 DEF RefreshArrives
<1>7. ASSUME NEW r \in Request, RefreshGoesOn(r)
      PROVE  Refreshes'
  <2>1. CASE RevokePresented(r) /\ UNCHANGED calls
    BY <1>t, <1>1, <1>7, <2>1 DEF RefreshGoesOn, RevokePresented
  <2>2. ASSUME NEW t \in TokenId, IssueNext(r, t), Answer(r, t)
        PROVE  Refreshes'
    BY <1>t, <1>1, <2>2 DEF IssueNext, Answer, Refreshing, NoRequest
  <2> QED
    BY <1>7, <2>1, <2>2 DEF RefreshGoesOn
<1>8. ASSUME NEW r \in Request, CallFails(r)
      PROVE  Refreshes'
  BY <1>t, <1>1, <1>8 DEF CallFails, RequestFails, Refuse, Refreshing, NoRequest
<1>9. CASE UNCHANGED <<requests, calls>>
  BY <1>9 DEF BrowserInv, Refreshes, Refreshing
<1> QED
  BY <1>3, <1>4, <1>5, <1>6, <1>7, <1>8, <1>9
  DEF BrowserNext, Elsewhere, SoftDeleteUser, LockEnds, TokenExpires,
      browserVars, allVars

-----------------------------------------------------------------------------
\* Tokens are revoked or expire, and refreshes end: nothing becomes live.
LEMMA FewerLive ==
  ASSUME IInv, RefreshHoldsLive, OneLive,
         TokenIds' = TokenIds,
         \A s \in TokenIds : FamilyOf(s)' = FamilyOf(s) /\ (Live(s)' => Live(s)),
         \A r \in Request : Refreshing(r)' => Refreshing(r) /\ requests'[r] = requests[r]
  PROVE  RefreshHoldsLive' /\ OneLive'
<1>1. \A r \in Request : Refreshing(r) => requests[r].token \in TokenIds
  BY RefreshHoldsToken DEF TokenIds
<1>2. OneLive'
  BY DEF OneLive
<1>3. RefreshHoldsLive'
  <2> SUFFICES ASSUME NEW r \in Request, NEW s \in TokenId,
                      Refreshing(r)', s \in TokenIds', Live(s)',
                      FamilyOf(s)' = FamilyOf(requests[r].token)'
               PROVE  requests'[r].pc = "rotating" /\ s = requests'[r].token
    BY DEF RefreshHoldsLive
  <2>1. Refreshing(r) /\ requests'[r] = requests[r] /\ s \in TokenIds /\ Live(s)
    OBVIOUS
  <2>2. FamilyOf(s) = FamilyOf(requests[r].token)
    BY <1>1, <2>1 DEF FamilyOf
  <2> QED
    BY <2>1, <2>2 DEF RefreshHoldsLive
<1> QED
  BY <1>2, <1>3

\* Revocation and expiry.
RowAges(t) ==
  \/ tokens'[t] = tokens[t]
  \/ /\ tokens[t] # NoToken
     /\ \/ tokens'[t] = [tokens[t] EXCEPT !.revoked = TRUE]
        \/ tokens'[t] = [tokens[t] EXCEPT !.expired = TRUE]

\* A token keeps its family, and its flags once they are set.
RowStays(t) ==
  /\ tokens'[t] = NoToken <=> tokens[t] = NoToken
  /\ tokens[t] # NoToken =>
       /\ tokens'[t].family = tokens[t].family
       /\ tokens[t].revoked => tokens'[t].revoked
       /\ tokens[t].expired => tokens'[t].expired

\* Revocation and expiry, the only ways a row ages, leave a token its family and its flags.
LEMMA RowsStay ==
  ASSUME IInv, \A t \in TokenId : RowAges(t)
  PROVE  \A t \in TokenId : RowStays(t)
<1> TAKE t \in TokenId
<1>1. CASE tokens'[t] = tokens[t]
  BY <1>1 DEF RowStays
<1>2. CASE tokens[t] # NoToken /\ tokens'[t] # tokens[t]
  <2>1. tokens[t] \in Token
    BY <1>2, TokenRow
  <2>2. tokens'[t] # NoToken /\ tokens'[t].family = tokens[t].family
    BY <1>2, <2>1, TokenUpdates DEF RowAges
  <2>3. /\ tokens[t].revoked => tokens'[t].revoked
        /\ tokens[t].expired => tokens'[t].expired
    BY <1>2, <2>1 DEF Token, RowAges
  <2> QED
    BY <1>2, <2>2, <2>3 DEF RowStays
<1> QED
  BY <1>1, <1>2 DEF RowAges

\* The rows change as RevokeFamily and TokenExpires change them.
LEMMA FewerLiveRows ==
  ASSUME IInv, RefreshHoldsLive, OneLive,
         \A s \in TokenId : RowAges(s),
         \A r \in Request : Refreshing(r)' => Refreshing(r) /\ requests'[r] = requests[r]
  PROVE  RefreshHoldsLive' /\ OneLive'
<1>1. \A s \in TokenId : RowStays(s)
  BY RowsStay
<1>2. TokenIds' = TokenIds
  BY <1>1 DEF TokenIds, RowStays
<1>3. \A s \in TokenIds : FamilyOf(s)' = FamilyOf(s) /\ (Live(s)' => Live(s))
  BY <1>1 DEF TokenIds, FamilyOf, Live, RowStays
<1> QED
  BY <1>2, <1>3, FewerLive

\* Logout and the detection of a reuse.
LEMMA RevokeFamilyKeeps ==
  ASSUME IInv, RefreshHoldsLive, OneLive, NEW f, RevokeFamily(f), UNCHANGED requests
  PROVE  RefreshHoldsLive' /\ OneLive'
<1>1. \A s \in TokenId :
        \/ tokens'[s] = tokens[s]
        \/ /\ tokens[s] # NoToken
           /\ tokens'[s] = [tokens[s] EXCEPT !.revoked = TRUE]
  BY DEF RevokeFamily, TokenIds
<1> QED
  BY <1>1, FewerLiveRows DEF Refreshing, RowAges

\* One usable token per family, and none but the one a refresh is about to insert.
LEMMA LiveMoves ==
  ASSUME BrowserInv, IInv, [BrowserNext]_allVars, mishap # "overlap"
  PROVE  RefreshHoldsLive' /\ OneLive'
<1> DEFINE Goal == RefreshHoldsLive' /\ OneLive'
<1>t. /\ OneRefresh /\ RefreshHoldsLive /\ OneLive /\ Refreshes
      /\ requests \in [Request -> Login \cup Refresh \cup Forgot \cup Reset \cup {NoRequest}]
      /\ tokens \in [TokenId -> Token \cup {NoToken}]
  BY DEF BrowserInv, IInv, TypeOK
\* Two refreshes in AuthService are one.
<1>o. \A q, r \in Request : Refreshing(q) /\ Refreshing(r) => q = r
  <2>1. \A r \in Request : Refreshing(r) => UnderWay(r, "refresh")
    BY <1>t DEF Refreshes, At, UnderWay, NoCall
  <2> QED
    BY <1>t, <2>1 DEF OneRefresh
<1>1. ASSUME UNCHANGED tokens,
             \A r \in Request : Refreshing(r)' => Refreshing(r) /\ requests'[r] = requests[r]
      PROVE  Goal
  BY <1>t, <1>1, FewerLiveRows DEF RowAges
<1>2. ASSUME NEW r \in Request, NEW t \in TokenId, OpenSession(r, t)
      PROVE  Goal
  <2> DEFINE row == [user |-> requests[r].user, family |-> t,
                     revoked |-> FALSE, expired |-> FALSE]
  <2>1. \A s \in TokenId : tokens'[s] = IF s = t THEN row ELSE tokens[s]
    BY <1>2, <1>t DEF OpenSession
  <2>2. row.family = t /\ tokens[t] = NoToken
    BY <1>2 DEF OpenSession
  <2>3. \A s \in TokenIds : s # t /\ FamilyOf(s) # t
    BY <2>2, TokenRow DEF TokenIds
  <2>4. \A q \in Request : Refreshing(q)' =>
          Refreshing(q) /\ requests'[q] = requests[q] /\ requests[q].token \in TokenIds
    BY <1>2, <1>t, RefreshHoldsToken DEF OpenSession, Refreshing, NoRequest, TokenIds
  <2> HIDE DEF row
  <2>5. \A s \in TokenIds' : s = t \/ (s \in TokenIds /\ tokens'[s] = tokens[s])
    BY <2>1 DEF TokenIds
  <2>6. OneLive'
    <3> SUFFICES ASSUME NEW s \in TokenIds', NEW q \in TokenIds',
                        Live(s)', Live(q)', FamilyOf(s)' = FamilyOf(q)', s # q
                 PROVE  FALSE
      BY DEF OneLive
    <3>1. \A x \in TokenIds' : Live(x)' /\ x # t =>
            /\ x \in TokenIds /\ Live(x)
            /\ FamilyOf(x)' = FamilyOf(x) /\ FamilyOf(x) # t
      BY <2>3, <2>5 DEF Live, FamilyOf
    <3>2. FamilyOf(t)' = t
      BY <2>1, <2>2 DEF FamilyOf
    <3> QED
      BY <1>t, <3>1, <3>2 DEF OneLive, TokenIds
  <2>7. RefreshHoldsLive'
    <3> SUFFICES ASSUME NEW q \in Request, NEW s \in TokenId,
                        Refreshing(q)', s \in TokenIds', Live(s)',
                        FamilyOf(s)' = FamilyOf(requests[q].token)'
                 PROVE  requests'[q].pc = "rotating" /\ s = requests'[q].token
      BY DEF RefreshHoldsLive
    <3>1. /\ Refreshing(q) /\ requests'[q] = requests[q]
          /\ requests[q].token \in TokenIds /\ requests[q].token # t
          /\ tokens'[requests[q].token] = tokens[requests[q].token]
      BY <2>1, <2>3, <2>4 DEF TokenIds
    <3>2. tokens'[s].family = FamilyOf(requests[q].token)
      BY <3>1 DEF FamilyOf
    <3>3. s # t
      BY <2>1, <2>2, <2>3, <3>1, <3>2
    <3>4. s \in TokenIds /\ Live(s) /\ FamilyOf(s) = FamilyOf(requests[q].token)
      BY <2>5, <3>2, <3>3 DEF FamilyOf, Live
    <3> QED
      BY <1>t, <3>1, <3>4 DEF RefreshHoldsLive
  <2> QED
    BY <2>6, <2>7
<1>3. ASSUME NEW r \in Request, NEW t \in TokenId, PresentToken(r, t)
      PROVE  Goal
  <2>1. \A q \in Request : requests'[q] =
          IF q = r THEN [pc |-> "rotating", user |-> tokens[t].user, token |-> t]
          ELSE requests[q]
    BY <1>3, <1>t DEF PresentToken
  <2>2. UNCHANGED tokens /\ t \in TokenIds /\ Live(t)
    BY <1>3 DEF PresentToken, Live
  <2>3. OneLive'
    BY <1>t, <2>2 DEF OneLive, TokenIds, Live, FamilyOf
  <2>4. RefreshHoldsLive'
    <3> SUFFICES ASSUME NEW q \in Request, NEW s \in TokenId,
                        Refreshing(q)', s \in TokenIds', Live(s)',
                        FamilyOf(s)' = FamilyOf(requests[q].token)'
                 PROVE  requests'[q].pc = "rotating" /\ s = requests'[q].token
      BY DEF RefreshHoldsLive
    <3>1. s \in TokenIds /\ Live(s) /\ FamilyOf(s) = FamilyOf(requests'[q].token)
      BY <2>2 DEF TokenIds, Live, FamilyOf
    <3>2. CASE q = r
      BY <1>t, <2>1, <2>2, <3>1, <3>2 DEF OneLive, TokenIds
    <3>3. CASE q # r
      BY <1>t, <2>1, <3>1, <3>3 DEF RefreshHoldsLive, Refreshing
    <3> QED
      BY <3>2, <3>3
  <2> QED
    BY <2>3, <2>4
<1>4. ASSUME NEW r \in Request, RevokePresented(r)
      PROVE  Goal
  <2>1. /\ Refreshing(r) /\ requests[r].token \in TokenId
        /\ tokens[requests[r].token] # NoToken /\ requests[r] \in Refresh
    BY <1>4, RefreshHoldsToken DEF RevokePresented, Refreshing
  <2> DEFINE t == requests[r].token
  <2>2. tokens[t] \in Token
    BY <2>1, TokenRow
  <2>3. \A s \in TokenId : tokens'[s] =
          IF s = t THEN [tokens[t] EXCEPT !.revoked = TRUE] ELSE tokens[s]
    BY <1>4, <1>t, <2>1 DEF RevokePresented
  <2>4. /\ [tokens[t] EXCEPT !.revoked = TRUE].revoked = TRUE
        /\ [tokens[t] EXCEPT !.revoked = TRUE].family = tokens[t].family
    BY <2>2 DEF Token
  <2>5. \A q \in Request : q # r => requests'[q] = requests[q] /\ ~Refreshing(q)
    BY <1>4, <1>t, <1>o, <2>1 DEF RevokePresented
  <2>6. requests'[r].token = t
    BY <1>4, <1>t, <2>1 DEF RevokePresented, Refresh
  <2> HIDE DEF t
  <2>7. \A s \in TokenIds' : Live(s)' =>
          s # t /\ s \in TokenIds /\ Live(s) /\ tokens'[s] = tokens[s]
    BY <2>3, <2>4 DEF TokenIds, Live
  <2>8. OneLive'
    BY <1>t, <2>7 DEF OneLive, FamilyOf, TokenIds
  <2>9. ASSUME NEW s \in TokenId, s \in TokenIds', Live(s)'
        PROVE  tokens'[s].family # tokens'[t].family
    <3>1. tokens'[t].family = FamilyOf(t) /\ t \in TokenId
      BY <2>1, <2>3, <2>4 DEF FamilyOf, t
    <3>2. s # t /\ s \in TokenIds /\ Live(s) /\ tokens'[s].family = FamilyOf(s)
      BY <2>7, <2>9 DEF FamilyOf
    <3>3. FamilyOf(s) # FamilyOf(t)
      BY <1>t, <2>1, <3>2 DEF RefreshHoldsLive, t
    <3> QED
      BY <3>1, <3>2, <3>3
  <2>10. RefreshHoldsLive'
    <3> SUFFICES ASSUME NEW q \in Request, NEW s \in TokenId,
                        Refreshing(q)', s \in TokenIds', Live(s)',
                        FamilyOf(s)' = FamilyOf(requests[q].token)'
                 PROVE  FALSE
      BY DEF RefreshHoldsLive
    <3>1. q = r
      BY <2>5 DEF Refreshing
    <3>2. tokens'[s].family = tokens'[t].family
      BY <2>6, <3>1 DEF FamilyOf
    <3> QED
      BY <2>9, <3>2
  <2> QED
    BY <2>8, <2>10
<1>5. ASSUME NEW r \in Request, NEW t \in TokenId, IssueNext(r, t)
      PROVE  Goal
  <2>1. /\ Refreshing(r) /\ requests[r].pc = "rotated"
        /\ requests[r].token \in TokenId /\ tokens[requests[r].token] # NoToken
    BY <1>5, RefreshHoldsToken DEF IssueNext, Refreshing
  <2> DEFINE f == FamilyOf(requests[r].token)
             row == [user |-> requests[r].user, family |-> f,
                     revoked |-> FALSE, expired |-> FALSE]
  <2>2. \A s \in TokenId : tokens'[s] = IF s = t THEN row ELSE tokens[s]
    BY <1>5, <1>t DEF IssueNext
  <2>3. row.family = f
    OBVIOUS
  <2>4. \A s \in TokenIds : Live(s) => FamilyOf(s) # f
    BY <1>t, <2>1 DEF RefreshHoldsLive, TokenIds
  <2>5. \A q \in Request : ~Refreshing(q)'
    BY <1>5, <1>t, <1>o, <2>1 DEF IssueNext, Refreshing, NoRequest
  <2> HIDE DEF f, row
  <2>6. \A s \in TokenIds' : s = t \/ (s \in TokenIds /\ tokens'[s] = tokens[s])
    BY <2>2 DEF TokenIds
  <2>7. OneLive'
    <3> SUFFICES ASSUME NEW s \in TokenIds', NEW q \in TokenIds',
                        Live(s)', Live(q)', FamilyOf(s)' = FamilyOf(q)', s # q
                 PROVE  FALSE
      BY DEF OneLive
    <3>1. \A x \in TokenIds' : Live(x)' /\ x # t =>
            x \in TokenIds /\ Live(x) /\ FamilyOf(x)' = FamilyOf(x)
      BY <2>6 DEF Live, FamilyOf
    <3>2. FamilyOf(t)' = f
      BY <2>2, <2>3 DEF FamilyOf
    <3> QED
      BY <1>t, <2>4, <3>1, <3>2 DEF OneLive, TokenIds
  <2>8. RefreshHoldsLive'
    BY <2>5 DEF RefreshHoldsLive
  <2> QED
    BY <2>7, <2>8
<1>6. ASSUME NEW t \in TokenId, TokenExpires(t)
      PROVE  Goal
  <2>1. \A s \in TokenId : tokens'[s] =
          IF s = t THEN [tokens[s] EXCEPT !.expired = TRUE] ELSE tokens[s]
    BY <1>6, <1>t DEF TokenExpires
  <2>2. tokens[t] # NoToken /\ UNCHANGED requests
    BY <1>6 DEF TokenExpires, TokenIds
  <2> QED
    BY <1>t, <2>1, <2>2, FewerLiveRows DEF Refreshing, RowAges
<1>7. ASSUME NEW r \in Request, FailLogin(r) \/ PassLogin(r) \/ RequestFails(r)
      PROVE  Goal
  <2>1. requests'[r].pc \in {"none", "opening"}
    <3>1. CASE PassLogin(r)
      <4>1. requests[r] \in Login
        BY <3>1, RequestKinds DEF PassLogin, IInv
      <4> QED
        BY <1>t, <3>1, <4>1 DEF PassLogin, Login
    <3> QED
      BY <1>t, <1>7, <3>1 DEF FailLogin, RequestFails, NoRequest
  <2>2. \A q \in Request : q # r => requests'[q] = requests[q]
    BY <1>t, <1>7 DEF FailLogin, PassLogin, RequestFails
  <2>3. UNCHANGED tokens
    BY <1>7 DEF FailLogin, PassLogin, RequestFails
  <2> QED
    BY <1>1, <2>1, <2>2, <2>3 DEF Refreshing
<1>8. ASSUME NEW r \in Request, NEW u \in User, NEW p \in Password, ReadUser(r, u, p)
      PROVE  Goal
  BY <1>t, <1>1, <1>8 DEF ReadUser, Refreshing
<1>9. CASE UNCHANGED <<tokens, requests>>
  BY <1>1, <1>9 DEF Refreshing
<1>10. ASSUME NEW r \in Request, LoginGoesOn(r) PROVE Goal
  BY <1>2, <1>7, <1>10 DEF LoginGoesOn
<1>11. ASSUME NEW r \in Request, RefreshArrives(r) PROVE Goal
  BY <1>t, <1>3, <1>11, RevokeFamilyKeeps DEF RefreshArrives, DetectReuse, PresentToken, TokenIds
<1>12. ASSUME NEW r \in Request, RefreshGoesOn(r) PROVE Goal
  BY <1>4, <1>5, <1>12 DEF RefreshGoesOn
<1>13. ASSUME NEW r \in Request, LogoutArrives(r) PROVE Goal
  <2>1. CASE UNCHANGED <<users, tokens, resetTokens, requests>>
    BY <1>9, <2>1
  <2>2. CASE Logout(calls[r].token)
    <3>1. RevokeFamily(FamilyOf(calls[r].token)) /\ UNCHANGED requests
      BY <2>2 DEF Logout
    <3> QED
      BY <1>t, <3>1, RevokeFamilyKeeps
  <2> QED
    BY <1>13, <2>1, <2>2 DEF LogoutArrives
<1>14. ASSUME NEW r \in Request, Deliver(r) \/ Lose(r) \/ Refused(r) PROVE Goal
  BY <1>9, <1>14 DEF Deliver, Lose, Refused
<1>15. ASSUME NEW r \in Request, NEW op \in {"login", "refresh", "logout"}, Send(r, op)
       PROVE  Goal
  BY <1>9, <1>15 DEF Send
<1>16. ASSUME NEW r \in Request, NEW u \in User, NEW p \in Password, LoginArrives(r, u, p)
       PROVE  Goal
  BY <1>8, <1>16 DEF LoginArrives
<1>17. ASSUME NEW r \in Request, CallFails(r) PROVE Goal
  BY <1>7, <1>17 DEF CallFails
<1>18. ASSUME Elsewhere PROVE Goal
  BY <1>6, <1>9, <1>18 DEF Elsewhere, SoftDeleteUser, LockEnds
<1>19. ASSUME UNCHANGED allVars PROVE Goal
  BY <1>9, <1>19 DEF allVars
<1> HIDE DEF Goal
<1>20. Goal
  BY <1>10, <1>11, <1>12, <1>13, <1>14, <1>15, <1>16, <1>17, <1>18, <1>19
  DEF BrowserNext
<1> QED
  BY <1>20 DEF Goal

\* Every step of the browser, the network or the server keeps the invariant.
LEMMA BrowserInvStep ==
  BrowserInv /\ IInv /\ [BrowserNext]_allVars => BrowserInv'
BY CallMoves, RefreshesMoves, LiveMoves DEF BrowserInv

\* It holds in every reachable state.
LEMMA BrowserInvHolds == BrowserSpec => []BrowserInv
<1>1. BrowserSpec => []IInv
  BY BrowserImplementsSessions, IInvHolds, PTL
<1> QED
  BY <1>1, InitBrowser, BrowserInvStep, PTL DEF BrowserSpec

\* Without overlapping refreshes a session never has two usable tokens, however
\* many calls, replies and writes of the server are lost.
THEOREM OneLiveTokenPerSessionHolds == BrowserSpec => []OneLiveTokenPerSession
<1>1. BrowserInv => OneLiveTokenPerSession
  BY DEF BrowserInv, OneLive, OneLiveTokenPerSession, TokenIds
<1> QED
  BY <1>1, BrowserInvHolds, PTL

-----------------------------------------------------------------------------
(* The inductive invariant for CookieIsCurrent.  A token is at large while   *)
(* the jar or a reply has it; the tokens at large are of different sessions. *)

\* No reason to take it for stolen, unless its session is over anyway.
Sound(t) == ~tokens[t].revoked \/ ClosedFamily(FamilyOf(t))

Brings(r) == calls[r].at = "reply" /\ calls[r].next # None

\* A refresh that has not yet revoked the token it was called with.
Unspent(r) == At(r, "network", "refresh") \/ requests[r].pc = "rotating"

\* The browser holds tokens that exist.
RowsInv ==
  /\ cookie # None => cookie \in TokenIds
  /\ \A r \in Request :
       /\ calls[r] # NoCall /\ calls[r].token # None => calls[r].token \in TokenIds
       /\ UnderWay(r, "refresh") => calls[r].token # None
       /\ Brings(r) => calls[r].next \in TokenIds

\* AuthService refreshes the token the call carried.
Served ==
  \A r \in Request :
    At(r, "server", "refresh") => Refreshing(r) /\ requests[r].token = calls[r].token

SoundInv ==
  /\ cookie # None => Sound(cookie) \/ Renewing(cookie)
  /\ \A r \in Request :
       /\ UnderWay(r, "refresh") /\ Unspent(r) => Sound(calls[r].token)
       /\ Brings(r) => Sound(calls[r].next)

\* Only a refresh has a token of the session the jar has one of.
Apart ==
  \A q, r \in Request :
    /\ /\ UnderWay(q, "refresh")
       /\ cookie # None
       /\ FamilyOf(cookie) = FamilyOf(calls[q].token)
       => cookie = calls[q].token
    /\ UnderWay(q, "refresh") /\ Brings(q)
         => FamilyOf(calls[q].next) = FamilyOf(calls[q].token)
    /\ UnderWay(q, "refresh") /\ Brings(r) /\ q # r
         => FamilyOf(calls[r].next) # FamilyOf(calls[q].token)
    /\ Brings(r) /\ ~UnderWay(r, "refresh") /\ cookie # None
         => FamilyOf(calls[r].next) # FamilyOf(cookie)
    /\ Brings(q) /\ Brings(r) /\ q # r
         /\ ~UnderWay(q, "refresh") /\ ~UnderWay(r, "refresh")
         => FamilyOf(calls[q].next) # FamilyOf(calls[r].next)

JarInv == RowsInv /\ Served /\ (mishap = "none" => SoundInv /\ Apart)

\* The jar is empty at the beginning.
LEMMA InitJar == BrowserInit => JarInv
BY DEF BrowserInit, Init, JarInv, RowsInv, Served, SoundInv, Apart, UnderWay, At,
       Brings, Unspent, NoCall, NoRequest, Refreshing

\* What becomes of a call that goes to the server, and of one that is answered.
LEMMA CallServed ==
  ASSUME BrowserInv, NEW r \in Request,
         calls[r].at = "network", calls' = [calls EXCEPT ![r].at = "server"]
  PROVE  /\ calls[r] # NoCall /\ calls'[r] # NoCall
         /\ calls'[r].at = "server"
         /\ calls'[r].op = calls[r].op /\ calls'[r].token = calls[r].token
         /\ \A q \in Request : q # r => calls'[q] = calls[q]
<1>1. calls[r] # NoCall /\ calls[r] \in Call
  BY DEF BrowserInv, CallsType, NoCall
<1>2. calls[r] \in [at : {"network", "server"}, op : {"login", "refresh", "logout"},
                    token : TokenId \cup {None}]
  BY <1>1 DEF Call
<1>3. calls'[r] = [calls[r] EXCEPT !.at = "server"]
  BY DEF BrowserInv, CallsType
<1>4. \A q \in Request : q # r => calls'[q] = calls[q]
  BY DEF BrowserInv, CallsType
<1>5. calls'[r].at = "server"
  BY <1>2, <1>3
<1> QED
  BY <1>1, <1>2, <1>3, <1>4, <1>5 DEF NoCall

\* An answer changes one call, which then waits to be delivered.
LEMMA CallAnswered ==
  ASSUME BrowserInv, NEW r \in Request, NEW next, Answer(r, next)
  PROVE  /\ calls'[r] # NoCall
         /\ calls'[r].at = "reply" /\ calls'[r].next = next
         /\ calls'[r].op = calls[r].op /\ calls'[r].token = calls[r].token
         /\ \A q \in Request : q # r => calls'[q] = calls[q]
BY DEF Answer, BrowserInv, CallsType, NoCall

\* A refusal ends one call.
LEMMA CallEnds ==
  ASSUME BrowserInv, NEW r \in Request, Refuse(r)
  PROVE  /\ calls'[r] = NoCall
         /\ \A q \in Request : q # r => calls'[q] = calls[q]
BY DEF Refuse, BrowserInv, CallsType

-----------------------------------------------------------------------------
(* Tokens. *)

\* Tokens are kept, in their families.
FamiliesStay ==
  /\ TokenIds \subseteq TokenIds'
  /\ \A t \in TokenIds : FamilyOf(t)' = FamilyOf(t)

\* Revocation and expiry keep them, and no other token loses what makes it sound.
LEMMA RowsAge ==
  ASSUME IInv,
         \A t \in TokenId : RowAges(t)
  PROVE  /\ FamiliesStay
         /\ TokenIds' = TokenIds
         /\ \A t \in TokenIds : tokens[t].revoked => tokens'[t].revoked
         /\ \A t \in TokenIds :
              Sound(t) /\ (tokens'[t].revoked => tokens[t].revoked) => Sound(t)'
<1>1. \A t \in TokenId : RowStays(t)
  BY RowsStay
<1>2. TokenIds' = TokenIds
  BY <1>1 DEF TokenIds, RowStays
<1>3. \A t \in TokenIds : FamilyOf(t)' = FamilyOf(t)
  BY <1>1 DEF TokenIds, FamilyOf, RowStays
<1>4. \A t \in TokenIds : tokens[t].revoked => tokens'[t].revoked
  BY <1>1 DEF TokenIds, RowStays
<1>5. \A f : ClosedFamily(f) => ClosedFamily(f)'
  BY <1>2, <1>3, <1>4 DEF ClosedFamily
<1>6. \A t \in TokenIds : Sound(t) /\ (tokens'[t].revoked => tokens[t].revoked) => Sound(t)'
  BY <1>3, <1>5 DEF Sound
<1> QED
  BY <1>2, <1>3, <1>4, <1>6 DEF FamiliesStay

\* Logout and the detection of a reuse leave every token sound that was.
LEMMA FamilyRevoked ==
  ASSUME IInv, NEW f, RevokeFamily(f)
  PROVE  /\ FamiliesStay
         /\ \A t \in TokenIds : Sound(t) => Sound(t)'
<1>1. \A t \in TokenId :
        \/ tokens'[t] = tokens[t]
        \/ tokens[t] # NoToken /\ tokens'[t] = [tokens[t] EXCEPT !.revoked = TRUE]
  BY DEF RevokeFamily, TokenIds
<1>2. /\ FamiliesStay /\ TokenIds' = TokenIds
      /\ \A t \in TokenIds :
           Sound(t) /\ (tokens'[t].revoked => tokens[t].revoked) => Sound(t)'
  BY <1>1, RowsAge DEF RowAges
<1>3. \A t \in TokenIds : FamilyOf(t) = f => tokens'[t].revoked
  <2> TAKE t \in TokenIds
  <2>1. tokens[t] \in Token
    BY TokenRow DEF TokenIds
  <2> QED
    BY <2>1 DEF RevokeFamily, TokenIds, Token
<1>4. ClosedFamily(f)'
  BY <1>2, <1>3 DEF ClosedFamily, FamiliesStay
<1>5. \A t \in TokenIds : FamilyOf(t) # f => tokens'[t] = tokens[t]
  BY DEF RevokeFamily, TokenIds
<1>6. ASSUME NEW t \in TokenIds, Sound(t) PROVE Sound(t)'
  <2>1. CASE FamilyOf(t) = f
    BY <1>2, <1>4, <2>1 DEF Sound, FamiliesStay
  <2>2. CASE FamilyOf(t) # f
    BY <1>2, <1>5, <1>6, <2>2
  <2> QED
    BY <2>1, <2>2
<1> QED
  BY <1>2, <1>6

\* What logout, the detection of a reuse and time do to the tokens.
LEMMA TokensAge ==
  ASSUME IInv,
         \/ UNCHANGED tokens
         \/ \E f : RevokeFamily(f)
         \/ \E t \in TokenId : TokenExpires(t)
  PROVE  FamiliesStay /\ \A t \in TokenIds : Sound(t) => Sound(t)'
<1>1. CASE UNCHANGED tokens
  BY <1>1 DEF FamiliesStay, TokenIds, FamilyOf, Sound, ClosedFamily
<1>2. ASSUME NEW t \in TokenId, TokenExpires(t)
      PROVE  FamiliesStay /\ \A s \in TokenIds : Sound(s) => Sound(s)'
  <2>1. \A s \in TokenId :
          \/ tokens'[s] = tokens[s]
          \/ tokens[s] # NoToken /\ tokens'[s] = [tokens[s] EXCEPT !.expired = TRUE]
    BY <1>2 DEF TokenExpires, TokenIds, IInv, TypeOK
  <2>2. \A s \in TokenIds : tokens'[s].revoked => tokens[s].revoked
    <3> TAKE s \in TokenIds
    <3>1. tokens[s] \in Token
      BY TokenRow DEF TokenIds
    <3> QED
      BY <2>1, <3>1 DEF Token, TokenIds
  <2> QED
    BY <2>1, <2>2, RowsAge DEF RowAges
<1> QED
  BY <1>1, <1>2, FamilyRevoked

\* A new token is sound, and the tokens of other families are as they were.
LEMMA TokenInserted ==
  ASSUME IInv, NEW t \in TokenId, NEW row \in Token, tokens[t] = NoToken,
         ~row.revoked, tokens' = [tokens EXCEPT ![t] = row]
  PROVE  /\ FamiliesStay
         /\ t \in TokenIds' /\ t \notin TokenIds
         /\ FamilyOf(t)' = row.family
         /\ Sound(t)'
         /\ \A s \in TokenIds : FamilyOf(s) # t
         /\ \A s \in TokenIds : Sound(s) /\ FamilyOf(s) # row.family => Sound(s)'
<1>1. tokens \in [TokenId -> Token \cup {NoToken}]
  BY DEF IInv, TypeOK
<1>2. \A s \in TokenId : tokens'[s] = IF s = t THEN row ELSE tokens[s]
  BY <1>1
<1>3. row # NoToken
  BY TokenUpdates
<1>4. \A s \in TokenIds : s # t /\ tokens'[s] = tokens[s] /\ s \in TokenIds'
  BY <1>2 DEF TokenIds
<1>5. t \in TokenIds' /\ t \notin TokenIds /\ tokens'[t] = row
  BY <1>2, <1>3 DEF TokenIds
<1>6. \A s \in TokenIds' : s = t \/ s \in TokenIds
  BY <1>2 DEF TokenIds
<1>7. \A s \in TokenIds : FamilyOf(s) # t
  BY TokenRow DEF TokenIds
<1>8. FamiliesStay
  BY <1>4 DEF FamiliesStay, FamilyOf
<1>9. FamilyOf(t)' = row.family /\ Sound(t)'
  BY <1>5 DEF FamilyOf, Sound
<1>10. ASSUME NEW s \in TokenIds, Sound(s), FamilyOf(s) # row.family PROVE Sound(s)'
  <2>1. CASE ~tokens[s].revoked
    BY <1>4, <2>1 DEF Sound
  <2>2. CASE ClosedFamily(FamilyOf(s))
    <3>1. \A x \in TokenIds' : FamilyOf(x)' = FamilyOf(s) => x \in TokenIds
      BY <1>6, <1>9, <1>10
    <3>2. \A x \in TokenIds' : FamilyOf(x)' = FamilyOf(s) => tokens'[x].revoked
      BY <1>4, <1>8, <2>2, <3>1 DEF ClosedFamily, FamiliesStay
    <3>3. ClosedFamily(FamilyOf(s))'
      BY <1>8, <3>2 DEF ClosedFamily, FamiliesStay
    <3> QED
      BY <3>3 DEF Sound
  <2> QED
    BY <1>10, <2>1, <2>2 DEF Sound
<1> QED
  BY <1>5, <1>7, <1>8, <1>9, <1>10

-----------------------------------------------------------------------------
(* Steps. *)

\* Calls go on or end, and no token changes hands.
LEMMA NothingNew ==
  ASSUME JarInv, mishap = "none", UNCHANGED cookie,
         FamiliesStay,
         \A t \in TokenIds : Sound(t) => Sound(t)',
         \A q \in Request : UnderWay(q, "refresh")' =>
           /\ UnderWay(q, "refresh")
           /\ calls'[q].token = calls[q].token
           /\ Unspent(q)' => Unspent(q),
         \A q \in Request : Brings(q)' =>
           /\ Brings(q) /\ calls'[q].next = calls[q].next
           /\ UnderWay(q, "refresh") => UnderWay(q, "refresh")',
         \A q \in Request : UnderWay(q, "refresh") =>
           UnderWay(q, "refresh")' \/ Sound(calls[q].token)
  PROVE  SoundInv' /\ Apart'
<1>t. /\ SoundInv /\ Apart
      /\ cookie # None => cookie \in TokenIds
      /\ \A q \in Request : UnderWay(q, "refresh") => calls[q].token \in TokenIds
      /\ \A q \in Request : Brings(q) => calls[q].next \in TokenIds
  BY DEF JarInv, RowsInv, UnderWay
<1>1. cookie' # None => Sound(cookie)' \/ Renewing(cookie)'
  BY <1>t DEF SoundInv, Renewing
<1>2. SoundInv'
  BY <1>1, <1>t DEF SoundInv
<1>3. Apart'
  BY <1>t DEF Apart, FamiliesStay
<1> QED
  BY <1>2, <1>3

\* A tab refreshes with the jar's token: no other refresh is under way.
LEMMA JarSend ==
  ASSUME BrowserInv, JarInv, NEW r \in Request,
         NEW op \in {"login", "refresh", "logout"}, Send(r, op), mishap' = "none"
  PROVE  SoundInv' /\ Apart'
<1>1. /\ calls[r] = NoCall /\ UNCHANGED <<cookie, tokens, requests>>
      /\ op = "refresh" => cookie # None /\ \A q \in Request : ~UnderWay(q, "refresh")
      /\ mishap = "none"
  BY DEF Send
<1>2. /\ calls'[r].at = "network" /\ calls'[r].op = op
      /\ op = "refresh" => calls'[r].token = cookie
      /\ \A q \in Request : q # r => calls'[q] = calls[q]
  BY DEF Send, BrowserInv, CallsType
<1>3. /\ UnderWay(r, "refresh")' <=> op = "refresh"
      /\ ~UnderWay(r, "refresh") /\ ~Brings(r) /\ ~Brings(r)'
      /\ \A q \in Request : q # r =>
           /\ UnderWay(q, "refresh")' <=> UnderWay(q, "refresh")
           /\ Brings(q)' <=> Brings(q)
           /\ calls'[q] = calls[q]
           /\ Unspent(q)' <=> Unspent(q)
  BY <1>1, <1>2 DEF UnderWay, Brings, NoCall, Unspent, At
<1>4. /\ SoundInv /\ Apart
      /\ \A t : Sound(t)' <=> Sound(t)
      /\ \A t : FamilyOf(t)' = FamilyOf(t)
  BY <1>1 DEF JarInv, Sound, ClosedFamily, TokenIds, FamilyOf
<1>5. Renewing(cookie) => Renewing(cookie)'
  BY <1>1, <1>3 DEF Renewing
<1>6. op = "refresh" => Sound(cookie)
  BY <1>1, <1>4 DEF SoundInv, Renewing
<1>7. SoundInv'
  BY <1>1, <1>2, <1>3, <1>4, <1>5, <1>6 DEF SoundInv
<1>8. Apart'
  BY <1>1, <1>2, <1>3, <1>4 DEF Apart
<1> QED
  BY <1>7, <1>8

\* The jar takes what a reply brings.
LEMMA JarDeliver ==
  ASSUME BrowserInv, JarInv, NEW r \in Request, Deliver(r), mishap' = "none"
  PROVE  SoundInv' /\ Apart'
<1>1. /\ calls[r].at = "reply" /\ cookie' = calls[r].next
      /\ UNCHANGED <<tokens, requests>> /\ mishap = "none"
      /\ calls'[r] = NoCall
      /\ \A q \in Request : q # r => calls'[q] = calls[q]
  BY CallEnds DEF Deliver
<1>2. /\ ~UnderWay(r, "refresh")' /\ ~Brings(r)'
      /\ Brings(r) <=> cookie' # None
      /\ \A q \in Request : q # r =>
           /\ UnderWay(q, "refresh")' <=> UnderWay(q, "refresh")
           /\ Brings(q)' <=> Brings(q)
           /\ calls'[q] = calls[q]
           /\ Unspent(q)' <=> Unspent(q)
  BY <1>1 DEF UnderWay, Brings, NoCall, Unspent, At
<1>3. /\ SoundInv /\ Apart /\ OneRefresh
      /\ \A t : Sound(t)' <=> Sound(t)
      /\ \A t : FamilyOf(t)' = FamilyOf(t)
  BY <1>1 DEF JarInv, BrowserInv, Sound, ClosedFamily, TokenIds, FamilyOf
<1>4. cookie' # None => Sound(cookie)'
  BY <1>1, <1>2, <1>3 DEF SoundInv
<1>5. SoundInv'
  BY <1>2, <1>3, <1>4 DEF SoundInv
<1>6. CASE UnderWay(r, "refresh")
  <2>1. \A q \in Request : ~UnderWay(q, "refresh")'
    BY <1>2, <1>3, <1>6 DEF OneRefresh
  <2>2. ASSUME NEW q \in Request, Brings(q)', cookie' # None
        PROVE  FamilyOf(calls[q].next) # FamilyOf(calls[r].next)
    BY <1>2, <1>3, <1>6, <2>2 DEF Apart
  <2>3. Apart'
    BY <1>1, <1>2, <1>3, <2>1, <2>2 DEF Apart
  <2> QED
    BY <1>5, <2>3
<1>7. CASE ~UnderWay(r, "refresh")
  BY <1>1, <1>2, <1>3, <1>5, <1>7 DEF Apart
<1> QED
  BY <1>6, <1>7

\* The token a refresh was called with stays in the jar as long as the refresh
\* is under way, or is not in it.
LEMMA JarRevoke ==
  ASSUME BrowserInv, IInv, JarInv, NEW r \in Request, At(r, "server", "refresh"),
         RevokePresented(r), UNCHANGED <<cookie, calls>>, mishap = "none"
  PROVE  SoundInv' /\ Apart'
<1> DEFINE a == requests[r].token
<1>1. /\ Refreshing(r) /\ a \in TokenId /\ a \in TokenIds /\ requests[r] \in Refresh
      /\ a = calls[r].token
      /\ UnderWay(r, "refresh") /\ ~Brings(r)
  BY RefreshHoldsToken
  DEF JarInv, Served, TokenIds, RevokePresented, Refreshing, At, UnderWay, NoCall, Brings
<1>2. requests'[r].pc = "rotated" /\ \A q \in Request : q # r => requests'[q] = requests[q]
  BY <1>1 DEF RevokePresented, IInv, TypeOK, Refresh
<1>3. \A t \in TokenId : tokens'[t] =
        IF t = a THEN [tokens[t] EXCEPT !.revoked = TRUE] ELSE tokens[t]
  BY <1>1 DEF RevokePresented, IInv, TypeOK
<1>4. \A t \in TokenId :
        \/ tokens'[t] = tokens[t]
        \/ tokens[t] # NoToken /\ tokens'[t] = [tokens[t] EXCEPT !.revoked = TRUE]
  BY <1>1, <1>3 DEF TokenIds
<1>5. FamiliesStay /\ \A t \in TokenIds : Sound(t) /\ t # a => Sound(t)'
  <2>1. \A t \in TokenIds : t # a => tokens'[t] = tokens[t]
    BY <1>3 DEF TokenIds
  <2> QED
    BY <1>4, <2>1, RowsAge DEF RowAges
<1> HIDE DEF a
<1>6. /\ SoundInv /\ Apart /\ OneRefresh
      /\ cookie # None => cookie \in TokenIds
      /\ \A q \in Request : UnderWay(q, "refresh") => calls[q].token \in TokenIds
      /\ \A q \in Request : Brings(q) => calls[q].next \in TokenIds
  BY DEF JarInv, RowsInv, UnderWay, BrowserInv
<1>7. \A q \in Request :
        /\ UnderWay(q, "refresh")' <=> UnderWay(q, "refresh")
        /\ Brings(q)' <=> Brings(q)
  BY DEF UnderWay, Brings
<1>8. \A q \in Request : Brings(q) => calls[q].next # a
  BY <1>1, <1>6 DEF Apart
<1>9. ~Unspent(r)'
  BY <1>2 DEF Unspent, At, RevokePresented
<1>10. \A q \in Request : UnderWay(q, "refresh") => q = r
  BY <1>1, <1>6 DEF OneRefresh
<1>11. cookie # None => Sound(cookie)' \/ Renewing(cookie)'
  BY <1>1, <1>5, <1>6, <1>7 DEF SoundInv, Renewing
<1>12. SoundInv'
  BY <1>5, <1>6, <1>7, <1>8, <1>9, <1>10, <1>11 DEF SoundInv
<1>13. Apart'
  BY <1>5, <1>6, <1>7 DEF Apart, FamiliesStay
<1> QED
  BY <1>12, <1>13

\* login answers with a token of a session of its own.
LEMMA JarOpen ==
  ASSUME BrowserInv, IInv, JarInv, NEW r \in Request, NEW t \in TokenId,
         At(r, "server", "login"), OpenSession(r, t), Answer(r, t),
         UNCHANGED cookie, mishap = "none"
  PROVE  SoundInv' /\ Apart'
<1> DEFINE row == [user |-> requests[r].user, family |-> t,
                   revoked |-> FALSE, expired |-> FALSE]
<1>1. row \in Token /\ ~row.revoked /\ row.family = t
  BY RequestKinds DEF OpenSession, IInv, Login, Token
<1>2. /\ FamiliesStay /\ FamilyOf(t)' = t /\ Sound(t)'
      /\ \A s \in TokenIds : FamilyOf(s) # t /\ (Sound(s) => Sound(s)')
  BY <1>1, TokenInserted DEF OpenSession
<1>3. \A q \in Request :
        /\ UnderWay(q, "refresh")' <=> UnderWay(q, "refresh")
        /\ UnderWay(q, "refresh") => q # r
        /\ q # r => /\ Brings(q)' <=> Brings(q)
                    /\ calls'[q] = calls[q]
                    /\ Unspent(q)' => Unspent(q)
  BY CallAnswered DEF OpenSession, IInv, TypeOK, At, UnderWay, Brings, Unspent
<1>4. calls'[r].next = t
  BY CallAnswered
<1>5. /\ SoundInv /\ Apart
      /\ cookie # None => cookie \in TokenIds
      /\ \A q \in Request : UnderWay(q, "refresh") => calls[q].token \in TokenIds
      /\ \A q \in Request : Brings(q) => calls[q].next \in TokenIds
  BY DEF JarInv, RowsInv, UnderWay
<1>6. cookie # None => Sound(cookie)' \/ Renewing(cookie)'
  BY <1>2, <1>3, <1>5 DEF SoundInv, Renewing
<1>7. SoundInv'
  BY <1>2, <1>3, <1>4, <1>5, <1>6 DEF SoundInv
<1>8. Apart'
  BY <1>2, <1>3, <1>4, <1>5 DEF Apart, FamiliesStay
<1> QED
  BY <1>7, <1>8

\* refresh answers with the next token of a session of which nothing else is at
\* large but the token it was called with.
LEMMA JarIssue ==
  ASSUME BrowserInv, IInv, JarInv, NEW r \in Request, NEW t \in TokenId,
         At(r, "server", "refresh"), IssueNext(r, t), Answer(r, t),
         UNCHANGED cookie, mishap = "none"
  PROVE  SoundInv' /\ Apart'
<1> DEFINE f == FamilyOf(requests[r].token)
           row == [user |-> requests[r].user, family |-> f,
                   revoked |-> FALSE, expired |-> FALSE]
<1>1. /\ Refreshing(r) /\ requests[r].token \in TokenIds
      /\ requests[r].token = calls[r].token
      /\ requests[r] \in Refresh
      /\ UnderWay(r, "refresh") /\ ~Brings(r)
  BY RefreshHoldsToken
  DEF JarInv, Served, TokenIds, IssueNext, Refreshing, At, UnderWay, NoCall, Brings
<1>2. row \in Token /\ ~row.revoked /\ row.family = f
  BY <1>1, TokenRow DEF Refresh, Token, TokenIds
<1>3. /\ FamiliesStay /\ FamilyOf(t)' = f /\ Sound(t)'
      /\ \A s \in TokenIds : Sound(s) /\ FamilyOf(s) # f => Sound(s)'
  BY <1>2, TokenInserted DEF IssueNext
<1>4. f = FamilyOf(calls[r].token)
  BY <1>1
<1> HIDE DEF f, row
<1>5. /\ calls'[r].next = t /\ calls'[r].token = calls[r].token
      /\ UnderWay(r, "refresh")' /\ ~Unspent(r)'
      /\ \A q \in Request : q # r =>
           /\ calls'[q] = calls[q]
           /\ Brings(q)' <=> Brings(q)
           /\ UnderWay(q, "refresh")' <=> UnderWay(q, "refresh")
  BY <1>1, CallAnswered
  DEF IssueNext, IInv, TypeOK, At, UnderWay, Brings, Unspent, NoRequest
<1>6. /\ SoundInv /\ Apart /\ OneRefresh
      /\ cookie # None => cookie \in TokenIds
      /\ \A q \in Request : UnderWay(q, "refresh") => calls[q].token \in TokenIds
      /\ \A q \in Request : Brings(q) => calls[q].next \in TokenIds
  BY DEF JarInv, RowsInv, UnderWay, BrowserInv
<1>7. \A q \in Request : UnderWay(q, "refresh") => q = r
  BY <1>1, <1>6 DEF OneRefresh
<1>8. \A q \in Request : Brings(q) => FamilyOf(calls[q].next) # f
  BY <1>1, <1>4, <1>6 DEF Apart
<1>9. cookie # None => Sound(cookie)' \/ Renewing(cookie)'
  <2>1. CASE cookie = calls[r].token
    BY <1>5, <2>1 DEF Renewing
  <2>2. CASE cookie # calls[r].token
    <3>1. cookie # None => FamilyOf(cookie) # f
      BY <1>1, <1>4, <1>6, <2>2 DEF Apart
    <3>2. ~Renewing(cookie)
      BY <1>7, <2>2 DEF Renewing
    <3> QED
      BY <1>3, <1>6, <3>1, <3>2 DEF SoundInv
  <2> QED
    BY <2>1, <2>2
<1>10. SoundInv'
  BY <1>3, <1>5, <1>6, <1>7, <1>8, <1>9 DEF SoundInv
<1>11. Apart'
  BY <1>1, <1>3, <1>4, <1>5, <1>6, <1>7, <1>8 DEF Apart, FamiliesStay
<1> QED
  BY <1>10, <1>11

\* SoundInv and Apart, in every step before a mishap.
LEMMA JarMoves ==
  ASSUME BrowserInv, IInv, JarInv, [BrowserNext]_allVars, mishap' = "none"
  PROVE  SoundInv' /\ Apart'
<1> DEFINE Goal == SoundInv' /\ Apart'
<1>t. /\ requests \in [Request -> Login \cup Refresh \cup Forgot \cup Reset \cup {NoRequest}]
      /\ calls \in [Request -> Call \cup {NoCall}]
      /\ Refreshes
  BY DEF BrowserInv, CallsType, IInv, TypeOK
\* The call of r goes on or ends, and tokens are at most revoked or expire.
<1>1. ASSUME NEW r \in Request, mishap = "none", UNCHANGED cookie,
             \/ UNCHANGED tokens
             \/ \E f : RevokeFamily(f)
             \/ \E t \in TokenId : TokenExpires(t),
             \A q \in Request : q # r =>
               calls'[q] = calls[q] /\ (requests'[q].pc = "rotating" => requests[q].pc = "rotating"),
             ~Brings(r)',
             UnderWay(r, "refresh")' =>
               /\ UnderWay(r, "refresh")
               /\ calls'[r].token = calls[r].token
               /\ Unspent(r)' => Unspent(r),
             UnderWay(r, "refresh") /\ ~UnderWay(r, "refresh")' => Unspent(r)
      PROVE  Goal
  <2>1. FamiliesStay /\ \A t \in TokenIds : Sound(t) => Sound(t)'
    BY <1>1, TokensAge
  <2>2. \A q \in Request : q # r =>
          /\ UnderWay(q, "refresh")' <=> UnderWay(q, "refresh")
          /\ Brings(q)' <=> Brings(q)
          /\ Unspent(q)' => Unspent(q)
    BY <1>1 DEF UnderWay, Brings, Unspent, At
  <2>3. UnderWay(r, "refresh") => UnderWay(r, "refresh")' \/ Sound(calls[r].token)
    BY <1>1 DEF JarInv, SoundInv
  <2>4. \A q \in Request : Brings(q)' => q # r
    BY <1>1
  <2> QED
    BY <1>1, <2>1, <2>2, <2>3, <2>4, NothingNew
<1>2. ASSUME NEW r \in Request, Lose(r) PROVE Goal
  <2>1. /\ UNCHANGED <<cookie, tokens, requests>> /\ Refuse(r)
        /\ calls[r].at \in {"network", "reply"} /\ mishap = "none"
        /\ ~At(r, "reply", "refresh")
    BY <1>2 DEF Lose, TokenLost
  <2>2. ~Brings(r)' /\ ~UnderWay(r, "refresh")' /\ (UnderWay(r, "refresh") => Unspent(r))
    BY <2>1, CallEnds DEF Brings, UnderWay, NoCall, Unspent, At
  <2> QED
    BY <1>1, <2>1, <2>2, CallEnds
<1>3. ASSUME NEW r \in Request, calls[r].at = "network", Refuse(r),
             UNCHANGED <<cookie, requests, mishap>>,
             UNCHANGED tokens \/ \E f : RevokeFamily(f)
      PROVE  Goal
  <2>1. ~Brings(r)' /\ ~UnderWay(r, "refresh")' /\ (UnderWay(r, "refresh") => Unspent(r))
    BY <1>3, CallEnds DEF Brings, UnderWay, NoCall, Unspent, At
  <2> QED
    BY <1>1, <1>3, <2>1, CallEnds
<1>4. ASSUME NEW r \in Request, calls[r].at = "network",
             calls' = [calls EXCEPT ![r].at = "server"],
             UNCHANGED <<cookie, tokens, mishap>>,
             \A q \in Request : q # r => requests'[q] = requests[q]
      PROVE  Goal
  <2>1. /\ ~Brings(r)' /\ (UnderWay(r, "refresh")' <=> UnderWay(r, "refresh"))
        /\ UnderWay(r, "refresh") => Unspent(r)
    BY <1>4, CallServed DEF Brings, UnderWay, Unspent, At
  <2> QED
    BY <1>1, <1>4, <2>1, CallServed
\* A call in the server that is not a refresh.
<1>5. ASSUME NEW r \in Request, At(r, "server", "login"),
             UNCHANGED <<cookie, tokens, mishap>>,
             UNCHANGED calls \/ Refuse(r),
             \A q \in Request : q # r => requests'[q] = requests[q]
      PROVE  Goal
  <2>1. ~Brings(r)' /\ ~UnderWay(r, "refresh") /\ ~UnderWay(r, "refresh")'
    BY <1>5, CallEnds DEF Brings, UnderWay, NoCall, At
  <2> QED
    BY <1>1, <1>5, <2>1, CallEnds
<1>6. ASSUME NEW r \in Request, LoginGoesOn(r) PROVE Goal
  <2>1. ASSUME NEW t \in TokenId, OpenSession(r, t), Answer(r, t) PROVE Goal
    BY <1>6, <2>1, JarOpen DEF LoginGoesOn
  <2>2. ASSUME FailLogin(r) \/ PassLogin(r) PROVE Goal
    <3>1. UNCHANGED tokens /\ \A q \in Request : q # r => requests'[q] = requests[q]
      BY <1>t, <2>2 DEF FailLogin, PassLogin
    <3>2. UNCHANGED calls \/ Refuse(r)
      BY <1>6, <2>2 DEF LoginGoesOn, FailLogin, PassLogin, OpenSession
    <3> QED
      BY <1>5, <1>6, <3>1, <3>2 DEF LoginGoesOn
  <2> QED
    BY <1>6, <2>1, <2>2 DEF LoginGoesOn
<1>7. ASSUME NEW r \in Request, RefreshArrives(r) PROVE Goal
  <2>1. CASE PresentToken(r, calls[r].token) /\ calls' = [calls EXCEPT ![r].at = "server"]
    BY <1>4, <1>7, <1>t, <2>1 DEF RefreshArrives, PresentToken, At
  <2>2. CASE DetectReuse(calls[r].token) /\ Refuse(r)
    BY <1>3, <1>7, <2>2 DEF RefreshArrives, DetectReuse, At
  <2> QED
    BY <1>7, <2>1, <2>2 DEF RefreshArrives
<1>8. ASSUME NEW r \in Request, RefreshGoesOn(r) PROVE Goal
  BY <1>8, JarRevoke, JarIssue DEF RefreshGoesOn
<1>9. ASSUME NEW r \in Request, LogoutArrives(r) PROVE Goal
  <2>1. /\ UNCHANGED <<cookie, requests, mishap>> /\ Answer(r, None)
        /\ UNCHANGED tokens \/ \E f : RevokeFamily(f)
        /\ calls[r].op = "logout"
    BY <1>9 DEF LogoutArrives, Logout, At
  <2>2. ~Brings(r)' /\ ~UnderWay(r, "refresh") /\ ~UnderWay(r, "refresh")'
    BY <2>1, CallAnswered DEF Brings, UnderWay
  <2> QED
    BY <1>1, <2>1, <2>2, CallAnswered
<1>10. ASSUME NEW r \in Request, CallFails(r) PROVE Goal
  <2>1. /\ calls[r].at = "server" /\ Refuse(r) /\ UNCHANGED <<cookie, tokens>>
        /\ mishap = "none" /\ requests[r].pc # "rotated"
        /\ \A q \in Request : q # r => requests'[q] = requests[q]
    BY <1>10, <1>t DEF CallFails, RequestFails, TokenLost
  <2>2. UnderWay(r, "refresh") => Unspent(r)
    BY <2>1 DEF JarInv, Served, Refreshing, UnderWay, At, Unspent
  <2>3. ~Brings(r)' /\ ~UnderWay(r, "refresh")'
    BY <2>1, CallEnds DEF Brings, UnderWay, NoCall
  <2> QED
    BY <1>1, <2>1, <2>2, <2>3, CallEnds
<1>11. ASSUME NEW r \in Request, Refused(r) PROVE Goal
  BY <1>3, <1>11 DEF Refused
<1>12. ASSUME NEW r \in Request, NEW u \in User, NEW p \in Password, LoginArrives(r, u, p)
       PROVE  Goal
  BY <1>4, <1>12, <1>t DEF LoginArrives, ReadUser, At
<1>13. ASSUME UNCHANGED <<cookie, calls, requests, mishap>>,
              UNCHANGED tokens \/ \E t \in TokenId : TokenExpires(t)
       PROVE  Goal
  <2>1. \A q \in Request :
          /\ UnderWay(q, "refresh")' <=> UnderWay(q, "refresh")
          /\ Brings(q)' <=> Brings(q)
          /\ Unspent(q)' <=> Unspent(q)
    BY <1>13 DEF UnderWay, Brings, Unspent, At
  <2> QED
    BY <1>13, <2>1, TokensAge, NothingNew
<1>14. ASSUME NEW r \in Request, Deliver(r) PROVE Goal
  BY <1>14, JarDeliver
<1>15. ASSUME NEW r \in Request, NEW op \in {"login", "refresh", "logout"}, Send(r, op)
       PROVE  Goal
  BY <1>15, JarSend
<1> HIDE DEF Goal
<1>16. ASSUME Elsewhere, UNCHANGED browserVars PROVE Goal
  <2>1. ASSUME NEW t \in TokenId, TokenExpires(t) PROVE Goal
    <3>1. UNCHANGED requests
      BY <2>1 DEF TokenExpires
    <3> QED
      BY <1>13, <1>16, <2>1, <3>1 DEF browserVars
  <2>2. CASE UNCHANGED <<tokens, requests>>
    BY <1>13, <1>16, <2>2 DEF browserVars
  <2> QED
    BY <1>16, <2>1, <2>2 DEF Elsewhere, SoftDeleteUser, LockEnds
<1>17. ASSUME UNCHANGED allVars PROVE Goal
  BY <1>13, <1>17 DEF allVars
<1> HIDE DEF Goal
<1>18. Goal
  BY <1>2, <1>6, <1>7, <1>8, <1>9, <1>10, <1>11, <1>12, <1>14, <1>15, <1>16, <1>17
  DEF BrowserNext
<1> QED
  BY <1>18 DEF Goal

\* No step deletes a token.
LEMMA TokensStay ==
  ASSUME IInv, [Next]_vars
  PROVE  TokenIds \subseteq TokenIds'
<1> SUFFICES ASSUME NEW t \in TokenId, tokens[t] # NoToken PROVE tokens'[t] # NoToken
  BY DEF TokenIds
<1>1. tokens[t] \in Token /\ tokens \in [TokenId -> Token \cup {NoToken}]
  BY TokenRow DEF IInv, TypeOK
<1>2. ASSUME \/ tokens'[t] = tokens[t]
             \/ tokens'[t] = [tokens[t] EXCEPT !.revoked = TRUE]
             \/ tokens'[t] = [tokens[t] EXCEPT !.expired = TRUE]
      PROVE  tokens'[t] # NoToken
  BY <1>1, <1>2, TokenUpdates
<1>3. ASSUME NEW r \in Request, NEW s \in TokenId, OpenSession(r, s) \/ IssueNext(r, s)
      PROVE  tokens'[t] # NoToken
  <2>1. tokens'[t] = tokens[t]
    BY <1>1, <1>3 DEF OpenSession, IssueNext
  <2> QED
    BY <1>2, <2>1
<1>4. ASSUME NEW r \in Request, RevokePresented(r) PROVE tokens'[t] # NoToken
  BY <1>1, <1>2, <1>4 DEF RevokePresented
<1>5. ASSUME NEW r \in Request, CommitReset(r) PROVE tokens'[t] # NoToken
  BY <1>1, <1>2, <1>5 DEF CommitReset
<1>6. ASSUME NEW f, RevokeFamily(f) PROVE tokens'[t] # NoToken
  BY <1>1, <1>2, <1>6 DEF RevokeFamily
<1>7. ASSUME NEW s \in TokenId, TokenExpires(s) PROVE tokens'[t] # NoToken
  BY <1>1, <1>2, <1>7 DEF TokenExpires
<1>8. CASE UNCHANGED tokens
  BY <1>2, <1>8
<1> QED
  BY <1>3, <1>4, <1>5, <1>6, <1>7, <1>8
  DEF Next, vars, ReadUser, FailLogin, PassLogin, PresentToken, DetectReuse, Logout,
      ForgetPassword, IssueResetToken, PresentResetToken, SoftDeleteUser, LockEnds,
      ResetTokenExpires, RequestFails

\* The browser's tokens exist, in every step.
LEMMA RowsMoves ==
  ASSUME BrowserInv, IInv, RowsInv, [BrowserNext]_allVars
  PROVE  RowsInv'
<1>t. /\ calls \in [Request -> Call \cup {NoCall}]
      /\ tokens \in [TokenId -> Token \cup {NoToken}]
  BY DEF BrowserInv, CallsType, IInv, TypeOK
<1>1. TokenIds \subseteq TokenIds'
  <2>1. [Next]_vars
    BY BrowserStep
  <2> QED
    BY <2>1, TokensStay
\* Whatever the steps of a call are, it gets no token but an existing one.
<1>2. ASSUME NEW r \in Request,
             \A q \in Request : q # r => calls'[q] = calls[q],
             cookie' # None => cookie' \in TokenIds',
             calls'[r] # NoCall =>
               /\ calls'[r].token # None => calls'[r].token \in TokenIds'
               /\ calls'[r].op = "refresh" => calls'[r].token # None,
             Brings(r)' => calls'[r].next \in TokenIds'
      PROVE  RowsInv'
  BY <1>1, <1>2 DEF RowsInv, Brings, UnderWay
<1>3. ASSUME UNCHANGED <<cookie, calls>> PROVE RowsInv'
  BY <1>1, <1>3 DEF RowsInv, Brings, UnderWay
<1>4. ASSUME NEW r \in Request, Refuse(r), UNCHANGED cookie PROVE RowsInv'
  <2>1. ~Brings(r)'
    BY <1>4, CallEnds DEF Brings, NoCall
  <2> QED
    BY <1>1, <1>2, <1>4, <2>1, CallEnds DEF RowsInv
<1>5. ASSUME NEW r \in Request, calls[r].at = "network",
             calls' = [calls EXCEPT ![r].at = "server"], UNCHANGED cookie
      PROVE  RowsInv'
  <2>1. ~Brings(r)'
    BY <1>5, CallServed DEF Brings
  <2>2. cookie' # None => cookie' \in TokenIds'
    BY <1>1, <1>5 DEF RowsInv
  <2>3. /\ calls[r] # NoCall
        /\ calls'[r].op = calls[r].op
        /\ calls'[r].token = calls[r].token
        /\ \A q \in Request : q # r => calls'[q] = calls[q]
    BY <1>5, CallServed
  <2>4. /\ calls'[r].token # None => calls'[r].token \in TokenIds'
        /\ calls'[r].op = "refresh" => calls'[r].token # None
    BY <1>1, <2>3 DEF RowsInv, UnderWay
  <2> QED
    BY <1>2, <2>1, <2>2, <2>3, <2>4
<1>6. ASSUME NEW r \in Request, NEW next, Answer(r, next), UNCHANGED cookie,
             calls[r] # NoCall, next # None => next \in TokenIds'
      PROVE  RowsInv'
  <2>1. Brings(r)' => calls'[r].next \in TokenIds'
    BY <1>6, CallAnswered DEF Brings
  <2> QED
    BY <1>1, <1>2, <1>6, <2>1, CallAnswered DEF RowsInv, UnderWay
<1>7. ASSUME NEW r \in Request, NEW t \in TokenId, OpenSession(r, t) \/ IssueNext(r, t)
      PROVE  t \in TokenIds'
  <2>1. requests[r].user \in User
    BY <1>7, RequestKinds DEF OpenSession, IssueNext, IInv, NoRequest
  <2>2. tokens'[t].user = requests[r].user
    BY <1>7, <1>t DEF OpenSession, IssueNext
  <2> QED
    BY <2>1, <2>2, NoUserAssumption DEF TokenIds, NoToken
<1>8. ASSUME NEW r \in Request, Deliver(r) PROVE RowsInv'
  <2>1. ~Brings(r)' /\ cookie' = calls[r].next /\ calls[r].at = "reply"
    BY <1>8, CallEnds DEF Deliver, Brings, NoCall
  <2> QED
    BY <1>1, <1>2, <1>8, <2>1, CallEnds DEF RowsInv, Brings, Deliver
<1>9. ASSUME NEW r \in Request, NEW op \in {"login", "refresh", "logout"}, Send(r, op)
      PROVE  RowsInv'
  <2>1. /\ calls'[r].token \in {cookie, None} /\ calls'[r].op = op
        /\ calls'[r].at = "network"
        /\ op = "refresh" => calls'[r].token = cookie /\ cookie # None
        /\ \A q \in Request : q # r => calls'[q] = calls[q]
        /\ UNCHANGED cookie
    BY <1>9, <1>t DEF Send
  <2>2. ~Brings(r)'
    BY <2>1 DEF Brings
  <2> QED
    BY <1>1, <1>2, <2>1, <2>2 DEF RowsInv
<1>10. ASSUME NEW r \in Request, LoginGoesOn(r) PROVE RowsInv'
  <2>1. ASSUME NEW t \in TokenId, OpenSession(r, t), Answer(r, t) PROVE RowsInv'
    BY <1>6, <1>7, <1>10, <2>1 DEF LoginGoesOn, At, NoCall
  <2> QED
    BY <1>3, <1>4, <1>10, <2>1 DEF LoginGoesOn
<1>11. ASSUME NEW r \in Request, RefreshArrives(r) PROVE RowsInv'
  BY <1>4, <1>5, <1>11 DEF RefreshArrives, At
<1>12. ASSUME NEW r \in Request, RefreshGoesOn(r) PROVE RowsInv'
  <2>1. ASSUME NEW t \in TokenId, IssueNext(r, t), Answer(r, t) PROVE RowsInv'
    BY <1>6, <1>7, <1>12, <2>1 DEF RefreshGoesOn, At, NoCall
  <2> QED
    BY <1>3, <1>12, <2>1 DEF RefreshGoesOn
<1>13. ASSUME NEW r \in Request, LogoutArrives(r) PROVE RowsInv'
  BY <1>6, <1>13 DEF LogoutArrives, At, NoCall
<1>14. ASSUME NEW r \in Request, Lose(r) \/ Refused(r) \/ CallFails(r) PROVE RowsInv'
  BY <1>4, <1>14 DEF Lose, Refused, CallFails
<1>15. ASSUME NEW r \in Request, NEW u \in User, NEW p \in Password, LoginArrives(r, u, p)
       PROVE  RowsInv'
  BY <1>5, <1>15 DEF LoginArrives, At
<1> QED
  BY <1>3, <1>8, <1>9, <1>10, <1>11, <1>12, <1>13, <1>14, <1>15
  DEF BrowserNext, browserVars, allVars

\* A refresh in AuthService and the call it serves keep to one token.
LEMMA ServedMoves ==
  ASSUME BrowserInv, IInv, RowsInv, Served, [BrowserNext]_allVars
  PROVE  Served'
<1>t. /\ requests \in [Request -> Login \cup Refresh \cup Forgot \cup Reset \cup {NoRequest}]
      /\ calls \in [Request -> Call \cup {NoCall}]
  BY DEF BrowserInv, CallsType, IInv, TypeOK
<1>1. ASSUME NEW r \in Request,
             \A q \in Request : q # r => calls'[q] = calls[q] /\ requests'[q] = requests[q],
             At(r, "server", "refresh")' =>
               Refreshing(r)' /\ requests'[r].token = calls'[r].token
      PROVE  Served'
  BY <1>1 DEF Served, At, Refreshing
<1>2. ASSUME NEW r \in Request,
             \A q \in Request : q # r => calls'[q] = calls[q] /\ requests'[q] = requests[q],
             calls'[r].op # "refresh" \/ calls'[r].at # "server"
      PROVE  Served'
  BY <1>1, <1>2 DEF At
<1>3. ASSUME NEW r \in Request, Deliver(r) \/ Lose(r) \/ Refused(r) PROVE Served'
  BY <1>2, <1>3, CallEnds DEF Deliver, Lose, Refused, NoCall
<1>4. ASSUME NEW r \in Request, NEW op \in {"login", "refresh", "logout"}, Send(r, op)
      PROVE  Served'
  BY <1>2, <1>4, <1>t DEF Send
<1>5. ASSUME NEW r \in Request, NEW u \in User, NEW p \in Password, LoginArrives(r, u, p)
      PROVE  Served'
  BY <1>2, <1>5, <1>t, CallServed DEF LoginArrives, ReadUser, At
<1>6. ASSUME NEW r \in Request, LoginGoesOn(r) PROVE Served'
  <2>1. \A q \in Request : q # r => requests'[q] = requests[q]
    BY <1>6, <1>t DEF LoginGoesOn, FailLogin, PassLogin, OpenSession
  <2>2. /\ calls'[r].op # "refresh" \/ calls'[r].at # "server"
        /\ \A q \in Request : q # r => calls'[q] = calls[q]
    BY <1>6, CallEnds, CallAnswered DEF LoginGoesOn, At, NoCall
  <2> QED
    BY <1>2, <2>1, <2>2
<1>7. ASSUME NEW r \in Request, RefreshArrives(r) PROVE Served'
  <2>1. CASE DetectReuse(calls[r].token) /\ Refuse(r)
    BY <1>2, <2>1, CallEnds DEF DetectReuse, NoCall
  <2>2. CASE PresentToken(r, calls[r].token) /\ calls' = [calls EXCEPT ![r].at = "server"]
    <3>1. requests'[r].pc = "rotating" /\ requests'[r].token = calls[r].token
      BY <1>t, <2>2 DEF PresentToken
    <3> QED
      BY <1>1, <1>7, <1>t, <2>2, <3>1, CallServed
      DEF RefreshArrives, PresentToken, At, Refreshing
  <2> QED
    BY <1>7, <2>1, <2>2 DEF RefreshArrives
<1>8. ASSUME NEW r \in Request, RefreshGoesOn(r) PROVE Served'
  <2>1. CASE RevokePresented(r) /\ UNCHANGED calls
    <3>1. requests[r] \in Refresh
      BY <2>1, RefreshHoldsToken DEF RevokePresented, Refreshing
    <3>2. requests'[r].pc = "rotated" /\ requests'[r].token = requests[r].token
      BY <1>t, <2>1, <3>1 DEF RevokePresented, Refresh
    <3> QED
      BY <1>1, <1>8, <1>t, <2>1, <3>2
      DEF RefreshGoesOn, RevokePresented, Served, Refreshing
  <2>2. ASSUME NEW t \in TokenId, IssueNext(r, t), Answer(r, t) PROVE Served'
    BY <1>2, <1>t, <2>2, CallAnswered DEF IssueNext
  <2> QED
    BY <1>8, <2>1, <2>2 DEF RefreshGoesOn
<1>9. ASSUME NEW r \in Request, LogoutArrives(r) PROVE Served'
  BY <1>2, <1>9, CallAnswered DEF LogoutArrives, Logout
<1>10. ASSUME NEW r \in Request, CallFails(r) PROVE Served'
  BY <1>2, <1>10, <1>t, CallEnds DEF CallFails, RequestFails, NoCall
<1>11. CASE UNCHANGED <<requests, calls>>
  BY <1>11 DEF Served, At, Refreshing
<1> QED
  BY <1>3, <1>4, <1>5, <1>6, <1>7, <1>8, <1>9, <1>10, <1>11
  DEF BrowserNext, Elsewhere, SoftDeleteUser, LockEnds, TokenExpires,
      browserVars, allVars

\* A mishap is never undone.
LEMMA MishapStays ==
  ASSUME [BrowserNext]_allVars, mishap' = "none"
  PROVE  mishap = "none"
BY DEF BrowserNext, Send, Deliver, Lose, TokenLost, LoginArrives, LoginGoesOn,
       Refused, RefreshArrives, RefreshGoesOn, LogoutArrives, CallFails,
       browserVars, allVars

\* Every step keeps what is known of the jar and of the replies.
LEMMA JarInvStep == JarInv /\ BrowserInv /\ IInv /\ [BrowserNext]_allVars => JarInv'
BY RowsMoves, ServedMoves, JarMoves DEF JarInv

\* Without overlapping refreshes, lost replies to one, and failures between its
\* two writes, the jar never holds a revoked token of a session that goes on, for
\* any number of tabs, logins and logouts: no false alarm is in store for it.
THEOREM CookieIsCurrentHolds == BrowserSpec => []CookieIsCurrent
<1>1. BrowserSpec => []IInv
  BY BrowserImplementsSessions, IInvHolds, PTL
<1>2. BrowserSpec => []JarInv
  BY <1>1, InitJar, JarInvStep, BrowserInvHolds, PTL DEF BrowserSpec
<1>3. JarInv => CookieIsCurrent
  BY DEF JarInv, SoundInv, Sound, CookieIsCurrent
<1> QED
  BY <1>2, <1>3, PTL
====

---- MODULE BrowserSession ----
(***************************************************************************)
(* Sessions seen from a browser: AuthController hands the refresh token    *)
(* over in an HttpOnly cookie, and the browser's tabs send whatever cookie *)
(* the jar holds.  Calls and replies are delayed, lost and out of order,   *)
(* and the server may fail between two writes.  Nobody but the browser     *)
(* holds its tokens, so every reuse that is detected here is a false alarm *)
(* or a session that was closed on purpose.                                *)
(***************************************************************************)
EXTENDS Sessions

VARIABLES
  cookie,   \* the refresh token in the jar, or None
  calls,    \* the browser's calls, from sending to the end of the reply
  mishap    \* history: "overlap" once two refreshes were under way at once,
            \* else "loss" once the token of a refresh never reached the jar

browserVars == <<cookie, calls, mishap>>

allVars == <<users, tokens, resetTokens, requests, cookie, calls, mishap>>

-----------------------------------------------------------------------------
\* token is the cookie the call carried, next what a reply puts in the jar:
\* a token, or None to clear it.
Call == [at : {"network", "server"}, op : {"login", "refresh", "logout"},
         token : TokenId \cup {None}]
        \cup
        [at : {"reply"}, op : {"login", "refresh", "logout"},
         token : TokenId \cup {None}, next : TokenId \cup {None}]

NoCall == [at |-> "none"]

BrowserInit ==
  /\ Init
  /\ cookie = None
  /\ calls = [r \in Request |-> NoCall]
  /\ mishap = "none"

UnderWay(r, op) == calls[r] # NoCall /\ calls[r].op = op

At(r, place, op) == calls[r].at = place /\ calls[r].op = op

Answer(r, next) ==
  calls' = [calls EXCEPT ![r] =
    [at |-> "reply", op |-> calls[r].op, token |-> calls[r].token, next |-> next]]

\* The token a refresh has earned never reaches the jar.
TokenLost == mishap' = IF mishap = "none" THEN "loss" ELSE mishap

\* An error leaves the cookie as it is.
Refuse(r) == calls' = [calls EXCEPT ![r] = NoCall]

-----------------------------------------------------------------------------
(* The browser. *)

\* A tab calls login, refresh or logout; the jar's cookie goes with the last
\* two.  refresh without a cookie is answered 401 and changes nothing.
Send(r, op) ==
  /\ calls[r] = NoCall
  /\ requests[r] = NoRequest
  /\ op = "refresh" => cookie # None
  /\ calls' = [calls EXCEPT ![r] =
       [at |-> "network", op |-> op,
        token |-> IF op = "login" THEN None ELSE cookie]]
  /\ mishap' = IF op = "refresh" /\ \E q \in Request : UnderWay(q, "refresh")
               THEN "overlap" ELSE mishap
  /\ UNCHANGED <<users, tokens, resetTokens, requests, cookie>>

\* Fault: the reply of refresh does not set the cookie.
DeliverBodyOnly(r) ==
  /\ calls[r].at = "reply"
  /\ cookie' = IF calls[r].op = "refresh" THEN cookie ELSE calls[r].next
  /\ Refuse(r)
  /\ UNCHANGED <<users, tokens, resetTokens, requests, mishap>>

\* The reply arrives: res.cookie or res.clearCookie.
Deliver(r) ==
  /\ calls[r].at = "reply"
  /\ cookie' = calls[r].next
  /\ Refuse(r)
  /\ UNCHANGED <<users, tokens, resetTokens, requests, mishap>>

\* A call or its reply is lost, or the tab is closed.
Lose(r) ==
  /\ calls[r].at \in {"network", "reply"}
  /\ IF At(r, "reply", "refresh") THEN TokenLost ELSE UNCHANGED mishap
  /\ Refuse(r)
  /\ UNCHANGED <<users, tokens, resetTokens, requests, cookie>>

-----------------------------------------------------------------------------
(* AuthController. *)

LoginArrives(r, u, p) ==
  /\ At(r, "network", "login")
  /\ ReadUser(r, u, p)
  /\ calls' = [calls EXCEPT ![r].at = "server"]
  /\ UNCHANGED <<cookie, mishap>>

\* login goes on as in Sessions, and answers with the cookie.
LoginGoesOn(r) ==
  /\ At(r, "server", "login")
  /\ \/ FailLogin(r) /\ Refuse(r)
     \/ PassLogin(r) /\ UNCHANGED calls
     \/ \E t \in TokenId : OpenSession(r, t) /\ Answer(r, t)
  /\ UNCHANGED <<cookie, mishap>>

\* 401: credentials that do not match, a locked or disabled user, an expired token.
Refused(r) ==
  /\ calls[r].at = "network"
  /\ \/ calls[r].op = "login"
     \/ /\ calls[r].op = "refresh"
        /\ tokens[calls[r].token].expired \/ ~users[tokens[calls[r].token].user].active
        /\ ~tokens[calls[r].token].revoked
  /\ Refuse(r)
  /\ UNCHANGED <<users, tokens, resetTokens, requests, cookie, mishap>>

\* refresh reads the token the call carried; a revoked one is taken for stolen.
RefreshArrives(r) ==
  /\ At(r, "network", "refresh")
  /\ \/ /\ PresentToken(r, calls[r].token)
        /\ calls' = [calls EXCEPT ![r].at = "server"]
     \/ /\ DetectReuse(calls[r].token)
        /\ Refuse(r)
  /\ UNCHANGED <<cookie, mishap>>

RefreshGoesOn(r) ==
  /\ At(r, "server", "refresh")
  /\ \/ RevokePresented(r) /\ UNCHANGED calls
     \/ \E t \in TokenId : IssueNext(r, t) /\ Answer(r, t)
  /\ UNCHANGED <<cookie, mishap>>

\* logout succeeds and clears the cookie, with a token or without one.
LogoutArrives(r) ==
  /\ At(r, "network", "logout")
  /\ IF calls[r].token = None
     THEN UNCHANGED <<users, tokens, resetTokens, requests>>
     ELSE Logout(calls[r].token)
  /\ Answer(r, None)
  /\ UNCHANGED <<cookie, mishap>>

\* An error between two writes.  A refresh that had revoked the presented token
\* leaves the browser with it.
CallFails(r) ==
  /\ calls[r].at = "server"
  /\ RequestFails(r)
  /\ IF requests[r].pc = "rotated" THEN TokenLost ELSE UNCHANGED mishap
  /\ Refuse(r)
  /\ UNCHANGED cookie

-----------------------------------------------------------------------------
(* Administration and time.  Resets are left to Sessions: they close sessions *)
(* as logout does.                                                            *)

Elsewhere ==
  \/ \E u \in User : SoftDeleteUser(u) \/ LockEnds(u)
  \/ \E t \in TokenId : TokenExpires(t)

BrowserNext ==
  \/ \E r \in Request, op \in {"login", "refresh", "logout"} : Send(r, op)
  \/ \E r \in Request : Deliver(r) \/ Lose(r)
  \/ \E r \in Request, u \in User, p \in Password : LoginArrives(r, u, p)
  \/ \E r \in Request :
       \/ LoginGoesOn(r) \/ Refused(r)
       \/ RefreshArrives(r) \/ RefreshGoesOn(r)
       \/ LogoutArrives(r)
       \/ CallFails(r)
  \/ Elsewhere /\ UNCHANGED browserVars

BrowserSpec == BrowserInit /\ [][BrowserNext]_allVars

-----------------------------------------------------------------------------
(* Properties. *)

\* A refresh whose token is c, with the one it earns still on its way.
Renewing(c) ==
  \E r \in Request : UnderWay(r, "refresh") /\ calls[r].token = c

ClosedFamily(f) == \A t \in TokenIds : FamilyOf(t) = f => tokens[t].revoked

\* The false alarm of auth.service.ts:215 ("compromise is assumed") has three
\* causes and no other: refreshes that overlap, a reply that is lost, and a
\* server that fails between revoking a token and issuing the next.  Without
\* them the jar never holds a revoked token of a session that goes on.
CookieIsCurrent ==
  mishap = "none" /\ cookie # None =>
    \/ ~tokens[cookie].revoked
    \/ Renewing(cookie)
    \/ ClosedFamily(FamilyOf(cookie))

\* Only overlapping refreshes leave two usable tokens of one session, whatever
\* is lost, fails, or is delivered late.
OneLiveTokenPerSession ==
  mishap # "overlap" =>
    \A s, t \in TokenIds :
      Live(s) /\ Live(t) /\ FamilyOf(s) = FamilyOf(t) => s = t
====

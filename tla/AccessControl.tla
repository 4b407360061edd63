---- MODULE AccessControl ----
(***************************************************************************)
(* The global guards.  An access token names its user and the role the     *)
(* user had, and is valid for 15 minutes; what a request may do            *)
(* is decided when it arrives, from the database, and holds until the      *)
(* handler has answered.                                                   *)
(*                                                                         *)
(* A guard that refuses (401, 403) ends the request without an effect.     *)
(***************************************************************************)
EXTENDS Naturals

CONSTANTS
  User,
  Request,  \* requests being handled at once
  None      \* nobody: the user of a request that is not authenticated

ASSUME NobodyAssumption == None \notin User

VARIABLES
  users,     \* role and activity of every row of table User
  tokens,    \* the claims of the access tokens that have not expired
  requests   \* the requests inside the guards or their handler

vars == <<users, tokens, requests>>

\* Of Role, the part the API tells apart: PROVIDER may do what USER may.
Role == {"user", "admin"}

UserRow == [role : Role, active : BOOLEAN]

Claims == [sub : User, role : Role]

(* public: marked @Public().  any: no decorator.  admin: @Roles(ADMIN).    *)
(* owned: the handler calls assertSelfOrAdmin for the owner of what the    *)
(* path names; owners never change.                                        *)
Route == [kind : {"public", "any", "admin", "owned"}, owner : User]

\* user and role are req.user, which JwtAuthGuard sets.
Call == [pc : {"authenticated", "allowed", "served"}, route : Route,
         user : User \cup {None}, role : Role \cup {None}]

NoCall == [pc |-> "none"]

Init ==
  /\ users \in [User -> [role : Role, active : {TRUE}]]
  /\ tokens = {}
  /\ requests = [r \in Request |-> NoCall]

----
(* login and refresh sign what they read of the row, perhaps some time     *)
(* before: the role, and that the account was active, may be out of date.  *)
SignToken(t) ==
  /\ tokens' = tokens \cup {t}
  /\ UNCHANGED <<users, requests>>

TokenExpires(t) ==
  /\ t \in tokens
  /\ tokens' = tokens \ {t}
  /\ UNCHANGED <<users, requests>>

\* An operator gives or takes a role, in the database.
ChangeRole(u, role) ==
  /\ users' = [users EXCEPT ![u].role = role]
  /\ UNCHANGED <<tokens, requests>>

SoftDeleteUser(u) ==
  /\ users' = [users EXCEPT ![u].active = FALSE]
  /\ UNCHANGED <<tokens, requests>>

----
\* JwtAuthGuard lets a public route through with nobody in req.user.
PassPublic(r, route) ==
  /\ requests[r] = NoCall
  /\ route.kind = "public"
  /\ requests' = [requests EXCEPT ![r] =
       [pc |-> "authenticated", route |-> route, user |-> None, role |-> None]]
  /\ UNCHANGED <<users, tokens>>

\* Fault: the role is taken from the claims.
ValidateByClaims(r, t, route) ==
  /\ requests[r] = NoCall
  /\ route.kind # "public"
  /\ t \in tokens
  /\ users[t.sub].active
  /\ requests' = [requests EXCEPT ![r] =
       [pc |-> "authenticated", route |-> route,
        user |-> t.sub, role |-> t.role]]
  /\ UNCHANGED <<users, tokens>>

\* Fault: the account is read for its role, and not for its activity.
ValidateAnyone(r, t, route) ==
  /\ requests[r] = NoCall
  /\ route.kind # "public"
  /\ t \in tokens
  /\ requests' = [requests EXCEPT ![r] =
       [pc |-> "authenticated", route |-> route,
        user |-> t.sub, role |-> users[t.sub].role]]
  /\ UNCHANGED <<users, tokens>>

\* JwtAuthGuard and JwtStrategy.validate: the token says who calls, the row
\* what they may do.
Validate(r, t, route) ==
  /\ requests[r] = NoCall
  /\ route.kind # "public"
  /\ t \in tokens
  /\ users[t.sub].active
  /\ requests' = [requests EXCEPT ![r] =
       [pc |-> "authenticated", route |-> route,
        user |-> t.sub, role |-> users[t.sub].role]]
  /\ UNCHANGED <<users, tokens>>

\* Fault: the guard reads another metadata key than @Roles() writes.
PassRolesOtherKey(r) ==
  /\ requests[r].pc = "authenticated"
  /\ requests' = [requests EXCEPT ![r].pc = "allowed"]
  /\ UNCHANGED <<users, tokens>>

\* RolesGuard: a route without required roles is open to everyone.
PassRoles(r) ==
  /\ requests[r].pc = "authenticated"
  /\ requests[r].route.kind = "admin" => requests[r].role = "admin"
  /\ requests' = [requests EXCEPT ![r].pc = "allowed"]
  /\ UNCHANGED <<users, tokens>>

\* assertSelfOrAdmin, in the handlers that take the id of a user or of
\* something a user owns.
AssertSelfOrAdmin(call) ==
  /\ call.user # None
  /\ call.role = "admin" \/ call.user = call.route.owner

\* The handler does what it was asked for.
Serve(r) ==
  /\ requests[r].pc = "allowed"
  /\ requests[r].route.kind = "owned" => AssertSelfOrAdmin(requests[r])
  /\ requests' = [requests EXCEPT ![r].pc = "served"]
  /\ UNCHANGED <<users, tokens>>

\* The reply, or the refusal of a guard.
Reply(r) ==
  /\ requests[r] # NoCall
  /\ requests' = [requests EXCEPT ![r] = NoCall]
  /\ UNCHANGED <<users, tokens>>

Next ==
  \/ \E u \in User : SoftDeleteUser(u)
  \/ \E t \in Claims : SignToken(t) \/ TokenExpires(t)
  \/ \E u \in User, role \in Role : ChangeRole(u, role)
  \/ \E r \in Request, route \in Route : PassPublic(r, route)
  \/ \E r \in Request, t \in Claims, route \in Route : Validate(r, t, route)
  \/ \E r \in Request : PassRoles(r) \/ Serve(r) \/ Reply(r)

Spec == Init /\ [][Next]_vars

----
(* Every row and record has its shape.                                     *)
TypeOK ==
  /\ users \in [User -> UserRow]
  /\ tokens \subseteq Claims
  /\ requests \in [Request -> Call \cup {NoCall}]

(* Whatever is served was open to its caller: public routes to anyone, the *)
(* routes of administrators to those who were one when the request came,   *)
(* and what a user owns to that user and to them.                          *)
ServedIsAllowed ==
  \A r \in Request :
    LET call == requests[r] IN
    call.pc = "served" =>
      CASE call.route.kind = "public" -> TRUE
        [] call.route.kind = "any" -> call.user \in User
        [] call.route.kind = "admin" -> call.role = "admin"
        [] call.route.kind = "owned" ->
             call.role = "admin" \/ call.user = call.route.owner

InFlight(u) == \E r \in Request : requests[r] # NoCall /\ requests[r].user = u

(* A deactivated account is out at once, not when its token expires: only  *)
(* its requests already under way are still answered.                      *)
DeactivatedStaysOut ==
  [][\A u \in User : ~users[u].active /\ ~InFlight(u) => ~InFlight(u)']_vars

ActsAsAdmin(u) == \E r \in Request : /\ requests[r] # NoCall
                                     /\ requests[r].user = u
                                     /\ requests[r].role = "admin"

(* "revoking a role takes effect on the very next request instead of at    *)
(* token expiry" (jwt.strategy.ts:64-65): once the requests a former       *)
(* administrator had under way are over, no token signed before gives the  *)
(* role back.                                                              *)
DemotionTakesEffect ==
  [][\A u \in User :
       users[u].role # "admin" /\ ~ActsAsAdmin(u) => ~ActsAsAdmin(u)']_vars
====

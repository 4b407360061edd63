---- MODULE AccessControlProofs ----
(***************************************************************************)
(* Proofs about AccessControl for any number of users and of overlapping   *)
(* requests.                                                               *)
(***************************************************************************)
EXTENDS AccessControl, TLAPS

\* What each guard has established of the requests that are past it.
GuardsHold ==
  \A r \in Request :
    /\ requests[r].pc # "none" /\ requests[r].route.kind # "public" =>
         requests[r].user \in User
    /\ requests[r].pc \in {"allowed", "served"}
       /\ requests[r].route.kind = "admin" => requests[r].role = "admin"
    /\ requests[r].pc = "served" /\ requests[r].route.kind = "owned" =>
         AssertSelfOrAdmin(requests[r])

IInv == TypeOK /\ GuardsHold

\* The tables are empty of requests at the start.
LEMMA InitIInv == Init => IInv
<1> SUFFICES ASSUME Init PROVE IInv
  OBVIOUS
<1>1. users \in [User -> UserRow]
  BY DEF Init, UserRow
<1>2. tokens \subseteq Claims /\ requests \in [Request -> Call \cup {NoCall}]
  BY DEF Init
<1>3. \A r \in Request : requests[r].pc = "none"
  BY DEF Init, NoCall
<1> QED BY <1>1, <1>2, <1>3 DEF IInv, TypeOK, GuardsHold

\* Every step keeps the shape of rows and records.
LEMMA TypeStep ==
  ASSUME TypeOK, [Next]_vars
  PROVE  TypeOK'
<1>1. CASE UNCHANGED vars
  BY <1>1 DEF vars, TypeOK
<1>2. ASSUME NEW u \in User, SoftDeleteUser(u) PROVE TypeOK'
  BY <1>2 DEF SoftDeleteUser, TypeOK, UserRow
<1>3. ASSUME NEW t \in Claims, SignToken(t) \/ TokenExpires(t) PROVE TypeOK'
  BY <1>3 DEF SignToken, TokenExpires, TypeOK
<1>4. ASSUME NEW u \in User, NEW role \in Role, ChangeRole(u, role) PROVE TypeOK'
  BY <1>4 DEF ChangeRole, TypeOK, UserRow
<1>5. ASSUME NEW r \in Request, NEW route \in Route, PassPublic(r, route)
      PROVE  TypeOK'
  BY <1>5 DEF PassPublic, TypeOK, Call
<1>6. ASSUME NEW r \in Request, NEW t \in Claims, NEW route \in Route,
             Validate(r, t, route)
      PROVE  TypeOK'
  BY <1>6 DEF Validate, TypeOK, Call, Claims, UserRow
<1>7. ASSUME NEW r \in Request, PassRoles(r) \/ Serve(r) PROVE TypeOK'
  BY <1>7 DEF PassRoles, Serve, TypeOK, Call, NoCall
<1>8. ASSUME NEW r \in Request, Reply(r) PROVE TypeOK'
  BY <1>8 DEF Reply, TypeOK
<1> QED BY <1>1, <1>2, <1>3, <1>4, <1>5, <1>6, <1>7, <1>8 DEF Next

\* A request only moves on past a guard that lets it through.
LEMMA GuardsStep ==
  ASSUME IInv, [Next]_vars
  PROVE  GuardsHold'
<1> USE DEF IInv, TypeOK
<1>1. CASE UNCHANGED requests
  BY <1>1 DEF GuardsHold, AssertSelfOrAdmin
<1>2. ASSUME NEW r \in Request, NEW route \in Route, PassPublic(r, route)
      PROVE  GuardsHold'
  BY <1>2 DEF PassPublic, GuardsHold, AssertSelfOrAdmin
<1>3. ASSUME NEW r \in Request, NEW t \in Claims, NEW route \in Route,
             Validate(r, t, route)
      PROVE  GuardsHold'
  BY <1>3 DEF Validate, GuardsHold, AssertSelfOrAdmin, Claims
<1>4. ASSUME NEW r \in Request, PassRoles(r) PROVE GuardsHold'
  BY <1>4 DEF PassRoles, GuardsHold, AssertSelfOrAdmin, Call, NoCall
<1>5. ASSUME NEW r \in Request, Serve(r) PROVE GuardsHold'
  BY <1>5 DEF Serve, GuardsHold, AssertSelfOrAdmin, Call, NoCall
<1>6. ASSUME NEW r \in Request, Reply(r) PROVE GuardsHold'
  BY <1>6 DEF Reply, GuardsHold, AssertSelfOrAdmin, NoCall
<1> QED
  BY <1>1, <1>2, <1>3, <1>4, <1>5, <1>6
  DEF Next, vars, SoftDeleteUser, SignToken, TokenExpires, ChangeRole

\* The guards' facts hold in every reachable state.
LEMMA IInvHolds == Spec => []IInv
<1>1. IInv /\ [Next]_vars => IInv'
  BY TypeStep, GuardsStep DEF IInv
<1> QED BY InitIInv, <1>1, PTL DEF Spec

\* Every row and record keeps its shape (AccessControl's tables and req.user).
THEOREM TypeCorrect == Spec => []TypeOK
<1>1. IInv => TypeOK
  BY DEF IInv
<1> QED BY IInvHolds, <1>1, PTL

\* No handler serves a caller to whom its route is closed, however requests
\* overlap with changes of roles (jwt-auth.guard.ts, roles.guard.ts,
\* authorize-self-or-admin.ts).
THEOREM ServedIsAllowedHolds == Spec => []ServedIsAllowed
<1>1. ASSUME IInv, NEW r \in Request, requests[r].pc = "served"
      PROVE  /\ requests[r].route.kind \in {"public", "any", "admin", "owned"}
             /\ requests[r].route.kind # "public" => requests[r].user \in User
             /\ requests[r].route.kind = "admin" => requests[r].role = "admin"
             /\ requests[r].route.kind = "owned" => AssertSelfOrAdmin(requests[r])
  BY <1>1 DEF IInv, TypeOK, GuardsHold, Call, Route, NoCall
<1>2. IInv => ServedIsAllowed
  BY <1>1 DEF ServedIsAllowed, AssertSelfOrAdmin
<1> QED BY IInvHolds, <1>2, PTL

\* In one step a request starts with what validate reads, ends, or keeps the
\* user and the role it has.
LEMMA RequestMoves ==
  ASSUME TypeOK, [Next]_vars, NEW r \in Request, (requests[r] # NoCall)'
  PROVE  \/ /\ requests[r] # NoCall
            /\ requests'[r].user = requests[r].user
            /\ requests'[r].role = requests[r].role
         \/ requests'[r].user = None
         \/ \E u \in User : /\ users[u].active
                            /\ requests'[r].user = u
                            /\ requests'[r].role = users[u].role
<1> USE DEF TypeOK
<1>1. CASE UNCHANGED requests
  BY <1>1
<1>2. ASSUME NEW q \in Request, NEW route \in Route, PassPublic(q, route)
      PROVE  \/ requests'[r] = requests[r]
             \/ requests'[r].user = None
  BY <1>2 DEF PassPublic
<1>3. ASSUME NEW q \in Request, NEW t \in Claims, NEW route \in Route,
             Validate(q, t, route)
      PROVE  \/ requests'[r] = requests[r]
             \/ /\ t.sub \in User
                /\ users[t.sub].active
                /\ requests'[r].user = t.sub
                /\ requests'[r].role = users[t.sub].role
  BY <1>3 DEF Validate, Claims
<1>4. ASSUME NEW q \in Request, PassRoles(q) \/ Serve(q) \/ Reply(q)
      PROVE  \/ requests'[r] = NoCall
             \/ /\ requests[r] # NoCall
                /\ requests'[r].user = requests[r].user
                /\ requests'[r].role = requests[r].role
  BY <1>4 DEF PassRoles, Serve, Reply, Call, NoCall
<1> QED
  BY <1>1, <1>2, <1>3, <1>4
  DEF Next, vars, SoftDeleteUser, SignToken, TokenExpires, ChangeRole

\* No token of a deactivated account is taken up again (jwt.strategy.ts:57).
THEOREM DeactivatedStaysOutHolds == Spec => DeactivatedStaysOut
<1>1. ASSUME TypeOK, [Next]_vars, NEW u \in User,
             ~users[u].active, ~InFlight(u)
      PROVE  ~InFlight(u)'
  BY <1>1, RequestMoves, NobodyAssumption DEF InFlight
<1>2. TypeOK /\ [Next]_vars => [\A u \in User :
         ~users[u].active /\ ~InFlight(u) => ~InFlight(u)']_vars
  BY <1>1
<1> QED BY TypeCorrect, <1>2, PTL DEF Spec, DeactivatedStaysOut

\* The role of a request comes from the row and not from the token
\* (jwt.strategy.ts:64-66).
THEOREM DemotionTakesEffectHolds == Spec => DemotionTakesEffect
<1>1. ASSUME TypeOK, [Next]_vars, NEW u \in User,
             users[u].role # "admin", ~ActsAsAdmin(u)
      PROVE  ~ActsAsAdmin(u)'
  BY <1>1, RequestMoves, NobodyAssumption DEF ActsAsAdmin
<1>2. TypeOK /\ [Next]_vars => [\A u \in User :
         users[u].role # "admin" /\ ~ActsAsAdmin(u) => ~ActsAsAdmin(u)']_vars
  BY <1>1
<1> QED BY TypeCorrect, <1>2, PTL DEF Spec, DemotionTakesEffect
====

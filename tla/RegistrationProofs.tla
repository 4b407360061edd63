---- MODULE RegistrationProofs ----
(***************************************************************************)
(* The three invariants of Registration, for every set of emails and of    *)
(* requests.  What makes them inductive is Settled: a caller that was told *)
(* "created" or "conflict" was told so of an email that is stored.         *)
(***************************************************************************)
EXTENDS Registration, TLAPS

Answered == {"hashing", "created", "conflict", "uniqueViolation", "serverError"}

Call == [pc : Answered, email : Email, endpoint : {"register", "createUser"}]

TypeOK ==
  /\ emails \subseteq Email
  /\ requests \in [Request -> Call \cup {NoCall}]

Settled ==
  \A r \in Request :
    requests[r].pc \in {"created", "conflict"} => requests[r].email \in emails

RegistrationInv ==
  TypeOK /\ Settled /\ OneCreatorPerEmail /\ RegisterAnswersConflict

\* Nobody has been told anything at the beginning.
LEMMA InitRegistration == Init => RegistrationInv
BY DEF Init, RegistrationInv, TypeOK, Settled, OneCreatorPerEmail,
       RegisterAnswersConflict, Call, NoCall

\* A request that is being hashed for is a whole call.
LEMMA HashingIsCall ==
  ASSUME TypeOK, NEW r \in Request, requests[r].pc = "hashing"
  PROVE  requests[r] \in Call
BY DEF TypeOK, NoCall

\* One request changes its answer, and no email is removed: the invariant is
\* left to that request.
LEMMA AnswerStep ==
  ASSUME RegistrationInv, NEW r \in Request, NEW c \in Call,
         requests' = [requests EXCEPT ![r] = c],
         emails \subseteq emails', emails' \subseteq Email,
         c.pc \in {"created", "conflict"} => c.email \in emails',
         c.pc = "created" => c.email \notin emails,
         c.pc = "uniqueViolation" => c.endpoint = "createUser"
  PROVE  RegistrationInv'
<1>1. TypeOK'
  BY DEF RegistrationInv, TypeOK
<1>2. \A q \in Request : requests'[q] = IF q = r THEN c ELSE requests[q]
  BY DEF RegistrationInv, TypeOK
<1>3. Settled'
  BY <1>2 DEF RegistrationInv, Settled
<1>4. OneCreatorPerEmail'
  <2> SUFFICES ASSUME NEW p \in Request, NEW q \in Request,
                      requests'[p].pc = "created", requests'[q].pc = "created",
                      requests'[p].email = requests'[q].email
               PROVE  p = q
    BY DEF OneCreatorPerEmail
  <2>1. CASE p # r /\ q # r
    BY <1>2, <2>1 DEF RegistrationInv, OneCreatorPerEmail
  <2>2. CASE p = r /\ q # r
    BY <1>2, <2>2 DEF RegistrationInv, Settled
  <2>3. CASE p # r /\ q = r
    BY <1>2, <2>3 DEF RegistrationInv, Settled
  <2> QED
    BY <2>1, <2>2, <2>3
<1>5. RegisterAnswersConflict'
  BY <1>2 DEF RegistrationInv, RegisterAnswersConflict
<1> QED
  BY <1>1, <1>3, <1>4, <1>5 DEF RegistrationInv

\* A call whose answer is set is a call still.
LEMMA NewAnswer ==
  ASSUME TypeOK, NEW r \in Request, requests[r].pc = "hashing",
         NEW pc \in Answered
  PROVE  /\ [requests[r] EXCEPT !.pc = pc] \in Call
         /\ [requests[r] EXCEPT !.pc = pc].pc = pc
         /\ [requests[r] EXCEPT !.pc = pc].email = requests[r].email
         /\ [requests[r] EXCEPT !.pc = pc].endpoint = requests[r].endpoint
         /\ [requests EXCEPT ![r].pc = pc] =
            [requests EXCEPT ![r] = [requests[r] EXCEPT !.pc = pc]]
<1>1. requests[r] \in Call
  BY HashingIsCall
<1> QED
  BY <1>1 DEF Call

\* Every step of a request keeps what callers were told true.
LEMMA NextRegistration == RegistrationInv /\ [Next]_vars => RegistrationInv'
<1> SUFFICES ASSUME RegistrationInv, [Next]_vars PROVE RegistrationInv'
  OBVIOUS
<1>t. TypeOK
  BY DEF RegistrationInv
<1>1. ASSUME NEW r \in Request, NEW email \in Email,
             NEW endpoint \in {"register", "createUser"},
             LookUpEmail(r, email, endpoint)
      PROVE  RegistrationInv'
  <2> DEFINE c == [pc |-> IF email \in emails THEN "conflict" ELSE "hashing",
                   email |-> email, endpoint |-> endpoint]
  <2>1. c \in Call
    BY DEF Call, Answered
  <2>2. /\ c.pc \in {"conflict", "hashing"}
        /\ c.pc = "conflict" => c.email \in emails
    OBVIOUS
  <2>3. requests' = [requests EXCEPT ![r] = c] /\ emails' = emails
    BY <1>1 DEF LookUpEmail
  <2> HIDE DEF c
  <2> QED
    BY <1>t, <2>1, <2>2, <2>3, AnswerStep DEF TypeOK
<1>2. ASSUME NEW r \in Request, InsertUser(r)
      PROVE  RegistrationInv'
  <2> DEFINE c == [requests[r] EXCEPT !.pc = "created"]
  <2>1. /\ c \in Call /\ c.pc = "created" /\ c.email = requests[r].email
        /\ requests' = [requests EXCEPT ![r] = c]
    BY <1>t, <1>2, NewAnswer DEF InsertUser, Answered
  <2>2. /\ emails' = emails \cup {c.email} /\ c.email \notin emails
        /\ c.email \in Email
    BY <1>2, <2>1 DEF InsertUser, Call
  <2> HIDE DEF c
  <2> QED
    BY <1>t, <2>1, <2>2, AnswerStep DEF TypeOK
<1>3. ASSUME NEW r \in Request, LoseRace(r)
      PROVE  RegistrationInv'
  <2> DEFINE pc == IF requests[r].endpoint = "register"
                   THEN "conflict" ELSE "uniqueViolation"
             c == [requests[r] EXCEPT !.pc = pc]
  <2>0. pc \in Answered
    BY DEF Answered
  <2>4. requests' = [requests EXCEPT ![r].pc = pc] /\ emails' = emails
    BY <1>3 DEF LoseRace
  <2>5. requests[r].endpoint \in {"register", "createUser"}
    BY <1>t, <1>3, HashingIsCall DEF LoseRace, Call
  <2>6. pc = "uniqueViolation" => requests[r].endpoint = "createUser"
    BY <2>5
  <2>7. pc # "created"
    OBVIOUS
  <2> HIDE DEF pc
  <2>1. /\ c \in Call /\ c.pc = pc /\ c.email = requests[r].email
        /\ c.endpoint = requests[r].endpoint
        /\ requests' = [requests EXCEPT ![r] = c]
    BY <1>t, <1>3, <2>0, <2>4, NewAnswer DEF LoseRace
  <2>2. c.email \in emails
    BY <1>3, <2>1 DEF LoseRace
  <2> HIDE DEF c
  <2> QED
    BY <1>t, <2>1, <2>2, <2>4, <2>6, <2>7, AnswerStep DEF TypeOK
<1>4. ASSUME NEW r \in Request, InsertFails(r)
      PROVE  RegistrationInv'
  <2> DEFINE c == [requests[r] EXCEPT !.pc = "serverError"]
  <2>1. /\ c \in Call /\ c.pc = "serverError"
        /\ requests' = [requests EXCEPT ![r] = c] /\ emails' = emails
    BY <1>t, <1>4, NewAnswer DEF InsertFails, Answered
  <2> HIDE DEF c
  <2> QED
    BY <1>t, <2>1, AnswerStep DEF TypeOK
<1>5. ASSUME NEW r \in Request, AnswerLost(r)
      PROVE  RegistrationInv'
  <2> DEFINE c == [requests[r] EXCEPT !.pc = "serverError"]
  <2>1. /\ c \in Call /\ c.pc = "serverError"
        /\ requests' = [requests EXCEPT ![r] = c]
    BY <1>t, <1>5, NewAnswer DEF AnswerLost, Answered
  <2>2. emails' = emails \cup {requests[r].email} /\ requests[r].email \in Email
    BY <1>t, <1>5, HashingIsCall DEF AnswerLost, Call
  <2> HIDE DEF c
  <2> QED
    BY <1>t, <2>1, <2>2, AnswerStep DEF TypeOK
<1>6. ASSUME UNCHANGED vars PROVE RegistrationInv'
  BY <1>6 DEF vars, RegistrationInv, TypeOK, Settled, OneCreatorPerEmail,
              RegisterAnswersConflict
<1> QED
  BY <1>1, <1>2, <1>3, <1>4, <1>5, <1>6 DEF Next

\* The invariant holds throughout.
THEOREM RegistrationInvHolds == Spec => []RegistrationInv
BY InitRegistration, NextRegistration, PTL DEF Spec

\* One request at most is told that it created the account of an email.
THEOREM OneCreatorPerEmailHolds == Spec => []OneCreatorPerEmail
<1>1. RegistrationInv => OneCreatorPerEmail
  BY DEF RegistrationInv
<1> QED
  BY <1>1, RegistrationInvHolds, PTL

\* A conflict is only reported of an email that is in use.
THEOREM ConflictIsTrueHolds == Spec => []ConflictIsTrue
<1>1. RegistrationInv => ConflictIsTrue
  BY DEF RegistrationInv, Settled, ConflictIsTrue
<1> QED
  BY <1>1, RegistrationInvHolds, PTL

\* register never lets a uniqueness violation through as a server error.
THEOREM RegisterAnswersConflictHolds == Spec => []RegisterAnswersConflict
<1>1. RegistrationInv => RegisterAnswersConflict
  BY DEF RegistrationInv
<1> QED
  BY <1>1, RegistrationInvHolds, PTL
====

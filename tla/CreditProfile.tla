---- MODULE CreditProfile ----
(***************************************************************************)
(* What a lender is shown: GET /credit-profile/:userId summarises a user's *)
(* payments and then asks CreditScoreService for the score of one of the   *)
(* user's accounts, in a second query outside any transaction.  Meanwhile  *)
(* administrators and the sync worker add payments.                        *)
(*                                                                         *)
(* A request that is refused (403, 404) or fails changes nothing and is    *)
(* left out.  Statuses of rows are written in the lower case in which both *)
(* readers compare them.                                                   *)
(***************************************************************************)
EXTENDS FiniteSets, Integers, SequencesExt

CONSTANTS
  User,         \* rows of table User
  Admins,       \* those with role ADMIN
  Account,      \* ids energy accounts may get
  Request,      \* requests to the two read endpoints
  NoUser,       \* owner of an account that is not there yet
  MaxPayments   \* bound: rows of PaymentHistory

ASSUME RolesAssumption == Admins \subseteq User /\ NoUser \notin User

VARIABLES
  owner,     \* the owner of every energy account
  payments,  \* the payment rows of every energy account
  requests   \* every read request with what it read

vars == <<owner, payments, requests>>

Existing == {a \in Account : owner[a] # NoUser}

AccountsOf(u) == {a \in Account : owner[a] = u}

Statuses == {"paid", "late", "missed", "default", "pending"}

(* The words clients and connectors send, with their lower case: one for   *)
(* every branch of mapStatus.                                              *)
LowerCase ==
  [Paid |-> "paid", LATE |-> "late", missed |-> "missed",
   Default |-> "default", refunded |-> "refunded"]

MapStatus(raw) ==
  IF LowerCase[raw] \in Statuses \ {"pending"} THEN LowerCase[raw]
                                               ELSE "pending"

\* What the connector reports for every customer, in its order.
ProviderHistory == <<"paid", "late">>

(* A row written by an administrator has no payment reference; one written *)
(* by the sync has the position of the payment in the provider's history.  *)
NoReference == 0

Payment == [reference : NoReference..Len(ProviderHistory), status : Statuses]

TotalPayments == FoldLeft(LAMBDA n, a : n + Len(payments[a]), 0,
                          SetToSeq(Account))

----
(* The score of a set of rows.                                             *)

\* Fault: paying on time earns points back.
DeductionRewarding == [late |-> 10, missed |-> 25, default |-> 40,
                       pending |-> 0, paid |-> -5]

\* What a payment takes off the score; paid and pending ones take nothing.
Deduction ==
  [paid |-> 0, late |-> 10, missed |-> 25, default |-> 40, pending |-> 0]

\* Fault: the sum is not kept within 0..100.
ClampToCeiling(score) == Min({score, 100})

Clamp(score) == Max({0, Min({score, 100})})

\* Fault: the fold forgets the running score and keeps the last deduction.
ScoreOfLast(rows) ==
  Clamp(FoldLeft(LAMBDA score, p : 100 - Deduction[p.status], 100, rows))

ScoreOf(rows) ==
  Clamp(FoldLeft(LAMBDA score, p : score - Deduction[p.status], 100, rows))

Ratings == <<"High Risk", "Poor", "Fair", "Good", "Excellent">>

GetRating(score) ==
  CASE score >= 90 -> "Excellent"
    [] score \in 75..89 -> "Good"
    [] score \in 50..74 -> "Fair"
    [] score \in 25..49 -> "Poor"
    [] OTHER -> "High Risk"

CalculateScore(rows) ==
  [totalPayments |-> Len(rows), score |-> ScoreOf(rows),
   rating |-> GetRating(ScoreOf(rows))]

Count(rows, status) == Cardinality({k \in DOMAIN rows : rows[k].status = status})

\* The payments of all accounts, by the three statuses the profile reports.
Summarise(accounts) ==
  LET rows == FoldLeft(LAMBDA all, a : all \o payments[a], <<>>,
                       SetToSeq(accounts))
  IN  [totalPayments |-> Len(rows), paid |-> Count(rows, "paid"),
       late |-> Count(rows, "late"), missed |-> Count(rows, "missed")]

----
NoRequest == [pc |-> "none"]

\* Of a request that is still reading.
NoAnswer == [score |-> 0]

Init ==
  /\ owner = [a \in Account |-> NoUser]
  /\ payments = [a \in Account |-> <<>>]
  /\ requests = [r \in Request |-> NoRequest]

\* An account appears: at its first sync, or by POST /energy-accounts.
CreateEnergyAccount(a, u) ==
  /\ owner[a] = NoUser
  /\ owner' = [owner EXCEPT ![a] = u]
  /\ UNCHANGED <<payments, requests>>

\* POST /payments: administrators only, for an account that exists.
CreatePayment(caller, a, raw) ==
  /\ caller \in Admins
  /\ a \in Existing
  /\ TotalPayments < MaxPayments
  /\ payments' = [payments EXCEPT ![a] =
       Append(@, [reference |-> NoReference, status |-> MapStatus(raw)])]
  /\ UNCHANGED <<owner, requests>>

(* The worker upserts the i-th payment of the provider's history, after    *)
(* those before it.                                                        *)
UpsertPayment(a, i) ==
  /\ a \in Existing
  /\ TotalPayments < MaxPayments
  /\ \A j \in 1..(i - 1) : \E k \in DOMAIN payments[a] :
       payments[a][k].reference = j
  /\ payments' = [payments EXCEPT ![a] =
       IF \E k \in DOMAIN @ : @[k].reference = i
         THEN [k \in DOMAIN @ |-> IF @[k].reference = i
                                    THEN [@[k] EXCEPT !.status = ProviderHistory[i]]
                                    ELSE @[k]]
         ELSE Append(@, [reference |-> i, status |-> ProviderHistory[i]])]
  /\ UNCHANGED <<owner, requests>>

\* Fault: the owner check is missing.
AnyoneMaySee(caller, u) == caller \in User

AssertSelfOrAdmin(caller, u) == caller \in Admins \/ caller = u

(* The profile's first query: the accounts of the user, in no particular   *)
(* order, with their payments.  A user without accounts has no score.      *)
ReadProfile(r, caller, u) ==
  /\ requests[r] = NoRequest
  /\ AssertSelfOrAdmin(caller, u)
  /\ \/ /\ AccountsOf(u) = {}
        /\ requests' = [requests EXCEPT ![r] =
             [pc |-> "empty", caller |-> caller, summary |-> Summarise({})]]
     \/ \E first \in AccountsOf(u) :
          requests' = [requests EXCEPT ![r] =
            [pc |-> "summarised", caller |-> caller, account |-> first,
             answer |-> NoAnswer, accounts |-> AccountsOf(u),
             summary |-> Summarise(AccountsOf(u))]]
  /\ UNCHANGED <<owner, payments>>

\* GET /credit-score/:energyAccountId: the owner is looked up and checked.
FindAccountOwner(r, caller, a) ==
  /\ requests[r] = NoRequest
  /\ a \in Existing
  /\ AssertSelfOrAdmin(caller, owner[a])
  /\ requests' = [requests EXCEPT ![r] =
       [pc |-> "checked", caller |-> caller, account |-> a, answer |-> NoAnswer]]
  /\ UNCHANGED <<owner, payments>>

Answered(pc) == IF pc = "checked" THEN "scored" ELSE "profiled"

\* Fault: payments entered by hand are not scored.
AnswerSyncedOnly(r) ==
  /\ requests[r].pc \in {"summarised", "checked"}
  /\ requests' = [requests EXCEPT ![r] =
       [@ EXCEPT !.pc = Answered(requests[r].pc),
                 !.answer = CalculateScore(SelectSeq(payments[requests[r].account],
                              LAMBDA p : p.reference # NoReference))]]
  /\ UNCHANGED <<owner, payments>>

\* The query of calculateScore, and the answer.
Answer(r) ==
  /\ requests[r].pc \in {"summarised", "checked"}
  /\ requests' = [requests EXCEPT ![r] =
       [@ EXCEPT !.pc = Answered(requests[r].pc),
                 !.answer = CalculateScore(payments[requests[r].account])]]
  /\ UNCHANGED <<owner, payments>>

Next ==
  \/ \E a \in Account, u \in User : CreateEnergyAccount(a, u)
  \/ \E caller \in User, a \in Account, raw \in DOMAIN LowerCase :
       CreatePayment(caller, a, raw)
  \/ \E a \in Account, i \in DOMAIN ProviderHistory : UpsertPayment(a, i)
  \/ \E r \in Request, caller \in User, u \in User : ReadProfile(r, caller, u)
  \/ \E r \in Request, caller \in User, a \in Account :
       FindAccountOwner(r, caller, a)
  \/ \E r \in Request : Answer(r)

Spec == Init /\ [][Next]_vars

----
(* Types of the tables and of the answers given.                           *)
TypeOK ==
  /\ owner \in [Account -> User \cup {NoUser}]
  /\ \A a \in Account : \A k \in DOMAIN payments[a] : payments[a][k] \in Payment
  /\ \A r \in Request : requests[r].pc \in {"profiled", "scored"} =>
       /\ requests[r].answer.score \in 0..100
       /\ requests[r].answer.rating \in ToSet(Ratings)

(* The loop of calculateScore computes the score one would state: 100 less *)
(* 10 for every late, 25 for every missed and 40 for every defaulted       *)
(* payment, and nothing below 0.                                           *)
ScoreIsReference ==
  \A a \in Account :
    LET lost == 10 * Count(payments[a], "late") + 25 * Count(payments[a], "missed")
                  + 40 * Count(payments[a], "default")
    IN  ScoreOf(payments[a]) = IF lost > 100 THEN 0 ELSE 100 - lost

(* A profile reads twice, and payments may arrive in between.  The score   *)
(* it shows a user with one account still answers for every payment in the *)
(* summary beside it.                                                      *)
ScoreAccountsForSummary ==
  \A r \in Request :
    requests[r].pc = "profiled" /\ Cardinality(requests[r].accounts) = 1 =>
      LET summary == requests[r].summary
      IN  /\ requests[r].answer.totalPayments >= summary.totalPayments
          /\ requests[r].answer.score <=
               Max({0, 100 - 10 * summary.late - 25 * summary.missed})

(* Whoever was answered owns the account whose score the answer holds, or  *)
(* is an administrator: the owner check made before the score was read     *)
(* still holds when it is returned.                                        *)
AnswersBelongToCaller ==
  \A r \in Request :
    requests[r].pc \in {"profiled", "scored"} =>
      requests[r].caller \in Admins \cup {owner[requests[r].account]}

(* Nothing that happens to an account improves its score or its rating:    *)
(* rows are never removed, and a repeated sync never turns a late payment  *)
(* into a paid one.                                                        *)
ScoreNeverRises ==
  [][\A a \in Account :
       /\ ScoreOf(payments'[a]) <= ScoreOf(payments[a])
       /\ \A i, j \in DOMAIN Ratings :
            /\ Ratings[i] = GetRating(ScoreOf(payments[a]))
            /\ Ratings[j] = GetRating(ScoreOf(payments'[a]))
            => j <= i]_vars
====

---- MODULE CreditProfileProofs ----
(***************************************************************************)
(* Four results about the credit score, for any users, accounts,           *)
(* overlapping requests and histories: it only reaches the owner of its    *)
(* account or an administrator; it is what one would compute by hand; it   *)
(* never improves; and it answers for the summary shown beside it.         *)
(*                                                                         *)
(* The score is a fold, whose value is a function defined by recursion.    *)
(* Induction is by the least element of a set of naturals (SetInduction).  *)
(***************************************************************************)
EXTENDS CreditProfile, FiniteSetTheorems, SequenceTheorems, TLAPS

Beyond == {"summarised", "checked", "profiled", "scored"}

\* An account keeps the owner it was created for, so a check made once holds.
OwnerInv ==
  /\ owner \in [Account -> User \cup {NoUser}]
  /\ requests = [r \in Request |-> requests[r]]
  /\ \A r \in Request : requests[r].pc \in Beyond =>
       /\ {"pc", "caller", "account"} \subseteq DOMAIN requests[r]
       /\ requests[r].account \in Existing
       /\ requests[r].caller \in Admins \cup {owner[requests[r].account]}

\* One request moves, to a state that is not Beyond or keeps the check.
LEMMA RequestMoves ==
  ASSUME OwnerInv, UNCHANGED owner, NEW r \in Request, NEW row,
         requests' = [requests EXCEPT ![r] = row],
         row.pc \in Beyond =>
           /\ {"pc", "caller", "account"} \subseteq DOMAIN row
           /\ row.account \in Existing
           /\ row.caller \in Admins \cup {owner[row.account]}
  PROVE  OwnerInv'
<1>1. \A q \in Request : requests'[q] = IF q = r THEN row ELSE requests[q]
  BY DEF OwnerInv
<1>2. requests' = [q \in Request |-> requests'[q]]
  BY <1>1 DEF OwnerInv
<1>3. Existing' = Existing
  BY DEF Existing
<1> QED
  BY <1>1, <1>2, <1>3 DEF OwnerInv

\* No step gives an account that was checked another owner.
LEMMA OwnerInvStep == OwnerInv /\ [Next]_vars => OwnerInv'
<1> SUFFICES ASSUME OwnerInv, [Next]_vars PROVE OwnerInv'
  OBVIOUS
<1>1. ASSUME NEW a \in Account, NEW u \in User, CreateEnergyAccount(a, u)
      PROVE  OwnerInv'
  <2>1. owner' \in [Account -> User \cup {NoUser}] /\ UNCHANGED requests
    BY <1>1 DEF CreateEnergyAccount, OwnerInv
  <2>2. \A b \in Existing : b \in Existing' /\ owner'[b] = owner[b]
    BY <1>1 DEF CreateEnergyAccount, OwnerInv, Existing
  <2> QED
    BY <2>1, <2>2 DEF OwnerInv
<1>2. ASSUME NEW r \in Request, NEW caller \in User, NEW u \in User,
             ReadProfile(r, caller, u)
      PROVE  OwnerInv'
  <2>1. CASE requests' = [requests EXCEPT ![r] =
               [pc |-> "empty", caller |-> caller, summary |-> Summarise({})]]
    <3> DEFINE row == [pc |-> "empty", caller |-> caller, summary |-> Summarise({})]
    <3>1. row.pc = "empty"
      OBVIOUS
    <3> HIDE DEF row
    <3> QED
      BY <1>2, <2>1, <3>1, RequestMoves DEF ReadProfile, Beyond, row
  <2>2. ASSUME NEW first \in AccountsOf(u),
               requests' = [requests EXCEPT ![r] =
                 [pc |-> "summarised", caller |-> caller, account |-> first,
                  answer |-> NoAnswer, accounts |-> AccountsOf(u),
                  summary |-> Summarise(AccountsOf(u))]]
        PROVE  OwnerInv'
    <3> DEFINE row == [pc |-> "summarised", caller |-> caller, account |-> first,
                       answer |-> NoAnswer, accounts |-> AccountsOf(u),
                       summary |-> Summarise(AccountsOf(u))]
    <3>1. /\ DOMAIN row = {"pc", "caller", "account", "answer", "accounts", "summary"}
          /\ row.account = first /\ row.caller = caller
      OBVIOUS
    <3>2. requests' = [requests EXCEPT ![r] = row]
      BY <2>2
    <3> HIDE DEF row
    <3>3. first \in Existing /\ owner[first] = u
      BY RolesAssumption DEF AccountsOf, Existing
    <3>4. caller \in Admins \cup {u} /\ UNCHANGED owner
      BY <1>2 DEF ReadProfile, AssertSelfOrAdmin
    <3> QED
      BY <3>1, <3>2, <3>3, <3>4, RequestMoves
  <2> QED
    BY <1>2, <2>1, <2>2 DEF ReadProfile
<1>3. ASSUME NEW r \in Request, NEW caller \in User, NEW a \in Account,
             FindAccountOwner(r, caller, a)
      PROVE  OwnerInv'
  <2> DEFINE row == [pc |-> "checked", caller |-> caller, account |-> a, answer |-> NoAnswer]
  <2>1. /\ DOMAIN row = {"pc", "caller", "account", "answer"}
        /\ row.account = a /\ row.caller = caller
    OBVIOUS
  <2>2. requests' = [requests EXCEPT ![r] = row]
    BY <1>3 DEF FindAccountOwner
  <2> HIDE DEF row
  <2>3. a \in Existing /\ caller \in Admins \cup {owner[a]} /\ UNCHANGED owner
    BY <1>3 DEF FindAccountOwner, AssertSelfOrAdmin
  <2> QED
    BY <2>1, <2>2, <2>3, RequestMoves
<1>4. ASSUME NEW r \in Request, Answer(r) PROVE OwnerInv'
  <2> DEFINE read == requests[r]
             score == CalculateScore(payments[requests[r].account])
             row == [read EXCEPT !.pc = Answered(requests[r].pc), !.answer = score]
  <2>1. /\ {"pc", "caller", "account"} \subseteq DOMAIN read
        /\ read.account \in Existing
        /\ read.caller \in Admins \cup {owner[read.account]}
    BY <1>4 DEF Answer, OwnerInv, Beyond
  <2>2. requests' = [requests EXCEPT ![r] = row] /\ UNCHANGED owner
    BY <1>4 DEF Answer
  <2> HIDE DEF read, score
  <2>3. /\ DOMAIN row = DOMAIN read
        /\ row.account = read.account /\ row.caller = read.caller
    BY <2>1
  <2> HIDE DEF row
  <2> QED
    BY <2>1, <2>2, <2>3, RequestMoves
<1>5. CASE UNCHANGED <<owner, requests>>
  BY <1>5 DEF OwnerInv, Existing
<1> QED
  BY <1>1, <1>2, <1>3, <1>4, <1>5
  DEF Next, vars, CreatePayment, UpsertPayment

\* No caller is shown a score that is neither theirs nor open to an
\* administrator, whatever is created or paid between the check and the answer.
THEOREM AnswersBelongToCallerHolds == Spec => []AnswersBelongToCaller
<1>1. Init => OwnerInv
  BY DEF Init, OwnerInv, NoRequest, Beyond
<1>2. OwnerInv => AnswersBelongToCaller
  BY DEF OwnerInv, AnswersBelongToCaller, Beyond
<1> QED
  BY <1>1, <1>2, OwnerInvStep, PTL DEF Spec

----
\* A set of naturals that is not empty has a least element: the order of the
\* naturals is well founded.
LEMMA LeastOfSet ==
  ASSUME NEW T, T \subseteq Nat, T # {}
  PROVE  \E n \in T : \A m \in T : n <= m
<1> DEFINE R == OpToRel(<, Nat)
<1>1. IsWellFoundedOn(R, Nat)
  BY NatLessThanWellFounded
<1>2. \A m, n \in Nat : m < n => <<m, n>> \in R
  BY DEF R, OpToRel
<1> HIDE DEF R
<1>3. PICK n \in T : \A m \in T : ~ (<<m, n>> \in R)
  BY <1>1, WFMin
<1>4. ASSUME NEW m \in T PROVE n <= m
  <2>1. m \in Nat /\ n \in Nat
    OBVIOUS
  <2>2. ~ (<<m, n>> \in R)
    BY <1>3
  <2> QED
    BY <1>2, <2>1, <2>2
<1> QED
  BY <1>4

\* Induction, for a set of naturals in place of a predicate.
LEMMA SetInduction ==
  ASSUME NEW S, 0 \in S, \A n \in Nat : n \in S => n + 1 \in S
  PROVE  \A n \in Nat : n \in S
<1>1. SUFFICES ASSUME NEW k \in Nat, k \notin S PROVE FALSE
  OBVIOUS
<1>2. PICK n \in Nat \ S : \A m \in Nat \ S : n <= m
  BY <1>1, LeastOfSet, Nat \ S # {}
<1>3. n - 1 \in Nat /\ n - 1 \notin Nat \ S
  BY <1>2
<1> QED
  BY <1>2, <1>3

\* The fold takes the largest position that is left.
LEMMA MaxOfPrefix ==
  ASSUME NEW k \in Nat, NEW s \in SUBSET (1..k), k \in s
  PROVE  Max(s) = k
<1>1. k \in s /\ \A y \in s : k >= y
  OBVIOUS
<1>2. \A x \in s : (\A y \in s : x >= y) => x = k
  OBVIOUS
<1> QED
  BY <1>1, <1>2 DEF Max

\* The function the fold of ScoreOf iterates, over the first k rows.
Loop(iter, rows, k) == iter = [s \in SUBSET (1..k) |->
  IF s = {} THEN 100 ELSE iter[s \ {Max(s)}] - Deduction[rows[Max(s)].status]]

\* Such a function exists for every number of rows, one row at a time.
LEMMA LoopExists ==
  ASSUME NEW rows
  PROVE  \A n \in Nat : \E iter : Loop(iter, rows, n)
<1> DEFINE S == {k \in Nat : \E iter : Loop(iter, rows, k)}
<1>1. 0 \in S
  <2> DEFINE iter == [s \in SUBSET (1..0) |-> 100]
  <2>1. Loop(iter, rows, 0)
    <3>1. \A s \in SUBSET (1..0) : s = {}
      OBVIOUS
    <3> QED
      BY <3>1 DEF Loop
  <2> QED
    BY <2>1
<1>2. ASSUME NEW k \in Nat, k \in S PROVE k + 1 \in S
  <2>1. PICK g : Loop(g, rows, k)
    BY <1>2
  <2> DEFINE f == [s \in SUBSET (1..(k + 1)) |->
        IF k + 1 \in s THEN g[s \ {k + 1}] - Deduction[rows[k + 1].status]
                       ELSE g[s]]
             body(s) == IF s = {} THEN 100
                        ELSE f[s \ {Max(s)}] - Deduction[rows[Max(s)].status]
  <2>2. ASSUME NEW s \in SUBSET (1..(k + 1)) PROVE f[s] = body(s)
    <3>1. CASE k + 1 \in s
      <4>1. Max(s) = k + 1
        BY <3>1, MaxOfPrefix
      <4>2. s \ {k + 1} \in SUBSET (1..(k + 1)) /\ k + 1 \notin s \ {k + 1}
        OBVIOUS
      <4>3. f[s \ {k + 1}] = g[s \ {k + 1}]
        BY <4>2
      <4> QED
        BY <3>1, <4>1, <4>3
    <3>2. CASE k + 1 \notin s
      <4>1. s \in SUBSET (1..k)
        BY <3>2
      <4>2. /\ s \ {Max(s)} \in SUBSET (1..(k + 1))
            /\ k + 1 \notin s \ {Max(s)}
        BY <3>2
      <4>3. f[s \ {Max(s)}] = g[s \ {Max(s)}] /\ f[s] = g[s]
        BY <3>2, <4>2
      <4>4. g[s] = IF s = {} THEN 100
                   ELSE g[s \ {Max(s)}] - Deduction[rows[Max(s)].status]
        BY <2>1, <4>1 DEF Loop
      <4> QED
        BY <4>3, <4>4
    <3> QED
      BY <3>1, <3>2
  <2>3. f = [s \in SUBSET (1..(k + 1)) |-> body(s)]
    <3>1. f = [s \in SUBSET (1..(k + 1)) |-> f[s]]
      OBVIOUS
    <3> HIDE DEF f
    <3> QED
      BY <2>2, <3>1
  <2>4. Loop(f, rows, k + 1)
    <3> HIDE DEF f
    <3> QED
      BY <2>3 DEF Loop
  <2> HIDE DEF f
  <2> QED
    BY <2>4
<1> HIDE DEF S
<1>3. \A k \in Nat : k \in S
  BY <1>1, <1>2, SetInduction
<1> QED
  BY <1>3 DEF S

\* The rows of a status among the first k.
CountTo(rows, k, status) == Cardinality({i \in 1..k : rows[i].status = status})

\* One more row counts for its own status and for no other.
LEMMA CountToStep ==
  ASSUME NEW rows, NEW k \in Nat, NEW status
  PROVE  /\ CountTo(rows, k, status) \in Nat
         /\ CountTo(rows, 0, status) = 0
         /\ CountTo(rows, k + 1, status) =
              CountTo(rows, k, status)
                + IF rows[k + 1].status = status THEN 1 ELSE 0
<1> DEFINE C(n) == {i \in 1..n : rows[i].status = status}
<1>1. IsFiniteSet(C(k)) /\ Cardinality(C(k)) \in Nat
  <2>1. IsFiniteSet(1..k) /\ C(k) \in SUBSET (1..k)
    BY FS_Interval
  <2> HIDE DEF C
  <2> QED
    BY <2>1, FS_Subset, FS_CardinalityType
<1>2. C(0) = {} /\ Cardinality(C(0)) = 0
  BY FS_EmptySet
<1>3. CASE rows[k + 1].status = status
  <2>1. C(k + 1) = C(k) \cup {k + 1} /\ k + 1 \notin C(k)
    BY <1>3
  <2>2. Cardinality(C(k + 1)) = Cardinality(C(k)) + 1
    BY <1>1, <2>1, FS_AddElement
  <2> QED
    BY <1>1, <1>2, <1>3, <2>2 DEF CountTo
<1>4. CASE rows[k + 1].status # status
  <2>1. C(k + 1) = C(k)
    BY <1>4
  <2>2. /\ CountTo(rows, k, status) = Cardinality(C(k))
        /\ CountTo(rows, k + 1, status) = Cardinality(C(k + 1))
        /\ CountTo(rows, 0, status) = Cardinality(C(0))
    BY DEF CountTo
  <2> HIDE DEF C
  <2> QED
    BY <1>1, <1>2, <1>4, <2>1, <2>2
<1> QED
  BY <1>3, <1>4

\* What the first k rows take off the score.
Lost(rows, k) == 10 * CountTo(rows, k, "late") + 25 * CountTo(rows, k, "missed")
                   + 40 * CountTo(rows, k, "default")

\* One more row costs what the loop deducts for it.
LEMMA LostStep ==
  ASSUME NEW rows, NEW k \in Nat, rows[k + 1].status \in Statuses
  PROVE  /\ Lost(rows, 0) = 0
         /\ Lost(rows, k) \in Nat
         /\ Lost(rows, k + 1) = Lost(rows, k) + Deduction[rows[k + 1].status]
         /\ Deduction[rows[k + 1].status] \in Nat
<1> DEFINE status == rows[k + 1].status
           late(n) == CountTo(rows, n, "late")
           missed(n) == CountTo(rows, n, "missed")
           default(n) == CountTo(rows, n, "default")
<1>1. /\ late(0) = 0 /\ late(k) \in Nat
      /\ late(k + 1) = late(k) + IF status = "late" THEN 1 ELSE 0
  BY CountToStep
<1>2. /\ missed(0) = 0 /\ missed(k) \in Nat
      /\ missed(k + 1) = missed(k) + IF status = "missed" THEN 1 ELSE 0
  BY CountToStep
<1>3. /\ default(0) = 0 /\ default(k) \in Nat
      /\ default(k + 1) = default(k) + IF status = "default" THEN 1 ELSE 0
  BY CountToStep
<1>4. \A n : Lost(rows, n) = 10 * late(n) + 25 * missed(n) + 40 * default(n)
  BY DEF Lost
<1>5. status \in Statuses
  OBVIOUS
<1> HIDE DEF status, late, missed, default
<1>6. Deduction[status] = IF status = "late" THEN 10
                          ELSE IF status = "missed" THEN 25
                          ELSE IF status = "default" THEN 40 ELSE 0
  BY <1>5 DEF Deduction, Statuses
<1>7. Lost(rows, 0) = 0 /\ Lost(rows, k) \in Nat
  BY <1>1, <1>2, <1>3, <1>4
<1>8. Lost(rows, k + 1) = Lost(rows, k) + Deduction[status]
  BY <1>1, <1>2, <1>3, <1>4, <1>6
<1> QED
  BY <1>6, <1>7, <1>8 DEF status

\* One turn of the loop.
LEMMA LoopStep ==
  ASSUME NEW n \in Nat, NEW rows, NEW iter, Loop(iter, rows, n),
         NEW k \in Nat, k + 1 <= n
  PROVE  iter[1..(k + 1)] = iter[1..k] - Deduction[rows[k + 1].status]
<1> DEFINE s == 1..(k + 1)
<1>1. k + 1 \in s /\ s # {} /\ s \ {k + 1} = 1..k
  OBVIOUS
<1>2. \A i \in s : i \in 1..n
  OBVIOUS
<1>3. s \in SUBSET (1..n) /\ s \in SUBSET (1..(k + 1))
  BY <1>2
<1> HIDE DEF s
<1>4. Max(s) = k + 1
  BY <1>1, <1>3, MaxOfPrefix
<1>5. iter[s] = iter[s \ {Max(s)}] - Deduction[rows[Max(s)].status]
  BY <1>1, <1>3 DEF Loop
<1> QED
  BY <1>1, <1>4, <1>5 DEF s

\* After n turns the running score is 100 less what the n rows cost.
LEMMA LoopIsReference ==
  ASSUME NEW n \in Nat, NEW rows, \A k \in 1..n : rows[k].status \in Statuses,
         NEW iter, Loop(iter, rows, n)
  PROVE  /\ Lost(rows, n) \in Nat
         /\ iter[1..n] = 100 - Lost(rows, n)
<1> DEFINE S == {k \in Nat : k <= n => /\ Lost(rows, k) \in Nat
                                      /\ iter[1..k] = 100 - Lost(rows, k)}
<1>1. 0 \in S
  <2>1. {} \in SUBSET (1..n) /\ 1..0 = {}
    OBVIOUS
  <2>2. iter[{}] = 100
    BY <2>1 DEF Loop
  <2>3. Lost(rows, 0) = 0
    BY CountToStep DEF Lost
  <2> QED
    BY <2>1, <2>2, <2>3
<1>2. ASSUME NEW k \in Nat, k \in S PROVE k + 1 \in S
  <2>1. SUFFICES ASSUME k + 1 <= n
                 PROVE  /\ Lost(rows, k + 1) \in Nat
                        /\ iter[1..(k + 1)] = 100 - Lost(rows, k + 1)
    OBVIOUS
  <2>2. iter[1..k] = 100 - Lost(rows, k)
    BY <1>2, <2>1
  <2> HIDE DEF S
  <2>3. iter[1..(k + 1)] = iter[1..k] - Deduction[rows[k + 1].status]
    BY <2>1, LoopStep
  <2> DEFINE d == Deduction[rows[k + 1].status]
  <2>4. /\ Lost(rows, k) \in Nat /\ d \in Nat
        /\ Lost(rows, k + 1) = Lost(rows, k) + d
    <3>1. rows[k + 1].status \in Statuses
      BY <2>1
    <3> QED
      BY <3>1, LostStep
  <2>5. iter[1..(k + 1)] = iter[1..k] - d
    BY <2>3
  <2> HIDE DEF d
  <2> QED
    BY <2>2, <2>4, <2>5
<1> HIDE DEF S
<1>3. \A k \in Nat : k \in S
  BY <1>1, <1>2, SetInduction
<1> QED
  BY <1>3 DEF S

\* Math.max(0, Math.min(score, 100)), on the integers.
LEMMA ClampIs ==
  ASSUME NEW x \in Int
  PROVE  Clamp(x) = IF x < 0 THEN 0 ELSE IF x > 100 THEN 100 ELSE x
<1>1. \A a, b \in Int : Max({a, b}) = IF a >= b THEN a ELSE b
  BY DEF Max
<1>2. \A a, b \in Int : Min({a, b}) = IF a <= b THEN a ELSE b
  BY DEF Min
<1> QED
  BY <1>1, <1>2 DEF Clamp

\* The score of a history of n rows, by its costs.
LEMMA ScoreOfIs ==
  ASSUME NEW rows, NEW n \in Nat, DOMAIN rows = 1..n,
         \A k \in 1..n : rows[k].status \in Statuses
  PROVE  /\ Lost(rows, n) \in Nat
         /\ ScoreOf(rows) = IF Lost(rows, n) > 100 THEN 0 ELSE 100 - Lost(rows, n)
<1> DEFINE iter == CHOOSE iter : Loop(iter, rows, n)
<1>1. Loop(iter, rows, n)
  BY LoopExists
<1>2. ScoreOf(rows) = Clamp(iter[1..n])
  BY DEF ScoreOf, FoldLeft, MapThenFoldSet, Loop
<1> HIDE DEF iter
<1> QED
  BY <1>1, <1>2, LoopIsReference, ClampIs

----
\* A row of the sync has the status the provider reports for its position, so
\* writing it again changes nothing.
Agrees(row) ==
  row.reference # NoReference => row.status = ProviderHistory[row.reference]

AllAgree(rows) == \A k \in DOMAIN rows : Agrees(rows[k])

RowsInv ==
  /\ payments \in [Account -> Seq(Payment)]
  /\ \A a \in Account : AllAgree(payments[a])

\* Both writers of payments write a known status.
LEMMA HistoryTypes ==
  /\ DOMAIN ProviderHistory = {1, 2}
  /\ Len(ProviderHistory) = 2
  /\ \A i \in {1, 2} : ProviderHistory[i] \in Statuses
  /\ \A raw \in DOMAIN LowerCase : MapStatus(raw) \in Statuses
BY DEF ProviderHistory, Statuses, MapStatus

Appends(rows) == \E row \in Payment : rows' = Append(rows, row) /\ Agrees(row)

\* An upsert of a payment that is there already writes what it holds.
LEMMA UpsertAppends ==
  ASSUME RowsInv, NEW a \in Account, NEW i \in DOMAIN ProviderHistory,
         UpsertPayment(a, i)
  PROVE  \/ UNCHANGED payments
         \/ /\ Appends(payments[a])
            /\ payments' = [payments EXCEPT ![a] = payments'[a]]
<1> DEFINE rows == payments[a]
           updated == [k \in DOMAIN rows |->
             IF rows[k].reference = i
               THEN [rows[k] EXCEPT !.status = ProviderHistory[i]] ELSE rows[k]]
           row == [reference |-> i, status |-> ProviderHistory[i]]
<1>1. rows \in Seq(Payment) /\ rows = [k \in DOMAIN rows |-> rows[k]]
  BY DEF RowsInv
<1>2. payments' = [payments EXCEPT ![a] =
        IF \E k \in DOMAIN rows : rows[k].reference = i
          THEN updated ELSE Append(rows, row)]
  BY DEF UpsertPayment
<1>3. ASSUME NEW k \in DOMAIN rows, rows[k].reference = i
      PROVE  [rows[k] EXCEPT !.status = ProviderHistory[i]] = rows[k]
  <2>1. rows[k] \in Payment /\ i # NoReference
    BY <1>1, HistoryTypes DEF NoReference
  <2>2. rows[k].status = ProviderHistory[i]
    BY <1>3, <2>1 DEF RowsInv, AllAgree, Agrees
  <2> HIDE DEF rows
  <2> QED
    BY <2>1, <2>2 DEF Payment
<1>4. updated = rows
  <2>1. \A k \in DOMAIN rows : updated[k] = rows[k]
    BY <1>3
  <2> HIDE DEF rows
  <2> QED
    BY <1>1, <2>1
<1>5. row \in Payment /\ row.reference = i /\ row.status = ProviderHistory[i]
  BY HistoryTypes DEF Payment, NoReference
<1>6. payments = [b \in Account |-> payments[b]]
  BY DEF RowsInv
<1> HIDE DEF updated, row
<1>7. CASE \E k \in DOMAIN rows : rows[k].reference = i
  <2>1. payments' = [payments EXCEPT ![a] = payments[a]]
    BY <1>2, <1>4, <1>7
  <2> QED
    BY <1>6, <2>1
<1>8. CASE ~ \E k \in DOMAIN rows : rows[k].reference = i
  <2>1. payments' = [payments EXCEPT ![a] = Append(rows, row)]
    BY <1>2, <1>8
  <2>2. payments'[a] = Append(rows, row)
    BY <1>6, <2>1
  <2> QED
    BY <1>5, <2>1, <2>2 DEF Appends, Agrees
<1> QED
  BY <1>7, <1>8

\* POST /payments adds a row.
LEMMA CreateAppends ==
  ASSUME RowsInv, NEW caller, NEW a \in Account, NEW raw \in DOMAIN LowerCase,
         CreatePayment(caller, a, raw)
  PROVE  /\ Appends(payments[a])
         /\ payments' = [payments EXCEPT ![a] = payments'[a]]
<1> DEFINE row == [reference |-> NoReference, status |-> MapStatus(raw)]
<1>1. row \in Payment /\ row.reference = NoReference
  BY HistoryTypes DEF Payment, NoReference
<1>2. payments' = [payments EXCEPT ![a] = Append(payments[a], row)]
  BY DEF CreatePayment
<1> HIDE DEF row
<1>3. payments'[a] = Append(payments[a], row)
  BY <1>2 DEF RowsInv
<1> QED
  BY <1>1, <1>2, <1>3 DEF Appends, Agrees

\* A history changes only by a row at its end.
LEMMA PaymentsAppend ==
  ASSUME RowsInv, [Next]_vars
  PROVE  \/ UNCHANGED payments
         \/ \E a \in Account : /\ Appends(payments[a])
                               /\ payments' = [payments EXCEPT ![a] = payments'[a]]
BY UpsertAppends, CreateAppends
DEF Next, vars, CreateEnergyAccount, ReadProfile, FindAccountOwner, Answer

\* Every step keeps the histories what the two writers make of them.
LEMMA RowsInvStep == RowsInv /\ [Next]_vars => RowsInv'
<1> SUFFICES ASSUME RowsInv, [Next]_vars PROVE RowsInv'
  OBVIOUS
<1>1. CASE UNCHANGED payments
  BY <1>1 DEF RowsInv
<1>2. ASSUME NEW a \in Account, Appends(payments[a]),
             payments' = [payments EXCEPT ![a] = payments'[a]]
      PROVE  RowsInv'
  <2>1. PICK row \in Payment :
          /\ payments'[a] = Append(payments[a], row)
          /\ Agrees(row)
    BY <1>2 DEF Appends
  <2> DEFINE rows == payments[a]
  <2>2. rows \in Seq(Payment)
    BY DEF RowsInv
  <2>3. /\ Append(rows, row) \in Seq(Payment)
        /\ DOMAIN Append(rows, row) = 1..(Len(rows) + 1)
        /\ \A k \in 1..Len(rows) : Append(rows, row)[k] = rows[k]
        /\ Append(rows, row)[Len(rows) + 1] = row
    BY <2>2, AppendProperties
  <2>4. \A k \in 1..(Len(rows) + 1) : k \in 1..Len(rows) \/ k = Len(rows) + 1
    BY <2>2
  <2>5. \A b \in Account : b # a => payments'[b] = payments[b]
    BY <1>2 DEF RowsInv
  <2>6. payments' \in [Account -> Seq(Payment)]
    BY <1>2, <2>1, <2>3 DEF RowsInv
  <2>7. AllAgree(payments'[a])
    BY <2>1, <2>2, <2>3, <2>4 DEF RowsInv, AllAgree
  <2> QED
    BY <2>5, <2>6, <2>7 DEF RowsInv
<1> QED
  BY <1>1, <1>2, PaymentsAppend

\* What a history costs, as ScoreIsReference states it.
PointsLost(rows) == 10 * Count(rows, "late") + 25 * Count(rows, "missed")
                      + 40 * Count(rows, "default")

\* The score of a history in the words of the property, and its range.
LEMMA HistoryIsScored ==
  ASSUME NEW rows \in Seq(Payment)
  PROVE  /\ Len(rows) \in Nat
         /\ \A status : Count(rows, status) \in Nat
         /\ PointsLost(rows) \in Nat
         /\ ScoreOf(rows) = IF PointsLost(rows) > 100 THEN 0 ELSE 100 - PointsLost(rows)
         /\ ScoreOf(rows) \in 0..100
<1>1. /\ Len(rows) \in Nat /\ DOMAIN rows = 1..Len(rows)
      /\ \A k \in 1..Len(rows) : rows[k].status \in Statuses
  <2>1. /\ Len(rows) \in Nat /\ DOMAIN rows = 1..Len(rows)
        /\ \A k \in 1..Len(rows) : rows[k] \in Payment
    OBVIOUS
  <2>2. \A row \in Payment : row.status \in Statuses
    BY DEF Payment
  <2> QED
    BY <2>1, <2>2
<1>2. \A status : Count(rows, status) = CountTo(rows, Len(rows), status)
  BY <1>1 DEF Count, CountTo
<1>3. \A status : CountTo(rows, Len(rows), status) \in Nat
  BY <1>1, CountToStep
<1>4. PointsLost(rows) = Lost(rows, Len(rows))
  BY <1>2 DEF PointsLost, Lost
<1>5. /\ Lost(rows, Len(rows)) \in Nat
      /\ ScoreOf(rows) = IF Lost(rows, Len(rows)) > 100 THEN 0
                         ELSE 100 - Lost(rows, Len(rows))
  BY <1>1, ScoreOfIs
<1>6. \A status : Count(rows, status) \in Nat
  BY <1>2, <1>3
<1>7. /\ PointsLost(rows) \in Nat
      /\ ScoreOf(rows) = IF PointsLost(rows) > 100 THEN 0 ELSE 100 - PointsLost(rows)
  BY <1>4, <1>5
<1>8. ScoreOf(rows) \in 0..100
  <2> DEFINE lost == PointsLost(rows)
             score == ScoreOf(rows)
  <2>1. lost \in Nat /\ score = IF lost > 100 THEN 0 ELSE 100 - lost
    BY <1>7
  <2> HIDE DEF lost, score
  <2>2. score \in 0..100
    BY <2>1
  <2> QED
    BY <2>2 DEF score
<1> QED
  BY <1>1, <1>6, <1>7, <1>8

\* A row at the end takes nothing away from any count.
LEMMA AppendCounts ==
  ASSUME NEW rows \in Seq(Payment), NEW row \in Payment
  PROVE  /\ Append(rows, row) \in Seq(Payment)
         /\ Len(Append(rows, row)) = Len(rows) + 1
         /\ \A status \in Statuses :
              Count(rows, status) <= Count(Append(rows, row), status)
<1> DEFINE more == Append(rows, row)
<1>1. /\ more \in Seq(Payment) /\ Len(more) = Len(rows) + 1 /\ Len(rows) \in Nat
      /\ DOMAIN rows = 1..Len(rows) /\ DOMAIN more = 1..(Len(rows) + 1)
      /\ \A k \in 1..Len(rows) : more[k] = rows[k]
  BY AppendProperties
<1> HIDE DEF more
<1>2. ASSUME NEW status \in Statuses PROVE Count(rows, status) <= Count(more, status)
  <2> DEFINE few  == {k \in DOMAIN rows : rows[k].status = status}
             many == {k \in DOMAIN more : more[k].status = status}
  <2>1. few \subseteq many
    BY <1>1
  <2>2. IsFiniteSet(DOMAIN more)
    BY <1>1, FS_Interval
  <2>3. IsFiniteSet(many)
    BY <2>2, FS_Subset
  <2> HIDE DEF few, many
  <2>4. Cardinality(few) <= Cardinality(many)
    BY <2>1, <2>3, FS_Subset
  <2> QED
    BY <2>4 DEF Count, few, many
<1> QED
  BY <1>1, <1>2 DEF more

\* More late, missed or defaulted payments cost more.
LEMMA CostGrows ==
  ASSUME NEW l \in Nat, NEW m \in Nat, NEW d \in Nat,
         NEW x \in Nat, NEW y \in Nat, NEW z \in Nat, l <= x, m <= y, d <= z
  PROVE  10 * l + 25 * m + 40 * d <= 10 * x + 25 * y + 40 * z
OBVIOUS

\* So it never improves the score.
LEMMA AppendNeverRaises ==
  ASSUME NEW rows \in Seq(Payment), NEW row \in Payment
  PROVE  ScoreOf(Append(rows, row)) <= ScoreOf(rows)
<1> DEFINE more == Append(rows, row)
<1>1. /\ more \in Seq(Payment)
      /\ Count(rows, "late") <= Count(more, "late")
      /\ Count(rows, "missed") <= Count(more, "missed")
      /\ Count(rows, "default") <= Count(more, "default")
  BY AppendCounts DEF Statuses
<1> HIDE DEF more
<1>2. \A h \in Seq(Payment) :
        /\ Count(h, "late") \in Nat
        /\ Count(h, "missed") \in Nat
        /\ Count(h, "default") \in Nat
  BY HistoryIsScored
<1>3. PointsLost(rows) <= PointsLost(more)
  <2>1. /\ Count(rows, "late") \in Nat /\ Count(more, "late") \in Nat
        /\ Count(rows, "missed") \in Nat /\ Count(more, "missed") \in Nat
        /\ Count(rows, "default") \in Nat /\ Count(more, "default") \in Nat
    BY <1>1, <1>2
  <2> QED
    BY <1>1, <2>1, CostGrows DEF PointsLost
<1>4. \A h \in Seq(Payment) :
        /\ PointsLost(h) \in Nat
        /\ ScoreOf(h) = IF PointsLost(h) > 100 THEN 0 ELSE 100 - PointsLost(h)
  BY HistoryIsScored
<1>5. ScoreOf(more) <= ScoreOf(rows)
  BY <1>1, <1>3, <1>4
<1> QED
  BY <1>5 DEF more

\* The position of a score's rating among the ratings.
RankOf(score) == IF score >= 90 THEN 5 ELSE IF score >= 75 THEN 4
                 ELSE IF score >= 50 THEN 3 ELSE IF score >= 25 THEN 2 ELSE 1

\* The branches of getRating cover 0..100 and name one rating each.
LEMMA RatingIsRank ==
  ASSUME NEW score \in 0..100
  PROVE  /\ RankOf(score) \in DOMAIN Ratings
         /\ \A i \in DOMAIN Ratings :
              Ratings[i] = GetRating(score) => i = RankOf(score)
         /\ GetRating(score) \in ToSet(Ratings)
<1>0. /\ DOMAIN Ratings = {1, 2, 3, 4, 5}
      /\ Ratings[1] = "High Risk" /\ Ratings[2] = "Poor" /\ Ratings[3] = "Fair"
      /\ Ratings[4] = "Good" /\ Ratings[5] = "Excellent"
  BY DEF Ratings
<1>6. ASSUME NEW i \in {1, 2, 3, 4, 5},
             GetRating(score) = Ratings[i], RankOf(score) = i
      PROVE  /\ RankOf(score) \in DOMAIN Ratings
             /\ \A j \in DOMAIN Ratings :
                  Ratings[j] = GetRating(score) => j = RankOf(score)
             /\ GetRating(score) \in ToSet(Ratings)
  <2>1. \A j \in DOMAIN Ratings : Ratings[j] = Ratings[i] => j = i
    <3>1. /\ Ratings[1] \notin {Ratings[2], Ratings[3], Ratings[4], Ratings[5]}
          /\ Ratings[2] \notin {Ratings[3], Ratings[4], Ratings[5]}
          /\ Ratings[3] \notin {Ratings[4], Ratings[5]}
          /\ Ratings[4] # Ratings[5]
      BY <1>0
    <3>2. \A j \in {1, 2, 3, 4, 5} : j = 1 \/ j = 2 \/ j = 3 \/ j = 4 \/ j = 5
      OBVIOUS
    <3>3. ASSUME NEW j \in DOMAIN Ratings, Ratings[j] = Ratings[i] PROVE j = i
      <4>1. CASE i = 1
        BY <1>0, <3>1, <3>2, <3>3, <4>1, Zenon
      <4>2. CASE i = 2
        BY <1>0, <3>1, <3>2, <3>3, <4>2, Zenon
      <4>3. CASE i = 3
        BY <1>0, <3>1, <3>2, <3>3, <4>3, Zenon
      <4>4. CASE i = 4
        BY <1>0, <3>1, <3>2, <3>3, <4>4, Zenon
      <4>5. CASE i = 5
        BY <1>0, <3>1, <3>2, <3>3, <4>5, Zenon
      <4> QED
        BY <4>1, <4>2, <4>3, <4>4, <4>5
    <3> QED
      BY <3>3
  <2>2. GetRating(score) \in ToSet(Ratings)
    BY <1>0, <1>6 DEF ToSet
  <2> QED
    BY <1>0, <1>6, <2>1, <2>2
<1>1. CASE score >= 90
  <2>1. GetRating(score) = "Excellent" /\ RankOf(score) = 5
    BY <1>1 DEF GetRating, RankOf
  <2> QED
    BY <1>0, <1>6, <2>1
<1>2. CASE score \in 75..89
  <2>1. GetRating(score) = "Good" /\ RankOf(score) = 4
    BY <1>2 DEF GetRating, RankOf
  <2> QED
    BY <1>0, <1>6, <2>1
<1>3. CASE score \in 50..74
  <2>1. GetRating(score) = "Fair" /\ RankOf(score) = 3
    BY <1>3 DEF GetRating, RankOf
  <2> QED
    BY <1>0, <1>6, <2>1
<1>4. CASE score \in 25..49
  <2>1. GetRating(score) = "Poor" /\ RankOf(score) = 2
    BY <1>4 DEF GetRating, RankOf
  <2> QED
    BY <1>0, <1>6, <2>1
<1>5. CASE score \in 0..24
  <2>1. GetRating(score) = "High Risk" /\ RankOf(score) = 1
    BY <1>5 DEF GetRating, RankOf
  <2> QED
    BY <1>0, <1>6, <2>1
<1> QED
  BY <1>1, <1>2, <1>3, <1>4, <1>5

\* A lower score is not rated better.
LEMMA RankMonotone ==
  ASSUME NEW x \in 0..100, NEW y \in 0..100, x <= y
  PROVE  RankOf(x) <= RankOf(y)
BY DEF RankOf

\* For histories of any length and order the loop of calculateScore returns
\* 100 less what the rows cost, and nothing below 0.
THEOREM ScoreIsReferenceHolds == Spec => []ScoreIsReference
<1>1. Init => RowsInv
  BY DEF Init, RowsInv, AllAgree
<1>2. RowsInv => ScoreIsReference
  <2> SUFFICES ASSUME RowsInv, NEW a \in Account
               PROVE  ScoreOf(payments[a]) =
                        IF PointsLost(payments[a]) > 100 THEN 0
                        ELSE 100 - PointsLost(payments[a])
    BY DEF ScoreIsReference, PointsLost
  <2>1. payments[a] \in Seq(Payment)
    BY DEF RowsInv
  <2> QED
    BY <2>1, HistoryIsScored
<1> QED
  BY <1>1, <1>2, RowsInvStep, PTL DEF Spec

\* Whatever administrators enter and however often the sync repeats itself,
\* no account's score or rating ever improves.
THEOREM ScoreNeverRisesHolds == Spec => ScoreNeverRises
<1>1. Init => RowsInv
  BY DEF Init, RowsInv, AllAgree
<1>2. RowsInv /\ [Next]_vars =>
        [\A a \in Account :
           /\ ScoreOf(payments'[a]) <= ScoreOf(payments[a])
           /\ \A i, j \in DOMAIN Ratings :
                /\ Ratings[i] = GetRating(ScoreOf(payments[a]))
                /\ Ratings[j] = GetRating(ScoreOf(payments'[a]))
                => j <= i]_vars
  <2> SUFFICES ASSUME RowsInv, [Next]_vars, NEW a \in Account
               PROVE  /\ ScoreOf(payments'[a]) <= ScoreOf(payments[a])
                      /\ \A i, j \in DOMAIN Ratings :
                           /\ Ratings[i] = GetRating(ScoreOf(payments[a]))
                           /\ Ratings[j] = GetRating(ScoreOf(payments'[a]))
                           => j <= i
    OBVIOUS
  <2>1. payments[a] \in Seq(Payment)
    BY DEF RowsInv
  <2>2. payments'[a] \in Seq(Payment)
    BY RowsInvStep DEF RowsInv
  <2>3. payments'[a] = payments[a] \/ Appends(payments[a])
    <3>1. ASSUME NEW b \in Account, Appends(payments[b]),
                 payments' = [payments EXCEPT ![b] = payments'[b]]
          PROVE  payments'[a] = payments[a] \/ Appends(payments[a])
      BY <3>1 DEF RowsInv
    <3> QED
      BY <3>1, PaymentsAppend
  <2>4. ScoreOf(payments[a]) \in 0..100 /\ ScoreOf(payments'[a]) \in 0..100
    BY <2>1, <2>2, HistoryIsScored
  <2>5. ScoreOf(payments'[a]) <= ScoreOf(payments[a])
    <3>1. ASSUME Appends(payments[a])
          PROVE  ScoreOf(payments'[a]) <= ScoreOf(payments[a])
      <4>1. PICK row \in Payment : payments'[a] = Append(payments[a], row)
        BY <3>1 DEF Appends
      <4> QED
        BY <2>1, <4>1, AppendNeverRaises
    <3> QED
      BY <2>3, <2>4, <3>1
  <2>6. RankOf(ScoreOf(payments'[a])) <= RankOf(ScoreOf(payments[a]))
    BY <2>4, <2>5, RankMonotone
  <2> QED
    BY <2>4, <2>5, <2>6, RatingIsRank
<1> QED
  BY <1>1, <1>2, RowsInvStep, PTL DEF Spec, ScoreNeverRises

----
\* A user with one account: the query returns it alone ...
LEMMA SequenceOfOne ==
  ASSUME NEW a PROVE SetToSeq({a}) = <<a>>
<1>1. Cardinality({a}) = 1
  BY FS_Singleton
<1>2. <<a>> \in [1..1 -> {a}] /\ IsInjective(<<a>>)
  BY DEF IsInjective
<1>3. \A f \in [1..1 -> {a}] : f = <<a>>
  <2>1. ASSUME NEW f \in [1..1 -> {a}] PROVE f = <<a>>
    <3>1. f = [i \in 1..1 |-> f[i]] /\ \A i \in 1..1 : f[i] = a
      OBVIOUS
    <3>2. <<a>> = [i \in 1..1 |-> a]
      OBVIOUS
    <3> QED
      BY <3>1, <3>2
  <2> QED
    BY <2>1
<1> QED
  BY <1>1, <1>2, <1>3 DEF SetToSeq

\* ... and flatMap returns its payments.
JoinBody(f, a, s) ==
  IF s = {} THEN <<>> ELSE f[s \ {Max(s)}] \o payments[<<a>>[Max(s)]]

Join(f, a) == f = [s \in SUBSET {1} |-> JoinBody(f, a, s)]

\* The payments of a single account, joined, are its payments.
LEMMA JoinOfOne ==
  ASSUME NEW a, payments[a] \in Seq(Payment)
  PROVE  FoldLeft(LAMBDA all, b : all \o payments[b], <<>>, <<a>>) = payments[a]
<1> DEFINE iter == CHOOSE f : Join(f, a)
           joined == <<>> \o payments[a]
<1>1. DOMAIN <<a>> = {1} /\ <<a>>[1] = a
  OBVIOUS
<1>2. SUBSET {1} = {{}, {1}}
  OBVIOUS
<1>3. Max({1}) = 1 /\ {1} \ {1} = {}
  BY DEF Max
<1>4. \A f : JoinBody(f, a, {}) = <<>> /\ JoinBody(f, a, {1}) = f[{}] \o payments[a]
  BY <1>1, <1>3 DEF JoinBody
<1>5. \E f : Join(f, a)
  <2> DEFINE f == [s \in SUBSET {1} |-> IF s = {} THEN <<>> ELSE joined]
  <2>1. f[{}] = <<>> /\ f[{1}] = joined
    OBVIOUS
  <2>2. f = [s \in SUBSET {1} |-> f[s]]
    OBVIOUS
  <2> HIDE DEF f
  <2>3. \A s \in SUBSET {1} : f[s] = JoinBody(f, a, s)
    BY <1>2, <1>4, <2>1
  <2> QED
    BY <2>2, <2>3 DEF Join
<1>6. Join(iter, a)
  BY <1>5
<1>7. FoldLeft(LAMBDA all, b : all \o payments[b], <<>>, <<a>>) = iter[{1}]
  BY <1>1 DEF FoldLeft, MapThenFoldSet, Join, JoinBody
<1> HIDE DEF iter
<1>8. iter[{}] = <<>> /\ iter[{1}] = <<>> \o payments[a]
  <2>1. \A s \in SUBSET {1} : iter[s] = JoinBody(iter, a, s)
    BY <1>6 DEF Join
  <2>2. {} \in SUBSET {1} /\ {1} \in SUBSET {1}
    OBVIOUS
  <2>3. iter[{}] = <<>>
    BY <1>4, <2>1, <2>2
  <2>4. iter[{1}] = iter[{}] \o payments[a]
    BY <1>4, <2>1, <2>2
  <2> QED
    BY <2>3, <2>4
<1> QED
  BY <1>7, <1>8, ConcatEmptySeq

\* A summary read earlier than the rows: the rows are those it counted, or more.
Covers(summary, rows) ==
  /\ summary.totalPayments \in Nat /\ summary.totalPayments <= Len(rows)
  /\ summary.late \in Nat /\ summary.late <= Count(rows, "late")
  /\ summary.missed \in Nat /\ summary.missed <= Count(rows, "missed")

\* What ScoreAccountsForSummary asks of an answer.
AnswersFor(answer, summary) ==
  /\ answer.totalPayments >= summary.totalPayments
  /\ answer.score <= Max({0, 100 - 10 * summary.late - 25 * summary.missed})

InRange(answer) == answer.score \in 0..100 /\ answer.rating \in ToSet(Ratings)

(* A request between its two queries has a summary that the history of its *)
(* account, if that is the only one, still covers; an answered one has an   *)
(* answer that accounts for the summary.                                   *)
Sound(request) ==
  /\ request.pc \in Beyond => {"pc", "answer"} \subseteq DOMAIN request
  /\ request.pc \in {"profiled", "scored"} => InRange(request.answer)
  /\ request.pc \in {"summarised", "profiled"} =>
       /\ {"accounts", "summary"} \subseteq DOMAIN request
       /\ IsFiniteSet(request.accounts) /\ request.account \in request.accounts
       /\ request.accounts = {request.account} =>
            Covers(request.summary, payments[request.account])
  /\ request.pc = "profiled" /\ request.accounts = {request.account} =>
       AnswersFor(request.answer, request.summary)

ReadInv ==
  /\ OwnerInv
  /\ RowsInv
  /\ IsFiniteSet(Existing)
  /\ \A r \in Request : Sound(requests[r])

\* Payments that arrive between the two queries only add to what was counted.
LEMMA CoversGrow ==
  ASSUME RowsInv, [Next]_vars, NEW a \in Account, NEW summary,
         Covers(summary, payments[a])
  PROVE  Covers(summary, payments'[a])
<1>1. payments'[a] = payments[a] \/ Appends(payments[a])
  <2>1. ASSUME NEW b \in Account, Appends(payments[b]),
               payments' = [payments EXCEPT ![b] = payments'[b]]
        PROVE  payments'[a] = payments[a] \/ Appends(payments[a])
    BY <2>1 DEF RowsInv
  <2> QED
    BY <2>1, PaymentsAppend
<1>2. ASSUME NEW row \in Payment, payments'[a] = Append(payments[a], row)
      PROVE  Covers(summary, payments'[a])
  <2> DEFINE rows == payments[a]
             more == Append(rows, row)
  <2>1. rows \in Seq(Payment)
    BY DEF RowsInv
  <2> HIDE DEF rows
  <2>2. /\ more \in Seq(Payment) /\ Len(more) = Len(rows) + 1 /\ Len(rows) \in Nat
        /\ Count(rows, "late") <= Count(more, "late")
        /\ Count(rows, "missed") <= Count(more, "missed")
    BY <2>1, AppendCounts DEF Statuses
  <2> HIDE DEF more
  <2>3. /\ Count(rows, "late") \in Nat /\ Count(more, "late") \in Nat
        /\ Count(rows, "missed") \in Nat /\ Count(more, "missed") \in Nat
    BY <2>1, <2>2, HistoryIsScored
  <2>4. Covers(summary, rows)
    BY DEF rows
  <2>5. Covers(summary, more)
    BY <2>2, <2>3, <2>4 DEF Covers
  <2> QED
    BY <1>2, <2>5 DEF more, rows
<1> QED
  BY <1>1, <1>2 DEF Appends

\* A score computed from a history answers for every earlier summary of it.
LEMMA AnswerIsSound ==
  ASSUME NEW rows \in Seq(Payment)
  PROVE  /\ InRange(CalculateScore(rows))
         /\ \A summary : Covers(summary, rows) =>
              AnswersFor(CalculateScore(rows), summary)
<1> DEFINE answer == CalculateScore(rows)
<1>1. /\ answer.totalPayments = Len(rows) /\ answer.score = ScoreOf(rows)
      /\ answer.rating = GetRating(ScoreOf(rows))
  BY DEF CalculateScore
<1> HIDE DEF answer
<1>2. InRange(answer)
  BY <1>1, HistoryIsScored, RatingIsRank DEF InRange
<1>3. ASSUME NEW summary, Covers(summary, rows) PROVE AnswersFor(answer, summary)
  <2> DEFINE late == Count(rows, "late")
             missed == Count(rows, "missed")
             default == Count(rows, "default")
             score == ScoreOf(rows)
             l == summary.late
             m == summary.missed
  <2>1. /\ late \in Nat /\ missed \in Nat /\ default \in Nat
        /\ score = IF 10 * late + 25 * missed + 40 * default > 100 THEN 0
                   ELSE 100 - (10 * late + 25 * missed + 40 * default)
    BY HistoryIsScored DEF PointsLost
  <2>2. l \in Nat /\ l <= late /\ m \in Nat /\ m <= missed
    BY <1>3 DEF Covers
  <2>3. answer.totalPayments >= summary.totalPayments
    BY <1>1, <1>3, HistoryIsScored DEF Covers
  <2>4. AnswersFor(answer, summary) <=> score <= Max({0, 100 - 10 * l - 25 * m})
    BY <1>1, <2>3 DEF AnswersFor
  <2> HIDE DEF late, missed, default, score, l, m
  <2>5. \A x \in Int : Max({0, x}) = IF x >= 0 THEN x ELSE 0
    BY DEF Max
  <2>6. 100 - 10 * l - 25 * m \in Int
    BY <2>2
  <2>7. score <= Max({0, 100 - 10 * l - 25 * m})
    BY <2>1, <2>2, <2>5, <2>6
  <2> QED
    BY <2>4, <2>7
<1> QED
  BY <1>2, <1>3 DEF answer

\* A step that leaves a request alone leaves it sound.
LEMMA RequestKept ==
  ASSUME ReadInv, [Next]_vars, NEW r \in Request, requests'[r] = requests[r]
  PROVE  Sound(requests[r])'
<1> DEFINE request == requests[r]
<1>1. Sound(request) /\ (request.pc \in Beyond => request.account \in Account)
  BY DEF ReadInv, OwnerInv, Existing
<1>2. ASSUME request.pc \in {"summarised", "profiled"},
             request.accounts = {request.account}
      PROVE  Covers(request.summary, payments'[request.account])
  <2>1. /\ request.account \in Account
        /\ Covers(request.summary, payments[request.account])
    BY <1>1, <1>2 DEF Sound, Beyond
  <2> HIDE DEF request
  <2> QED
    BY <2>1, CoversGrow DEF ReadInv
<1>3. requests'[r] = request
  OBVIOUS
<1> HIDE DEF request
<1> QED
  BY <1>1, <1>2, <1>3 DEF Sound, InRange, AnswersFor, Beyond

\* A request that moves to a sound state.
LEMMA RequestSounds ==
  ASSUME ReadInv, OwnerInv', RowsInv', [Next]_vars, IsFiniteSet(Existing)',
         NEW r \in Request, NEW row, requests' = [requests EXCEPT ![r] = row],
         UNCHANGED <<owner, payments>>, Sound(row)
  PROVE  ReadInv'
<1>1. \A q \in Request : requests'[q] = IF q = r THEN row ELSE requests[q]
  BY DEF ReadInv, OwnerInv
<1>2. ASSUME NEW q \in Request PROVE Sound(requests[q])'
  <2>1. CASE q = r
    BY <1>1, <2>1 DEF Sound, Covers, AnswersFor, InRange
  <2>2. CASE q # r
    BY <1>1, <2>2, RequestKept
  <2> QED
    BY <2>1, <2>2
<1> QED
  BY <1>2 DEF ReadInv

\* The summary of a user's only account counts what its history holds.
LEMMA SummaryCovers ==
  ASSUME NEW a, payments[a] \in Seq(Payment)
  PROVE  Covers(Summarise({a}), payments[a])
<1> DEFINE rows == payments[a]
           summary == Summarise({a})
<1>1. /\ summary.totalPayments = Len(rows)
      /\ summary.late = Count(rows, "late") /\ summary.missed = Count(rows, "missed")
  BY SequenceOfOne, JoinOfOne DEF Summarise
<1>2. Len(rows) \in Nat /\ \A status : Count(rows, status) \in Nat
  BY HistoryIsScored
<1> HIDE DEF summary
<1> QED
  BY <1>1, <1>2 DEF Covers, summary

\* There are finitely many accounts at any time: they appear one by one.
LEMMA FiniteStep ==
  ASSUME ReadInv, [Next]_vars PROVE IsFiniteSet(Existing)'
<1>1. CASE UNCHANGED owner
  BY <1>1 DEF ReadInv, Existing
<1>2. ASSUME NEW a \in Account, NEW u \in User, CreateEnergyAccount(a, u)
      PROVE  IsFiniteSet(Existing)'
  <2>1. Existing' = Existing \cup {a}
    BY <1>2, RolesAssumption DEF CreateEnergyAccount, Existing, ReadInv, OwnerInv
  <2> QED
    BY <2>1, FS_AddElement DEF ReadInv
<1> QED
  BY <1>1, <1>2
  DEF Next, vars, CreatePayment, UpsertPayment, ReadProfile, FindAccountOwner, Answer

\* Every step keeps what a request has read true of a prefix of the history.
LEMMA ReadInvStep == ReadInv /\ [Next]_vars => ReadInv'
<1> SUFFICES ASSUME ReadInv, [Next]_vars PROVE ReadInv'
  OBVIOUS
<1>0. OwnerInv' /\ RowsInv' /\ IsFiniteSet(Existing)'
  BY OwnerInvStep, RowsInvStep, FiniteStep DEF ReadInv
<1>1. CASE UNCHANGED requests
  BY <1>0, <1>1, RequestKept DEF ReadInv
<1>2. ASSUME NEW r \in Request, NEW caller \in User, NEW u \in User,
             ReadProfile(r, caller, u)
      PROVE  ReadInv'
  <2>1. CASE requests' = [requests EXCEPT ![r] =
               [pc |-> "empty", caller |-> caller, summary |-> Summarise({})]]
    <3> DEFINE row == [pc |-> "empty", caller |-> caller, summary |-> Summarise({})]
    <3>1. row.pc = "empty"
      OBVIOUS
    <3>2. Sound(row)
      BY <3>1 DEF Sound, Beyond
    <3> HIDE DEF row
    <3> QED
      BY <1>0, <1>2, <2>1, <3>2, RequestSounds DEF ReadProfile, row
  <2>2. ASSUME NEW first \in AccountsOf(u),
               requests' = [requests EXCEPT ![r] =
                 [pc |-> "summarised", caller |-> caller, account |-> first,
                  answer |-> NoAnswer, accounts |-> AccountsOf(u),
                  summary |-> Summarise(AccountsOf(u))]]
        PROVE  ReadInv'
    <3> DEFINE row == [pc |-> "summarised", caller |-> caller, account |-> first,
                       answer |-> NoAnswer, accounts |-> AccountsOf(u),
                       summary |-> Summarise(AccountsOf(u))]
    <3>1. /\ {"pc", "answer", "accounts", "summary"} \subseteq DOMAIN row
          /\ row.pc = "summarised" /\ row.account = first
          /\ row.accounts = AccountsOf(u) /\ row.summary = Summarise(AccountsOf(u))
      OBVIOUS
    <3>2. requests' = [requests EXCEPT ![r] = row]
      BY <2>2
    <3> HIDE DEF row
    <3>3. IsFiniteSet(AccountsOf(u))
      <4>1. AccountsOf(u) \subseteq Existing
        BY RolesAssumption DEF AccountsOf, Existing
      <4> QED
        BY <4>1, FS_Subset DEF ReadInv
    <3>4. AccountsOf(u) = {first} => Covers(Summarise(AccountsOf(u)), payments[first])
      BY SummaryCovers DEF AccountsOf, ReadInv, RowsInv
    <3>5. Sound(row)
      BY <3>1, <3>3, <3>4 DEF Sound
    <3> QED
      BY <1>0, <1>2, <3>2, <3>5, RequestSounds DEF ReadProfile
  <2> QED
    BY <1>2, <2>1, <2>2 DEF ReadProfile
<1>3. ASSUME NEW r \in Request, NEW caller \in User, NEW a \in Account,
             FindAccountOwner(r, caller, a)
      PROVE  ReadInv'
  <2> DEFINE row == [pc |-> "checked", caller |-> caller, account |-> a, answer |-> NoAnswer]
  <2>1. {"pc", "answer"} \subseteq DOMAIN row /\ row.pc = "checked"
    OBVIOUS
  <2>2. requests' = [requests EXCEPT ![r] = row] /\ UNCHANGED <<owner, payments>>
    BY <1>3 DEF FindAccountOwner
  <2> HIDE DEF row
  <2>3. Sound(row)
    BY <2>1 DEF Sound
  <2> QED
    BY <1>0, <2>2, <2>3, RequestSounds
<1>4. ASSUME NEW r \in Request, Answer(r) PROVE ReadInv'
  <2> DEFINE read == requests[r]
             answer == CalculateScore(payments[requests[r].account])
             row == [read EXCEPT !.pc = Answered(requests[r].pc), !.answer = answer]
  <2>1. /\ read.pc \in {"summarised", "checked"}
        /\ requests' = [requests EXCEPT ![r] = row] /\ UNCHANGED <<owner, payments>>
    BY <1>4 DEF Answer
  <2>2. {"pc", "answer"} \subseteq DOMAIN read /\ read.account \in Account /\ Sound(read)
    BY <2>1 DEF ReadInv, OwnerInv, Sound, Beyond, Existing
  <2>3. payments[read.account] \in Seq(Payment)
    BY <2>2 DEF ReadInv, RowsInv
  <2>4. /\ InRange(answer)
        /\ \A summary : Covers(summary, payments[read.account]) =>
             AnswersFor(answer, summary)
    BY <2>3, AnswerIsSound
  <2> HIDE DEF read, answer
  <2>5. /\ DOMAIN row = DOMAIN read
        /\ row.pc = Answered(read.pc) /\ row.answer = answer
        /\ row.account = read.account
        /\ row.accounts = read.accounts /\ row.summary = read.summary
    BY <2>2 DEF read
  <2>6. \/ read.pc = "summarised" /\ row.pc = "profiled"
        \/ read.pc = "checked" /\ row.pc = "scored"
    BY <2>1, <2>5 DEF Answered
  <2> HIDE DEF row
  <2>7. Sound(row)
    BY <2>2, <2>4, <2>5, <2>6 DEF Sound
  <2> QED
    BY <1>0, <2>1, <2>7, RequestSounds
<1> QED
  BY <1>1, <1>2, <1>3, <1>4
  DEF Next, vars, CreatePayment, UpsertPayment, CreateEnergyAccount

\* Nothing is read at the beginning.
LEMMA ReadInvInit == Init => ReadInv
<1> SUFFICES ASSUME Init PROVE ReadInv
  OBVIOUS
<1>1. OwnerInv
  BY DEF Init, OwnerInv, NoRequest, Beyond
<1>2. RowsInv
  BY DEF Init, RowsInv, AllAgree
<1>3. Existing = {}
  BY DEF Init, Existing
<1>4. \A r \in Request : Sound(requests[r])
  BY DEF Init, NoRequest, Sound, Beyond
<1> QED
  BY <1>1, <1>2, <1>3, <1>4, FS_EmptySet DEF ReadInv

\* The tables and every answer given keep their types: a score is in 0..100 and
\* its rating is one of the five.
THEOREM TypeCorrect == Spec => []TypeOK
<1>1. ReadInv => TypeOK
  <2> SUFFICES ASSUME ReadInv PROVE TypeOK
    OBVIOUS
  <2>1. owner \in [Account -> User \cup {NoUser}]
    BY DEF ReadInv, OwnerInv
  <2>2. \A a \in Account : \A k \in DOMAIN payments[a] : payments[a][k] \in Payment
    BY DEF ReadInv, RowsInv
  <2>3. \A r \in Request : requests[r].pc \in {"profiled", "scored"} =>
          InRange(requests[r].answer)
    BY DEF ReadInv, Sound
  <2> QED
    BY <2>1, <2>2, <2>3 DEF TypeOK, InRange
<1> QED
  BY <1>1, ReadInvInit, ReadInvStep, PTL DEF Spec

\* The two queries of a profile are not one transaction, and still the score a
\* user with one account is shown answers for every payment in the summary.
THEOREM ScoreAccountsForSummaryHolds == Spec => []ScoreAccountsForSummary
<1>1. ReadInv => ScoreAccountsForSummary
  <2> SUFFICES ASSUME ReadInv, NEW r \in Request, requests[r].pc = "profiled",
                      Cardinality(requests[r].accounts) = 1
               PROVE  AnswersFor(requests[r].answer, requests[r].summary)
    BY DEF ScoreAccountsForSummary, AnswersFor
  <2>1. Sound(requests[r])
    BY DEF ReadInv
  <2>2. /\ IsFiniteSet(requests[r].accounts)
        /\ requests[r].account \in requests[r].accounts
    BY <2>1 DEF Sound
  <2>3. requests[r].accounts = {requests[r].account}
    BY <2>2, FS_Singleton
  <2> QED
    BY <2>1, <2>3 DEF Sound
<1> QED
  BY <1>1, ReadInvInit, ReadInvStep, PTL DEF Spec
====

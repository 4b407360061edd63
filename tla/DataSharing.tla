---- MODULE DataSharing ----
(***************************************************************************)
(* What KopaBridge promises about the payment histories it copies, without *)
(* callbacks, jobs or workers: a user grants access to one account at a    *)
(* provider; only under a grant that is active may reading begin; while a  *)
(* grant is read its history is copied from the start and without holes,   *)
(* into an account that has an owner for good.                             *)
(***************************************************************************)
EXTENDS Naturals

CONSTANTS Grant, User, Provider, Account, Index, None

VARIABLES
  grants,  \* who granted access to which account, and whether it still stands
  inUse,   \* the grants that are being read
  owner,   \* the user under whom an account is kept, or None
  copied   \* the entries of the histories that were copied

vars == <<grants, inUse, owner, copied>>

NoGrant == [status |-> "none"]

Entry(g, i) ==
  [provider |-> grants[g].provider, account |-> grants[g].account, index |-> i]

Init ==
  /\ grants = [g \in Grant |-> NoGrant]
  /\ inUse = {}
  /\ owner = [a \in Account |-> None]
  /\ copied = {}

\* A user has one grant per provider that has not been withdrawn.
Give(g, u, p, a) ==
  /\ grants[g] = NoGrant
  /\ \A h \in Grant :
       grants[h] # NoGrant /\ grants[h].user = u /\ grants[h].provider = p
         => grants[h].status = "withdrawn"
  /\ grants' = [grants EXCEPT ![g] =
       [status |-> "active", user |-> u, provider |-> p, account |-> a]]
  /\ UNCHANGED <<inUse, owner, copied>>

Lapse(g) ==
  /\ grants[g].status = "active"
  /\ grants' = [grants EXCEPT ![g].status = "lapsed"]
  /\ UNCHANGED <<inUse, owner, copied>>

Withdraw(g) ==
  /\ grants[g].status \in {"active", "lapsed"}
  /\ grants' = [grants EXCEPT ![g].status = "withdrawn"]
  /\ UNCHANGED <<inUse, owner, copied>>

BeginReading(g) ==
  /\ grants[g].status = "active"
  /\ inUse' = inUse \cup {g}
  /\ UNCHANGED <<grants, owner, copied>>

EndReading(g) ==
  /\ inUse' = inUse \ {g}
  /\ UNCHANGED <<grants, owner, copied>>

\* An account gets an owner once, under a grant in use or entered by hand.
Own(a, u) ==
  /\ owner[a] = None
  /\ owner' = [owner EXCEPT ![a] = u]
  /\ UNCHANGED <<grants, inUse, copied>>

\* The next entry of the history a grant in use gives access to.
Copy(g, i) ==
  /\ g \in inUse
  /\ owner[grants[g].account] # None
  /\ \A k \in Index : k < i => Entry(g, k) \in copied
  /\ copied' = copied \cup {Entry(g, i)}
  /\ UNCHANGED <<grants, inUse, owner>>

Next ==
  \/ \E g \in Grant, u \in User, p \in Provider, a \in Account : Give(g, u, p, a)
  \/ \E g \in Grant : Lapse(g) \/ Withdraw(g) \/ BeginReading(g) \/ EndReading(g)
  \/ \E a \in Account, u \in User : Own(a, u)
  \/ \E g \in Grant, i \in Index : Copy(g, i)

Spec == Init /\ [][Next]_vars
====

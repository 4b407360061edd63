---- MODULE MCCreditProfile ----
(* Small instances of CreditProfile. *)
EXTENDS CreditProfile

Ids == Permutations(Account)
====

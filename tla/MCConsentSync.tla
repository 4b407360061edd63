---- MODULE MCConsentSync ----
(* Small instances of ConsentSync: all tokens open one account.             *)
EXTENDS ConsentSync, TLC

CONSTANT a1

OneAccount == [t \in Token |-> a1]

\* Ids carry no meaning: any permutation of them is the same state.
Ids == Permutations(ConsentId) \cup Permutations(JobId) \cup Permutations(Request)
====

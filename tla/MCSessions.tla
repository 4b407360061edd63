---- MODULE MCSessions ----
(* Small instances of Sessions. *)
EXTENDS Sessions, TLC

\* Ids and passwords carry no meaning of their own.
Ids == Permutations(TokenId) \cup Permutations(ResetId)
       \cup Permutations(Request) \cup Permutations(Password)
====

---- MODULE MCRegistration ----
(* Small instances of Registration. *)
EXTENDS Registration, TLC

Ids == Permutations(Request) \cup Permutations(Email)
====

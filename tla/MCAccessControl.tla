---- MODULE MCAccessControl ----
(* Small instances of AccessControl. *)
EXTENDS AccessControl, TLC

Ids == Permutations(Request) \cup Permutations(User)
====

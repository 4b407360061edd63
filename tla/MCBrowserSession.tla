---- MODULE MCBrowserSession ----
(* Small instances of BrowserSession. *)
EXTENDS BrowserSession, TLC

\* Ids and passwords carry no meaning of their own.
Ids == Permutations(TokenId) \cup Permutations(ResetId)
       \cup Permutations(Request) \cup Permutations(Password)
====

---- MODULE MCSharedAccount ----
(* ConsentSync with the tokens and account numbers of MkopaConnector: two   *)
(* codes of seven characters, A000001 and B000001.                          *)
EXTENDS ConsentSync, MkopaConnector, TLC

CONSTANTS u1, u2

CodeOf == u1 :> [head |-> "A", tail |-> "000001"] @@
          u2 :> [head |-> "B", tail |-> "000001"]
TokenOfUser == [u \in User |-> ExchangeToken(CodeOf[u])]
Tokens == {TokenOfUser[u] : u \in User}
Accounts == {AccountSuffix(t) : t \in Tokens}
AccountOfToken == [t \in Tokens |-> AccountSuffix(t)]

\* Every user comes back from the provider with a code of their own, and no
\* account is entered by hand.
OwnCodes ==
  \A r \in Request :
    requests[r] # NoRequest => requests[r].token = TokenOfUser[requests[r].user]
SyncedOnly == accounts' # accounts => workers' # workers

OwnCodesSpec == Init /\ [][Next /\ OwnCodes' /\ SyncedOnly]_vars
====

---- MODULE MkopaConnector ----
(***************************************************************************)
(* The mock M-KOPA connector: what a code is exchanged for, and which      *)
(* account number a token opens.                                           *)
(*                                                                         *)
(* Of a code of six letters and digits or more, `tail` is the last six of  *)
(* them in upper case, and `head` all the rest: what stands before them,   *)
(* the case they were written in, and the other characters.                *)
(***************************************************************************)

\* exchangeToken: the code behind a prefix, so the last six stay the last six.
ExchangeToken(code) == [head |-> <<"mock-token-", code.head>>, tail |-> code.tail]

\* fetchCustomerData: acct_no keeps the last six letters and digits alone.
AccountSuffix(accessToken) == accessToken.tail
====

---- MODULE SessionLifecycle ----
(***************************************************************************)
(* What the refresh tokens of KopaBridge promise, without tokens: a        *)
(* session is opened once by a login, is renewed while it is open, and     *)
(* once closed (logout, reuse of a rotated token, password reset, expiry)  *)
(* it never opens again.                                                   *)
(***************************************************************************)
CONSTANT Family

VARIABLE status

Init == status = [f \in Family |-> "none"]

\* A login opens a session of its own.
Open(f) ==
  /\ status[f] = "none"
  /\ status' = [status EXCEPT ![f] = "open"]

\* Several sessions may close at once, of one user or of several.
Close(F) ==
  status' = [f \in Family |-> IF f \in F THEN "closed" ELSE status[f]]

Next ==
  \/ \E f \in Family : Open(f)
  \/ \E F \in SUBSET {f \in Family : status[f] = "open"} : Close(F)

Spec == Init /\ [][Next]_status
====

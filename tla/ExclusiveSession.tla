-------------------------- MODULE ExclusiveSession --------------------------
(***************************************************************************)
(* What a persistent session promises: one connection, opened, used and    *)
(* dropped by one client at a time, and closed behind the clients' backs   *)
(* only while nobody uses it.                                              *)
(***************************************************************************)
CONSTANTS Clients, Nobody

VARIABLES user,  \* who has the session, or Nobody
          open   \* there is a connection

vars == <<user, open>>

Init == user = Nobody /\ open = FALSE

Take(c) == user = Nobody /\ user' = c /\ UNCHANGED open
Connect(c) == user = c /\ ~open /\ open' = TRUE /\ UNCHANGED user
Drop(c) == user = c /\ open /\ open' = FALSE /\ UNCHANGED user
Leave(c) == user = c /\ user' = Nobody /\ (open' => open) /\ open' \in BOOLEAN
Retire == user = Nobody /\ open /\ open' = FALSE /\ UNCHANGED user

Next == Retire \/ \E c \in Clients : Take(c) \/ Connect(c) \/ Drop(c) \/ Leave(c)

Spec == Init /\ [][Next]_vars
=============================================================================

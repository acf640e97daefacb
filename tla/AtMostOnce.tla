------------------------------ MODULE AtMostOnce ------------------------------
(***************************************************************************)
(* What the wallet promises to a client that repeats a transfer with one   *)
(* idempotency key: of all the requests that carry the key, at most one is *)
(* ever accepted, however late the others arrive.                          *)
(***************************************************************************)
CONSTANTS Keys, Requests

VARIABLE accepted   \* [Keys -> SUBSET Requests]

Init == accepted = [k \in Keys |-> {}]

Accept(k, r) ==
    /\ accepted[k] = {}
    /\ accepted' = [accepted EXCEPT ![k] = {r}]

Next == \E k \in Keys, r \in Requests : Accept(k, r)

Spec == Init /\ [][Next]_accepted
=============================================================================

----------------------- MODULE MCSigningIntentWorker -----------------------
(***************************************************************************)
(* Small instances of SigningIntentWorker for TLC.  The first two intents  *)
(* share a reservation (requests that carry one trace id); a third has one *)
(* of its own.                                                             *)
(***************************************************************************)
EXTENDS SigningIntentWorker

NonceOfIntent == [i \in 1..N |-> IF i <= 2 THEN 1 ELSE 2]

ReservationIds == {1, 2}
=============================================================================

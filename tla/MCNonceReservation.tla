------------------------- MODULE MCNonceReservation -------------------------
(* Model checking of NonceReservation on a small instance. *)
EXTENDS NonceReservation, TLC

\* Calls and hashes are interchangeable, and so are action ids.
Symmetry == Permutations(Calls) \cup Permutations(ActionIds)
=============================================================================

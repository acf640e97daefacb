---------------------------- MODULE MCWalletSend ----------------------------
(* Small instances of WalletSend for TLC.                                  *)
EXTENDS WalletSend, TLC

\* Requests and traces are interchangeable.
Symmetry == Permutations(Requests) \cup Permutations(Traces)
=============================================================================

------------------------------ MODULE MCAccounts ------------------------------
(* A small instance of Accounts for TLC: the bounds are in the .cfg file.      *)
EXTENDS Accounts
=============================================================================

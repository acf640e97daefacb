----------------------------- MODULE MCXrplIssuer -----------------------------
(* A small instance of XrplIssuer for TLC: one holder, who needs approval, *)
(* with and without authorized trust lines, and a program that may be      *)
(* paused; the issuer has an account of its own, and the distributor signs *)
(* with the wallet's.                                                      *)
EXTENDS XrplIssuer

IssuerPolicies ==
    {[programActive |-> active, assetActive |-> TRUE, requireAuth |-> trustLines,
      requireApproval |-> TRUE, allow |-> TRUE] : active, trustLines \in BOOLEAN}

SharedSigner == [default |-> "wallet", issuer |-> "issuer", distributor |-> "wallet"]
=============================================================================

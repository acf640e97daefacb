------------------------------ MODULE MCServices ------------------------------
(***************************************************************************)
(* The small services of the application, each on its own: the idempotency *)
(* service, the rate limiter, the deduplication of alerts, the ingestion   *)
(* of security signals and the rules that evaluate them, the XRPL issuer   *)
(* routes, the anchoring of PQC bindings, the privacy requests, accounts   *)
(* and the creation of wallets, and the functions of EvmFinality, of which *)
(* a state is one call.  The part a behaviour is about is chosen at its    *)
(* start; the others stay as they are.                                     *)
(***************************************************************************)
EXTENDS IdempotencyKey, RateLimit, AlertDedup, SignalIngest, SecurityAnomaly, MCXrplIssuer,
        PqcAnchor, PrivacyRequest, Accounts, FinalityCalls, TLC

VARIABLE part   \* the service a behaviour is about

Parts == {"idempotency", "limiter", "dedup", "signals", "rules", "issuer", "anchor", "privacy",
          "accounts", "finality"}

OneHost(calls) == \A c \in calls : call[c].host = CHOOSE h \in Hosts : TRUE

FirstCall == CHOOSE c \in LimitedCalls : TRUE

ServicesInit ==
    /\ part \in Parts
    /\ Init /\ (part # "idempotency" => store = "pg")
    /\ RateInit
    /\ part # "limiter" => mode = "redis" /\ OneHost(LimitedCalls)
    \* Calls and hosts are interchangeable: of three calls one at most is alone.
    /\ OneHost(LimitedCalls \ {FirstCall})
    /\ DedupInit
    /\ SignalInit /\ (part # "signals" => signals.backend = "redis")
    /\ AnomalyInit /\ (part # "rules" => signalOf = CHOOSE f \in AnomalyScenarios : TRUE)
    /\ XrplInit /\ (part # "issuer" => policy = CHOOSE p \in Policies : TRUE)
    /\ AnchorInit /\ PrivacyInit
    /\ AccountsInit /\ (part # "accounts" => \A g \in Signups : form[g] = CHOOSE f \in Forms : TRUE)
    /\ FinalityInit /\ (part # "finality" => included = NoBlock /\ name = "submitted")

ServicesNext ==
    /\ \/ part = "idempotency" /\ Next
          /\ UNCHANGED <<rateVars, dedupVars, signalVars, anomalyVars, xrplVars, anchorVars, privacyVars, accountsVars, finalityVars>>
       \/ part = "limiter" /\ RateNext
          /\ UNCHANGED <<idemVars, dedupVars, signalVars, anomalyVars, xrplVars, anchorVars, privacyVars, accountsVars, finalityVars>>
       \/ part = "dedup" /\ DedupNext
          /\ UNCHANGED <<idemVars, rateVars, signalVars, anomalyVars, xrplVars, anchorVars, privacyVars, accountsVars, finalityVars>>
       \/ part = "signals" /\ SignalNext
          /\ UNCHANGED <<idemVars, rateVars, dedupVars, anomalyVars, xrplVars, anchorVars, privacyVars, accountsVars, finalityVars>>
       \/ part = "rules" /\ AnomalyNext
          /\ UNCHANGED <<idemVars, rateVars, dedupVars, signalVars, xrplVars, anchorVars, privacyVars, accountsVars, finalityVars>>
       \/ part = "issuer" /\ XrplNext
          /\ UNCHANGED <<idemVars, rateVars, dedupVars, signalVars, anomalyVars, anchorVars, privacyVars, accountsVars, finalityVars>>
       \/ part = "anchor" /\ AnchorNext
          /\ UNCHANGED <<idemVars, rateVars, dedupVars, signalVars, anomalyVars, xrplVars, privacyVars, accountsVars, finalityVars>>
       \/ part = "privacy" /\ PrivacyNext
          /\ UNCHANGED <<idemVars, rateVars, dedupVars, signalVars, anomalyVars, xrplVars, anchorVars, accountsVars, finalityVars>>
       \/ part = "accounts" /\ AccountsNext
          /\ UNCHANGED <<idemVars, rateVars, dedupVars, signalVars, anomalyVars, xrplVars, anchorVars, privacyVars, finalityVars>>
       \/ part = "finality" /\ FinalityNext
          /\ UNCHANGED <<idemVars, rateVars, dedupVars, signalVars, anomalyVars, xrplVars, anchorVars, privacyVars, accountsVars>>
    /\ UNCHANGED part

ServicesSpec ==
    ServicesInit
        /\ [][ServicesNext]_<<part, idemVars, rateVars, dedupVars, signalVars, anomalyVars,
                              xrplVars, anchorVars, privacyVars, accountsVars, finalityVars>>

---------------------------------------------------------------------------
\* What the anomaly rules are given: a burst of failures that comes out of order,
\* of which one is too old; the journey of an identity, one leg of it too fast;
\* telemetry, and probes of an internal route.
Signal(ip, source, isFailure, principal, at) ==
    [ip |-> ip, source |-> source, failed |-> isFailure, principal |-> principal, at |-> at,
     identity |-> Missing, country |-> Missing, place |-> Missing]

Visit(at, country, place) ==
    [Signal(Missing, "wallet.send", FALSE, Missing, at) EXCEPT
        !.identity = "session", !.country = country, !.place = place]

AnomalyCases ==
    {<<Signal("ip", "login", TRUE, "ann", 6), Signal("ip", "login", TRUE, "bob", 5),
       Signal("ip", "login", TRUE, "ann", 7), Signal("ip", "login", FALSE, "eve", 1)>>,
     <<Visit(1, "US", "Boston"), Visit(2, "FR", "Paris"), Visit(3, "FR", Missing),
       Visit(4, "DE", "Berlin")>>,
     <<Signal("ip", "telemetry.ingest", FALSE, Missing, 1),
       Signal("ip", "telemetry.ingest", TRUE, Missing, 2),
       Signal("ip", "internal.security-signals", TRUE, Missing, 2),
       Signal("ip", "internal.security-signals", FALSE, Missing, 2)>>}

TwoEach == [r \in CountingRules |-> 2]

FarPlaces == {<<"Boston", "Paris">>, <<"Paris", "Boston">>, <<"Boston", "Berlin">>, <<"Berlin", "Boston">>}

\* The calls that anchor a binding repeat one idempotency key.
SameAnchorKey == [r \in AnchorRequests |-> CHOOSE k \in AnchorKeys : TRUE]

\* What may be exchanged in the parts of the signals and the issuer.
Symmetry == Permutations(Signals) \cup Permutations(Requests)
=============================================================================

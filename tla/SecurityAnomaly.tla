--------------------------- MODULE SecurityAnomaly ---------------------------
(***************************************************************************)
(* The anomaly rules in one process.  A call of processSecuritySignal-     *)
(* Internal puts its signal in the buffer, awaits the forensic row,        *)
(* evaluates the rules against what the buffer holds by then, and raises   *)
(* an alert for each anomaly that is severe enough.  Calls of routes and   *)
(* of drains overlap, and signals come in any order of the times they      *)
(* carry.                                                                  *)
(***************************************************************************)
EXTENDS Integers, FiniteSets

CONSTANTS
    AnomalyCalls,       \* calls of processSecuritySignalInternal
    AnomalyScenarios,   \* what they process: functions from calls to signals
    VelocityWindow,     \* SECURITY_ANOMALY_VELOCITY_WINDOW_MS
    Thresholds,         \* thresholds of the rules that count, by rule
    TravelWindow,       \* SECURITY_ANOMALY_IMPOSSIBLE_TRAVEL_WINDOW_MS
    Far,                \* pairs of places at least ..._TRAVEL_DISTANCE_KM apart
    SignalBuffer,       \* SECURITY_ANOMALY_SIGNAL_BUFFER
    EnabledRules,       \* SECURITY_ANOMALY_RULES_ENABLED and ..._DISABLED
    MinScore            \* least score of SECURITY_ANOMALY_ALERT_MIN_SEVERITY

\* The rules, by their place in builtInRules.
Velocity == 1
FailureBurst == 2
MultiPrincipal == 3
InternalRoute == 4
ImpossibleTravel == 5
NewCountry == 6

\* The rules that count signals of one address and source.
CountingRules == {Velocity, FailureBurst, MultiPrincipal}

\* A field that is null.
Missing == "missing"

SignalTypes ==
    \A f \in AnomalyScenarios, c \in AnomalyCalls : f[c].at \in Int /\ f[c].failed \in BOOLEAN

ASSUME AnomalyAssumption ==
    /\ IsFiniteSet(AnomalyCalls) /\ SignalTypes
    /\ Thresholds \in [CountingRules -> Nat]
    /\ EnabledRules \subseteq 1..6 /\ SignalBuffer \in Nat /\ MinScore \in 0..100
    /\ VelocityWindow \in Nat /\ TravelWindow \in Nat

VARIABLES
    signalOf,    \* the signal of each call
    arrival,     \* its number among the signals that were pushed, 0 before
    pushes,      \* how many were pushed
    handling,    \* how far each call came
    alerting,    \* rules whose alert it has yet to raise
    alerted,     \* rules whose alert it has raised
    geo,         \* geoByIdentity: the call whose place was noted last, in a set
    countries    \* countryHistoryByIdentity

anomalyVars == <<signalOf, arrival, pushes, handling, alerting, alerted, geo, countries>>

Identities == {f[c].identity : f \in AnomalyScenarios, c \in AnomalyCalls} \ {Missing}

AnomalyInit ==
    /\ signalOf \in AnomalyScenarios
    /\ arrival = [c \in AnomalyCalls |-> 0] /\ pushes = 0
    /\ handling = [c \in AnomalyCalls |-> "new"]
    /\ alerting = [c \in AnomalyCalls |-> {}] /\ alerted = [c \in AnomalyCalls |-> {}]
    /\ geo = [i \in Identities |-> {}]
    /\ countries = [i \in Identities |-> {}]

\* What trimBuffers has left in the buffer.
Buffered == {c \in AnomalyCalls : arrival[c] # 0 /\ arrival[c] > pushes - SignalBuffer}

---------------------------------------------------------------------------
\* The scores.  A severity is the band a score lies in, given or computed.
FixedScore == [r \in {InternalRoute, ImpossibleTravel, NewCountry} |->
                IF r = InternalRoute THEN 95 ELSE IF r = ImpossibleTravel THEN 88 ELSE 60]

BaseScore == [r \in CountingRules |->
                IF r = Velocity THEN 55 ELSE IF r = FailureBurst THEN 75 ELSE 80]

CapScore == [r \in CountingRules |->
                IF r = Velocity THEN 80 ELSE IF r = FailureBurst THEN 92 ELSE 96]

AtMostTwice(observed, t) == IF observed < 2 * t THEN observed ELSE 2 * t

\* scoreFromThreshold >= MinScore: the score grows from base to cap while what
\* was observed grows to twice the threshold, and is rounded half up.
ReachesMinScore(r, observed) ==
    LET t == Thresholds[r] IN
    IF t = 0 THEN BaseScore[r] >= MinScore
    ELSE 4 * t * BaseScore[r] + 2 * AtMostTwice(observed, t) * (CapScore[r] - BaseScore[r])
            >= 2 * t * (2 * MinScore - 1)

---------------------------------------------------------------------------
\* The rules
SameOrigin(s, t) == s.ip = t.ip /\ s.source = t.source

\* Mutant: looks at no signal later than the call's own.
WindowOfPast(c) ==
    {d \in Buffered :
        /\ SameOrigin(signalOf[d], signalOf[c])
        /\ signalOf[d].at \in (signalOf[c].at - VelocityWindow)..signalOf[c].at}

\* recentSignals and buildWindowStats: the window has no end.
WindowOf(c) ==
    {d \in Buffered :
        /\ SameOrigin(signalOf[d], signalOf[c])
        /\ signalOf[d].at >= signalOf[c].at - VelocityWindow}

\* What a rule counts of a set of calls.
Observed(r, W) ==
    IF r = Velocity THEN Cardinality(W)
    ELSE IF r = FailureBurst THEN Cardinality({d \in W : signalOf[d].failed})
    ELSE Cardinality({signalOf[d].principal : d \in W} \ {Missing})

\* Whether a rule that counts looks at the signal at all.  The signals of the
\* source telemetry.ingest come from /api/telemetry.
Looks(r, s) ==
    /\ s.ip # Missing
    /\ r = Velocity => s.source # "telemetry.ingest" \/ s.failed
    /\ r = FailureBurst => s.failed
    /\ r = MultiPrincipal => s.principal # Missing

Counts(r, c) ==
    /\ r \in CountingRules /\ Looks(r, signalOf[c])
    /\ Observed(r, WindowOf(c)) >= Thresholds[r]
    /\ ReachesMinScore(r, Observed(r, WindowOf(c)))

\* Sources stand for those with their prefix.
InternalSources == {"internal.security-signals"}

SensitiveSources == {"wallet.send", "auth.register", "wallet.read"}

IsProbe(s) == s.source \in InternalSources /\ s.failed

IsLocated(s) == s.identity # Missing /\ s.country # Missing /\ s.place # Missing

IsJump(s, previous) ==
    /\ previous.country # s.country
    /\ s.at - previous.at \in 1..TravelWindow
    /\ <<previous.place, s.place>> \in Far

\* A signal the rule about countries looks at.
IsSensitive(s) == s.identity # Missing /\ s.country # Missing /\ s.source \in SensitiveSources

IsNewCountry(s) ==
    /\ IsSensitive(s) /\ countries[s.identity] # {} /\ s.country \notin countries[s.identity]

\* The rules that find an anomaly which shouldAlert.
Alerts(c) ==
    LET s == signalOf[c]
        fixed == {r \in DOMAIN FixedScore : FixedScore[r] >= MinScore}
    IN {r \in EnabledRules :
        \/ Counts(r, c)
        \/ r \in fixed /\ r = InternalRoute /\ IsProbe(s)
        \/ r \in fixed /\ r = ImpossibleTravel /\ IsLocated(s)
            /\ \E last \in geo[s.identity] : IsJump(s, signalOf[last])
        \/ r \in fixed /\ r = NewCountry /\ IsNewCountry(s)}

---------------------------------------------------------------------------
\* Up to persistSignalToForensicStore, of which an error is only logged.
ReceiveSignal(c) ==
    /\ handling[c] = "new"
    /\ handling' = [handling EXCEPT ![c] = "received"]
    /\ pushes' = pushes + 1
    /\ arrival' = [arrival EXCEPT ![c] = pushes + 1]
    /\ UNCHANGED <<signalOf, alerting, alerted, geo, countries>>

\* evaluateRules, which awaits nothing.
EvaluateRules(c) ==
    LET s == signalOf[c] IN
    /\ handling[c] = "received"
    /\ handling' = [handling EXCEPT ![c] = "evaluated"]
    /\ alerting' = [alerting EXCEPT ![c] = Alerts(c)]
    /\ geo' = [i \in Identities |->
                IF ImpossibleTravel \in EnabledRules /\ IsLocated(s) /\ s.identity = i
                THEN {c} ELSE geo[i]]
    /\ countries' = [i \in Identities |->
                      IF NewCountry \in EnabledRules /\ IsSensitive(s) /\ s.identity = i
                      THEN countries[i] \cup {s.country} ELSE countries[i]]
    /\ UNCHANGED <<signalOf, arrival, pushes, alerted>>

\* emitAnomaly for the anomalies one after the other.
EmitAnomaly(c) ==
    \E r \in alerting[c] :
        /\ \A q \in alerting[c] : r <= q
        /\ alerting' = [alerting EXCEPT ![c] = @ \ {r}]
        /\ alerted' = [alerted EXCEPT ![c] = @ \cup {r}]
        /\ UNCHANGED <<signalOf, arrival, pushes, handling, geo, countries>>

AnomalyNext == \E c \in AnomalyCalls : ReceiveSignal(c) \/ EvaluateRules(c) \/ EmitAnomaly(c)

AnomalySpec == AnomalyInit /\ [][AnomalyNext]_anomalyVars

---------------------------------------------------------------------------
IsOver(c) == handling[c] = "evaluated" /\ alerting[c] = {}

\* Calls of one address and source whose times lie within one window and which,
\* together, are enough for the rule to raise an alert.
IsBurst(r, B) ==
    /\ \A c, d \in B :
        /\ Looks(r, signalOf[c]) /\ SameOrigin(signalOf[c], signalOf[d])
        /\ signalOf[d].at >= signalOf[c].at - VelocityWindow
    /\ Observed(r, B) >= Thresholds[r]
    /\ ReachesMinScore(r, Observed(r, B))

\* In whatever order the signals of a burst come and however their calls overlap,
\* one of them has raised its alert when all are over: unless the buffer was too
\* short to hold them.
BurstsAreAlerted ==
    \A r \in CountingRules \cap EnabledRules, B \in SUBSET Buffered :
        B # {} /\ (\A c \in B : IsOver(c)) /\ IsBurst(r, B) => \E c \in B : r \in alerted[c]

\* Of two countries from which an identity did something sensitive, one has been
\* alerted as a new one, or is about to be by the call that found it.
NewCountriesAreAlerted ==
    NewCountry \in EnabledRules /\ FixedScore[NewCountry] >= MinScore =>
        \A c, d \in {e \in AnomalyCalls : handling[e] = "evaluated" /\ IsSensitive(signalOf[e])} :
            LET s == signalOf[c]
                t == signalOf[d]
            IN s.identity = t.identity /\ s.country # t.country =>
                \E e \in AnomalyCalls :
                    /\ signalOf[e].identity = s.identity
                    /\ signalOf[e].country \in {s.country, t.country}
                    /\ NewCountry \in alerting[e] \cup alerted[e]

\* What the rules promise of signals that come out of order and are handled by
\* calls that overlap: bursts and new countries do not go unnoticed.
SuspicionsAreAlerted == BurstsAreAlerted /\ NewCountriesAreAlerted
=============================================================================

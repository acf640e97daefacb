--------------------------- MODULE MCSecurityQueues ---------------------------
(***************************************************************************)
(* What the queues behind security alerts and security signals bring to an *)
(* end, each on its own.  The part a behaviour is about is chosen at its   *)
(* start; the other stays as it is.                                        *)
(***************************************************************************)
EXTENDS AlertDelivery, SignalIngest

VARIABLE part

QueuesInit ==
    /\ part \in {"alerts", "signals"} /\ AlertInit /\ SignalInit
    /\ part # "alerts" => queue.backend = "redis"
    /\ part # "signals" => signals.backend = "redis"

QueuesNext ==
    /\ \/ part = "alerts" /\ AlertNext /\ UNCHANGED signalVars
       \/ part = "signals" /\ SignalNext /\ UNCHANGED alertVars
    /\ UNCHANGED part

\* The fairness of each part, for the behaviours that are about it.
QueuesFairness ==
    /\ \A d \in Drainers : WF_alertVars(part = "alerts" /\ AlertStep(d))
    /\ WF_alertVars(part = "alerts" /\ BecomeOverdue)
    /\ \A p \in Processes : WF_signalVars(part = "signals" /\ DrainStep(p))
    /\ \A p \in Processes, s \in Signals :
           WF_signalVars(part = "signals" /\ EnqueueSignal(p, s))
    /\ \A s \in Signals :
           WF_signalVars(part = "signals" /\ \E p \in Processes : PassGate(p, s))
    /\ WF_signalVars(part = "signals" /\ DelayPasses)
    /\ WF_signalVars(part = "signals" /\ SignalOverdue)

QueuesSpec == QueuesInit /\ [][QueuesNext]_<<part, alertVars, signalVars>> /\ QueuesFairness
=============================================================================

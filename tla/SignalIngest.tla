----------------------------- MODULE SignalIngest -----------------------------
(***************************************************************************)
(* Security signals between POST /api/security/signals and the anomaly     *)
(* rules.  A request of a process passes the gate against overload, puts   *)
(* its signal in the queue and drains the queue, unless a drain of the     *)
(* same process is running.  A drain gives delayed entries back, processes *)
(* the others and acknowledges them, and puts a signal that failed in the  *)
(* queue again, with a delay and a retry count.                            *)
(***************************************************************************)
EXTENDS SecurityQueue

CONSTANTS
    Signals,           \* signals that are sent
    Processes,         \* processes that serve the route, numbered
    SignalBackends,    \* queue backends the run looks at
    SignalDepth,       \* SECURITY_SIGNAL_QUEUE_MAX_DEPTH
    SignalBatch,       \* SECURITY_SIGNAL_QUEUE_DEQUEUE_BATCH
    LagKnown,          \* XINFO GROUPS reports the lag, as it does from Redis 7 on
    HighWater,         \* SECURITY_SIGNAL_QUEUE_HIGH_WATER
    LowWater,          \* SECURITY_SIGNAL_QUEUE_LOW_WATER
    MaxRetries,        \* SECURITY_SIGNAL_QUEUE_MAX_RETRIES
    MaxEntries,        \* bound: a delay passes before the stream has had so many entries
    MaxMishaps         \* bound: errors of Redis or of processing, processes that die, slow drains

ASSUME SignalBounds ==
    /\ SignalDepth \in Nat /\ SignalBatch \in Nat \ {0} /\ MaxRetries \in Nat
    /\ LowWater \in Nat /\ HighWater \in Nat /\ LowWater <= HighWater
    /\ LagKnown \in BOOLEAN /\ Processes \subseteq Nat /\ MaxEntries \in Nat
    /\ SignalBackends \subseteq QueueBackends

VARIABLES
    signals,      \* the queue
    sent,         \* how far the request of each signal came, and in which process
    throttled,    \* queueControl.throttled of each process
    drain,        \* queueControl.draining and the locals of the drain of each process
    processed,    \* signals that were processed at least once
    failed,       \* signals that were counted and logged as failed
    cut,          \* history: signals whose only copy was lost with a drain that was cut off
    mishaps       \* bounded count

signalVars == <<signals, sent, throttled, drain, processed, failed, cut, mishaps>>

Resting == [step |-> "idle", batch |-> {}]

NotSent == [stage |-> "new", by |-> 0]

SignalInit ==
    /\ signals \in {EmptyQueue(b) : b \in SignalBackends}
    /\ sent = [s \in Signals |-> NotSent]
    /\ throttled = [p \in Processes |-> FALSE]
    /\ drain = [p \in Processes |-> Resting]
    /\ processed = {} /\ failed = {} /\ cut = {} /\ mishaps = 0

\* An array is the queue of one process.
Serves(p) == signals.backend = "redis" \/ \A o \in Processes : p <= o

Mishap == mishaps < MaxMishaps /\ mishaps' = mishaps + 1

\* Commands to Redis may fail, with or without taking effect.
SignalCommandFails(after) == signals.backend = "redis" /\ Mishap /\ signals' \in {signals, after}

DrainGoto(p, step) == drain' = [drain EXCEPT ![p].step = step]

\* drainSecuritySignalQueue does nothing while one is running.
StartDrain(p) == DrainGoto(p, IF drain[p].step = "idle" THEN "dequeue" ELSE drain[p].step)

---------------------------------------------------------------------------
\* Mutant: what was acknowledged counts as load.
LoadOfDepth(q) == Depth(q)

\* stats.lag ?? stats.depth.
Load(q) == IF LagKnown THEN Lag(q) ELSE Depth(q)

\* applyQueueBackpressureGate: what throttled becomes.
Throttles(p, load) == (throttled[p] /\ load > LowWater) \/ load >= HighWater

\* ingestSecuritySignal up to the gate; whoever sent a refused signal may send
\* it again, to any process.
PassGate(p, s) ==
    /\ Serves(p) /\ sent[s].stage \in {"new", "refused"}
    /\ LET q == IF signals.backend = "memory" THEN Reclaim(signals) ELSE signals
           tooMuch == Throttles(p, Load(q))
       IN /\ signals' = q
          /\ throttled' = [throttled EXCEPT ![p] = tooMuch]
          /\ IF tooMuch /\ Load(q) > LowWater
             THEN sent' = [sent EXCEPT ![s].stage = "refused"] /\ StartDrain(p)
             ELSE sent' = [sent EXCEPT ![s] = [stage |-> "passed", by |-> p]] /\ UNCHANGED drain
    /\ UNCHANGED <<processed, failed, cut, mishaps>>

\* The body of an entry is a signal and its retry count.
Body(s, retry) == [signal |-> s, retry |-> retry]

\* adapter.enqueue and the drain that follows.
EnqueueSignal(p, s) ==
    /\ sent[s] = [stage |-> "passed", by |-> p]
    /\ LET after == Add(signals, Body(s, 0), TRUE, SignalDepth) IN
        \/ /\ signals' \in after
           /\ sent' = [sent EXCEPT ![s] = [NotSent EXCEPT !.stage = "accepted"]]
           /\ UNCHANGED mishaps
        \/ /\ \E q \in after : SignalCommandFails(q)
           /\ sent' = [sent EXCEPT ![s] = [NotSent EXCEPT !.stage = "refused"]]
    /\ StartDrain(p)
    /\ UNCHANGED <<throttled, processed, failed, cut>>

---------------------------------------------------------------------------
\* Entries of a batch whose delay had not passed when they were read.
Delayed(batch) == {e \in batch : ~e.ready}

Earliest(S) == CHOOSE e \in S : \A f \in S : e.place <= f.place

\* What a drain does with a batch: delayed entries go back first.  Without a
\* message the drain ends.
ContinueBatch(p, batch) ==
    drain' = [drain EXCEPT ![p] =
                [step |-> IF Delayed(batch) # {} THEN "giveBack"
                          ELSE IF batch # {} THEN "process" ELSE "end",
                 batch |-> batch]]

\* After a message: the next one, the next batch, or the limit of this drain.
NextOf(p, batch) ==
    IF batch # {} THEN ContinueBatch(p, batch)
    ELSE \E step \in {"dequeue", "end"} : drain' = [drain EXCEPT ![p] = [step |-> step, batch |-> {}]]

\* The drain throws; what it holds stays pending.
Abandon(p) == drain' = [drain EXCEPT ![p] = [step |-> "end", batch |-> {}]]

CurrentEntry(p) == Earliest(drain[p].batch)

RestOfBatch(p) == drain[p].batch \ {CurrentEntry(p)}

\* The signal whose entry a drain has acknowledged and has yet to add again.
Carried(p) ==
    IF drain[p].step = "putBack" THEN {Earliest(Delayed(drain[p].batch)).body.signal}
    ELSE IF drain[p].step = "requeue" THEN {CurrentEntry(p).body.signal} ELSE {}

\* The newest entry of the signal, the last one MAXLEN trims, is still to be given
\* to somebody, or another drain is about to add one.
HasCopy(q, p, s) ==
    \/ \E e \in InQueue(q) :
        e.body.signal = s /\ \A f \in q.log : f.body.signal = s => f.id <= e.id
    \/ \E o \in Processes \ {p} : s \in Carried(o)

\* The drain is cut off with the signals in hand.
CutOff(p, inHand) == cut' = cut \cup {s \in inHand : ~HasCopy(signals', p, s)}

DequeueSignals(p) ==
    /\ drain[p].step = "dequeue"
    /\ LET q == Reclaim(signals)
           batch == Given(q, SignalBatch)
       IN \/ signals' = Give(q, batch) /\ ContinueBatch(p, batch) /\ UNCHANGED mishaps
          \/ SignalCommandFails(Give(q, batch)) /\ Abandon(p)
    /\ UNCHANGED <<sent, throttled, processed, failed, cut>>

\* normalizeDelayedEntry: XACK, then XADD of the same entry, without a limit.
GiveBack(p) ==
    /\ drain[p].step = "giveBack"
    /\ LET e == Earliest(Delayed(drain[p].batch))
           after == Ack(signals, e.id)
       IN \/ signals' = after /\ DrainGoto(p, "putBack") /\ UNCHANGED <<cut, mishaps>>
          \/ SignalCommandFails(after) /\ Abandon(p) /\ CutOff(p, {e.body.signal})
    /\ UNCHANGED <<sent, throttled, processed, failed>>

PutBack(p) ==
    /\ drain[p].step = "putBack"
    /\ LET e == Earliest(Delayed(drain[p].batch))
           after == AddLast(signals, e.body, signals.next > MaxEntries)
       IN \/ signals' = after /\ ContinueBatch(p, drain[p].batch \ {e}) /\ UNCHANGED <<cut, mishaps>>
          \/ SignalCommandFails(after) /\ Abandon(p) /\ CutOff(p, {e.body.signal})
    /\ UNCHANGED <<sent, throttled, processed, failed>>

\* What a failed attempt is followed by.
AfterFailure(p) == DrainGoto(p, IF CurrentEntry(p).body.retry + 1 <= MaxRetries THEN "retry" ELSE "drop")

\* processSecuritySignalInternal.
ProcessSignal(p) ==
    /\ drain[p].step = "process"
    /\ \/ processed' = processed \cup {CurrentEntry(p).body.signal} /\ DrainGoto(p, "ack") /\ UNCHANGED mishaps
       \/ Mishap /\ AfterFailure(p) /\ UNCHANGED processed
    /\ UNCHANGED <<signals, sent, throttled, failed, cut>>

\* adapter.ack, inside the same try: its error makes the signal a failed one.
AckSignal(p) ==
    /\ drain[p].step = "ack"
    /\ LET after == Ack(signals, CurrentEntry(p).id) IN
        \/ signals' = after /\ NextOf(p, RestOfBatch(p)) /\ UNCHANGED mishaps
        \/ SignalCommandFails(after) /\ AfterFailure(p)
    /\ UNCHANGED <<sent, throttled, processed, failed, cut>>

\* Mutant: an error of the retry itself is not counted.
CountFailedNot(p) == UNCHANGED failed

CountFailed(p) == failed' = failed \cup {CurrentEntry(p).body.signal}

\* The retry: ack, then enqueue; an error of either counts the signal as failed.
RetryAck(p) ==
    /\ drain[p].step = "retry"
    /\ LET after == Ack(signals, CurrentEntry(p).id) IN
        \/ signals' = after /\ DrainGoto(p, "requeue") /\ UNCHANGED <<failed, mishaps>>
        \/ SignalCommandFails(after) /\ CountFailed(p) /\ NextOf(p, RestOfBatch(p))
    /\ UNCHANGED <<sent, throttled, processed, cut>>

Requeue(p) ==
    /\ drain[p].step = "requeue"
    /\ \E after \in Add(signals, Body(CurrentEntry(p).body.signal, CurrentEntry(p).body.retry + 1),
                        FALSE, SignalDepth) :
        \/ signals' = after /\ UNCHANGED <<failed, mishaps>>
        \/ SignalCommandFails(after) /\ CountFailed(p)
    /\ NextOf(p, RestOfBatch(p))
    /\ UNCHANGED <<sent, throttled, processed, cut>>

\* No retry is left: counted as failed and acknowledged, whatever ack says.
DropSignal(p) ==
    /\ drain[p].step = "drop"
    /\ LET after == Ack(signals, CurrentEntry(p).id) IN
        \/ signals' = after /\ UNCHANGED mishaps
        \/ SignalCommandFails(after)
    /\ CountFailed(p) /\ NextOf(p, RestOfBatch(p))
    /\ UNCHANGED <<sent, throttled, processed, cut>>

\* The loop has seen an empty batch or its limit; the flag is cleared later.
EndDrain(p) ==
    /\ drain[p].step = "end"
    /\ drain' = [drain EXCEPT ![p] = Resting]
    /\ UNCHANGED <<signals, sent, throttled, processed, failed, cut, mishaps>>

---------------------------------------------------------------------------
\* The process ends with its requests; the array ends with it.
ProcessDies(p) ==
    /\ Serves(p) /\ Mishap
    /\ drain' = [drain EXCEPT ![p] = Resting]
    /\ throttled' = [throttled EXCEPT ![p] = FALSE]
    /\ sent' = [s \in Signals |-> IF sent[s] = [stage |-> "passed", by |-> p]
                                  THEN [NotSent EXCEPT !.stage = "refused"] ELSE sent[s]]
    /\ signals' = IF signals.backend = "memory" THEN EmptyQueue("memory") ELSE signals
    /\ CutOff(p, Carried(p))
    /\ UNCHANGED <<processed, failed>>

\* Time: the delay of an entry passes.
DelayPasses ==
    /\ \E e \in signals.log :
        /\ ~e.ready
        /\ signals' = [signals EXCEPT !.log = (@ \ {e}) \cup {[e EXCEPT !.ready = TRUE]}]
    /\ UNCHANGED <<sent, throttled, drain, processed, failed, cut, mishaps>>

InDrains == {e.id : e \in UNION {drain[p].batch : p \in Processes}}

\* Thirty seconds pass and nobody has acknowledged the entry.  For one that no
\* drain works on any more they do pass; for one in the batch of a living drain
\* they may, since XAUTOCLAIM and the array look at nothing but the time.
SignalOverdue ==
    /\ \E i \in signals.held \ (signals.idle \cup InDrains) : signals' = Overdue(signals, i)
    /\ UNCHANGED <<sent, throttled, drain, processed, failed, cut, mishaps>>

SlowDrain ==
    /\ Mishap
    /\ \E i \in (signals.held \cap InDrains) \ signals.idle : signals' = Overdue(signals, i)
    /\ UNCHANGED <<sent, throttled, drain, processed, failed, cut>>

DrainStep(p) ==
    \/ DequeueSignals(p) \/ GiveBack(p) \/ PutBack(p) \/ ProcessSignal(p) \/ AckSignal(p)
    \/ RetryAck(p) \/ Requeue(p) \/ DropSignal(p) \/ EndDrain(p)

SignalNext ==
    \/ \E p \in Processes :
        \/ \E s \in Signals : PassGate(p, s) \/ EnqueueSignal(p, s)
        \/ DrainStep(p) \/ ProcessDies(p)
    \/ DelayPasses \/ SignalOverdue \/ SlowDrain

\* Drains and requests go on, time passes, and what was refused is sent again.
\* Nothing makes a drain slow.
SignalFairness ==
    /\ \A p \in Processes : WF_signalVars(DrainStep(p))
    /\ \A p \in Processes, s \in Signals : WF_signalVars(EnqueueSignal(p, s))
    /\ \A s \in Signals : WF_signalVars(\E p \in Processes : PassGate(p, s))
    /\ WF_signalVars(DelayPasses) /\ WF_signalVars(SignalOverdue)

SignalSpec == SignalInit /\ [][SignalNext]_signalVars /\ SignalFairness

---------------------------------------------------------------------------
\* MAXLEN pushed the signal out.
PushedOutOfStream(s) == Cardinality({e \in signals.log : e.body.signal # s}) >= SignalDepth

Waits(s) == \E e \in InQueue(signals) : e.body.signal = s

\* The signal is processed, counted as failed or still there: in the stream, in
\* a drain, or pushed out by newer ones.
IsAccountedFor(s) ==
    \/ s \in processed \cup failed
    \/ Waits(s) \/ PushedOutOfStream(s)
    \/ \E p \in Processes : s \in Carried(p)

\* Whatever fails, however drains of several processes overlap and whoever is
\* given an entry again, a signal that was accepted into the stream is accounted
\* for.  The exception is a drain cut off between acknowledging an entry and adding
\* it again while nothing else of the signal was left.
AcceptedIsAccountedFor ==
    signals.backend = "redis" =>
        \A s \in Signals : sent[s].stage = "accepted" => IsAccountedFor(s) \/ s \in cut

\* Backpressure ends: a signal that was refused and is sent again whenever it is
\* refused is accepted in the end.
AdmittedInTheEnd ==
    \A s \in Signals : (sent[s].stage = "refused") ~> (sent[s].stage = "accepted")
=============================================================================

---------------------------- MODULE AlertDelivery ----------------------------
(***************************************************************************)
(* The way of a security alert from emitSecurityAlert to its sinks: the    *)
(* alert is stored, put in the queue and delivered by whoever drains the   *)
(* queue -- the delivery worker, or a request that emits an alert and      *)
(* drains inline.  A drain reads what was delivered so far, tries the      *)
(* other sinks, stores what was delivered and acknowledges; between any    *)
(* two of these steps another drain may run, the process may die, and the  *)
(* queue may give an overdue entry to somebody else.                       *)
(***************************************************************************)
EXTENDS SecurityQueue

CONSTANTS
    Alerts,          \* alerts that are emitted and not deduplicated
    Sinks,           \* webhook, SIEM, SOAR, containment
    Drainers,        \* processes that drain the queue
    Backends,        \* queue backends the run looks at
    AlertDepth,      \* SECURITY_ALERT_DELIVERY_QUEUE_MAX_DEPTH
    AlertBatch,      \* SECURITY_ALERT_DELIVERY_QUEUE_DEQUEUE_BATCH
    MaxOverdue,      \* bound: entries a living drain lets become overdue
    MaxAlertFaults   \* bound: processes that die and acknowledgements that fail

ASSUME AlertBounds ==
    AlertDepth \in Nat /\ AlertBatch \in Nat \ {0} /\ Backends \subseteq QueueBackends

VARIABLES
    queue,      \* the delivery queue
    alertRow,   \* SecurityAlertEvent.delivered of each stored alert
    alertStage, \* how far emitSecurityAlert came
    drainer,    \* locals of each drain
    received,   \* sinks the alert reached, for whatever reason
    tried,      \* history: alerts every sink of which was tried
    slow,       \* bounded count of entries that a living drain let become overdue
    faults      \* bounded count

alertVars == <<queue, alertRow, alertStage, drainer, received, tried, slow, faults>>

\* No row of the alert.
NoRow == [stored |-> FALSE, delivered |-> {}]

Idle == [step |-> "dequeue", batch |-> {}, view |-> {}]

AlertInit ==
    /\ queue \in {EmptyQueue(b) : b \in Backends}
    /\ alertRow = [a \in Alerts |-> NoRow]
    /\ alertStage = [a \in Alerts |-> "new"]
    /\ drainer = [d \in Drainers |-> Idle]
    /\ received = [a \in Alerts |-> {}]
    /\ tried = {} /\ slow = 0 /\ faults = 0

\* The message a drain works on: batches are processed in order.
Message(d) == CHOOSE e \in drainer[d].batch : \A f \in drainer[d].batch : e.place <= f.place

Job(d) == Message(d).body

---------------------------------------------------------------------------
\* persistAlertEvent: without a row the alert is not queued at all.
PersistAlert(a) ==
    /\ alertStage[a] = "new"
    /\ \E stored \in BOOLEAN :
        /\ alertRow' = [alertRow EXCEPT ![a].stored = stored]
        /\ alertStage' = [alertStage EXCEPT ![a] = IF stored THEN "stored" ELSE "skipped"]
    /\ UNCHANGED <<queue, drainer, received, tried, slow, faults>>

\* enqueueSecurityAlertDelivery: no adapter, a full queue, a lost command or a
\* lost answer end in the same catch; the alert stays stored.
EnqueueAlert(a) ==
    /\ alertStage[a] = "stored"
    /\ \/ queue' \in Add(queue, a, TRUE, AlertDepth) /\ alertStage' = [alertStage EXCEPT ![a] = "queued"]
       \/ UNCHANGED queue /\ alertStage' = [alertStage EXCEPT ![a] = "unqueued"]
       \/ /\ queue.backend = "redis"
          /\ queue' \in Add(queue, a, TRUE, AlertDepth)
          /\ alertStage' = [alertStage EXCEPT ![a] = "unqueued"]
    /\ UNCHANGED <<alertRow, drainer, received, tried, slow, faults>>

---------------------------------------------------------------------------
\* adapter.dequeue of the loop in drainSecurityAlertDeliveryQueue.
Dequeue(d) ==
    /\ drainer[d].step = "dequeue"
    /\ LET q == Reclaim(queue)
           batch == Given(q, AlertBatch)
       IN /\ queue' = Give(q, batch)
          /\ drainer' = [drainer EXCEPT ![d] = IF batch = {} THEN Idle
                                               ELSE [Idle EXCEPT !.step = "read", !.batch = batch]]
    /\ UNCHANGED <<alertRow, alertStage, received, tried, slow, faults>>

\* readPersistedAlertDeliveredState: on an error the job's own state counts,
\* which says that nothing was delivered.
ReadDelivered(d) ==
    /\ drainer[d].step = "read"
    /\ \E view \in {alertRow[Job(d)].delivered, {}} :
        drainer' = [drainer EXCEPT ![d].step = "deliver", ![d].view = view]
    /\ UNCHANGED <<queue, alertRow, alertStage, received, tried, slow, faults>>

\* Mutant: a sink that was tried is marked.
MarksTried(d, ok) == Sinks

\* The sinks marked after the tries: those that answered count as delivered.
Marks(d, ok) == drainer[d].view \cup ok

\* The sinks that are not marked, one try each: ok are those that answered, got
\* those the alert reached although the answer was lost or an error.
Deliver(d) ==
    /\ drainer[d].step = "deliver"
    /\ \E got \in SUBSET (Sinks \ drainer[d].view) : \E ok \in SUBSET got :
        /\ received' = [received EXCEPT ![Job(d)] = @ \cup got]
        /\ drainer' = [drainer EXCEPT ![d].step = "record", ![d].view = Marks(d, ok)]
    /\ tried' = tried \cup {Job(d)}
    /\ UNCHANGED <<queue, alertRow, alertStage, slow, faults>>

\* updatePersistedAlertDeliveredState, whose errors are swallowed.
RecordDelivered(d) ==
    /\ drainer[d].step = "record"
    /\ \/ alertRow' = [alertRow EXCEPT ![Job(d)].delivered = drainer[d].view]
       \/ UNCHANGED alertRow
    /\ drainer' = [drainer EXCEPT ![d].step = "ack"]
    /\ UNCHANGED <<queue, alertStage, received, tried, slow, faults>>

\* The batch without its first message; an empty one ends in the next dequeue.
NextMessage(d) ==
    LET rest == drainer[d].batch \ {Message(d)} IN
    IF rest = {} THEN Idle ELSE [Idle EXCEPT !.step = "read", !.batch = rest]

\* adapter.ack, whatever the sinks said; when it throws, the drain ends and the
\* rest of its batch stays with it until it is overdue.
AckMessage(d) ==
    /\ drainer[d].step = "ack"
    /\ \/ /\ queue' = Ack(queue, Message(d).id)
          /\ drainer' = [drainer EXCEPT ![d] = NextMessage(d)]
          /\ UNCHANGED faults
       \/ /\ queue.backend = "redis" /\ faults < MaxAlertFaults
          /\ drainer' = [drainer EXCEPT ![d] = Idle]
          /\ faults' = faults + 1
          /\ UNCHANGED queue
    /\ UNCHANGED <<alertRow, alertStage, received, tried, slow>>

---------------------------------------------------------------------------
\* The process dies; an array dies with it and with everything it holds.
DrainerDies(d) ==
    /\ faults < MaxAlertFaults
    /\ faults' = faults + 1
    /\ drainer' = [c \in Drainers |-> IF c = d \/ queue.backend = "memory" THEN Idle ELSE drainer[c]]
    /\ queue' = IF queue.backend = "memory" THEN EmptyQueue("memory") ELSE queue
    /\ UNCHANGED <<alertRow, alertStage, received, tried, slow>>

\* Entries some living drain works on.
InHand == {e.id : e \in UNION {drainer[d].batch : d \in Drainers}}

\* Time: an entry nobody works on becomes overdue; one that a slow drain works
\* on may too.
BecomeOverdue ==
    \E e \in queue.log :
        /\ e.id \in queue.held \ queue.idle
        /\ IF e.id \in InHand THEN slow < MaxOverdue /\ slow' = slow + 1 ELSE UNCHANGED slow
        /\ queue' = Overdue(queue, e.id)
        /\ UNCHANGED <<alertRow, alertStage, drainer, received, tried, faults>>

AlertStep(d) ==
    Dequeue(d) \/ ReadDelivered(d) \/ Deliver(d) \/ RecordDelivered(d) \/ AckMessage(d)

AlertNext ==
    \/ \E a \in Alerts : PersistAlert(a) \/ EnqueueAlert(a)
    \/ \E d \in Drainers : AlertStep(d) \/ DrainerDies(d)
    \/ BecomeOverdue

\* A drain that has begun goes on, the worker starts one every second, and time
\* passes.
AlertFairness ==
    /\ \A d \in Drainers : WF_alertVars(AlertStep(d))
    /\ WF_alertVars(BecomeOverdue)

AlertSpec == AlertInit /\ [][AlertNext]_alertVars /\ AlertFairness

---------------------------------------------------------------------------
\* What the security team reads as delivered reached the sink, whoever wrote the
\* row and however old what it had read was.
DeliveredIsTrue == \A a \in Alerts : alertRow[a].delivered \subseteq received[a]

\* An alert that was put in the Redis queue leaves it only when its sinks have
\* been tried, or when MAXLEN trims it: never by a crash, an overlapping drain or
\* an acknowledgement of something else.
Trimmed(a) == Cardinality({e \in queue.log : e.body # a}) >= AlertDepth

KeptUntilTried ==
    \A a \in Alerts :
        alertStage[a] = "queued" /\ queue.backend = "redis" =>
            a \in tried \/ Trimmed(a) \/ \E e \in InQueue(queue) : e.body = a

\* Whatever dies, a queued alert is tried, unless the stream reached its limit.
QueuedIsTried ==
    \A a \in Alerts :
        alertStage[a] = "queued" /\ queue.backend = "redis"
            ~> a \in tried \/ Trimmed(a)
=============================================================================

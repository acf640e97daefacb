------------------------------ MODULE MCWorkers ------------------------------
(***************************************************************************)
(* What the workers bring to an end: the signing worker, the schedule of   *)
(* the sync worker, and the reconciliation of the two databases.  The part *)
(* a behaviour is about is chosen at its start; the others stay as they    *)
(* are.                                                                    *)
(***************************************************************************)
EXTENDS SigningIntentWorker, SyncSchedule, Reconciliation

VARIABLE part

\* A reconciliation is about one row: what a pass finds of a row says nothing of
\* another one.
WorkersInit ==
    /\ part \in {"signing", "schedule", "reconcile"}
    /\ Init /\ ScheduleInit /\ ReconcileInit
    /\ Cardinality(created) = IF part = "reconcile" THEN 1 ELSE 0

WorkersNext ==
    /\ \/ part = "signing" /\ Next /\ UNCHANGED <<scheduleVars, reconcileVars>>
       \/ part = "schedule" /\ ScheduleNext /\ UNCHANGED <<vars, reconcileVars>>
       \/ part = "reconcile" /\ ReconcileNext /\ UNCHANGED <<vars, scheduleVars>>
    /\ UNCHANGED part

\* The fairness of each part, for the behaviours that are about it.
WorkersFairness ==
    /\ \A w \in Workers : WF_vars(part = "signing" /\ Step(w))
    /\ WF_scheduleVars(part = "schedule" /\ WorkerPass)
    /\ \A w \in Watched : WF_scheduleVars(part = "schedule" /\ PagePass(w))
    /\ \A r \in SyncRows : WF_scheduleVars(part = "schedule" /\ AgeRow(r))
    /\ \A p \in Reconcilers : WF_reconcileVars(part = "reconcile" /\ PassStep(p))
    /\ \A x \in Items : WF_reconcileVars(part = "reconcile" /\ GracePasses(x))

WorkersSpec ==
    WorkersInit /\ [][WorkersNext]_<<part, vars, scheduleVars, reconcileVars>> /\ WorkersFairness

---------------------------------------------------------------------------
\* Every queued intent is brought to an end by the workers; it is in the queue from
\* the start, so this is said of the behaviours that are about them.
QueuedIntentsSettle == part = "signing" => EveryIntentSettles

---------------------------------------------------------------------------
\* Values of the constants: the first two intents share a reservation, and each
\* row is sent by one wallet.
NonceOfIntent == [i \in 1..N |-> IF i <= 2 THEN 1 ELSE 2]

ReservationIds == {1, 2}

CONSTANTS row1, row2, wallet1, wallet2

TwoRows == {row1, row2}

Senders == [r \in TwoRows |-> IF r = row1 THEN {wallet1} ELSE {wallet2}]
=============================================================================

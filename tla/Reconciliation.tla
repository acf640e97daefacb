---------------------------- MODULE Reconciliation ----------------------------
(***************************************************************************)
(* The reconciliation of the two databases                                 *)
(* (src/services/cross-db-reconciliation.service.ts): a pass reads the     *)
(* rows of PostgreSQL that were updated lately -- transfer logs, XRPL      *)
(* actions and risk decisions, one after the other -- then the             *)
(* transactions in CockroachDB that belong to them, and opens or resolves  *)
(* an issue for every row and kind of difference.  Workers and routes      *)
(* write both databases in between, in their own order, and several        *)
(* processes may reconcile at the same time.                               *)
(***************************************************************************)
EXTENDS Naturals, Sequences

CONSTANTS
    Logs,         \* transfer logs
    Actions,      \* XRPL actions
    Verdicts,     \* risk decisions about a send
    Reconcilers,  \* processes that run the reconciliation worker
    MaxPassThrows \* bound on passes that end with an error

ASSUME ReconciliationBounds == MaxPassThrows \in Nat

VARIABLES
    created,    \* the rows there are
    primary,    \* status and hash of the row in PostgreSQL
    intentHash, \* the signing intent of a log has the hash
    secondary,  \* status of the transaction in CockroachDB, or Absent
    inWindow,   \* rows within lookbackHours and the limit of a pass
    old,        \* rows created longer than graceMs ago
    openIssues, \* the row and the kind of each issue that is open
    pass,       \* locals of the pass of each process
    passThrows  \* bounded count

tables == <<primary, intentHash, secondary>>

reconcileVars == <<created, tables, inWindow, old, openIssues, pass, passThrows>>

Absent == "absent"

Items == Logs \cup Actions \cup Verdicts

Scopes == <<Logs, Actions, Verdicts>>

IssueKinds == {"missing", "mismatch"}

Between == [scope |-> 1, step |-> "primary", rows |-> << >>, linked |-> {}, others |-> << >>,
            todo |-> {}]

ReconcileInit ==
    /\ created \in SUBSET Items
    /\ primary = [x \in Items |-> [status |-> IF x \in Logs THEN "pending_broadcast" ELSE "queued",
                                   hash |-> FALSE]]
    /\ intentHash = [x \in Items |-> FALSE]
    /\ secondary = [x \in Items |-> Absent]
    /\ inWindow = created /\ old = {}
    /\ openIssues = {}
    /\ pass = [p \in Reconcilers |-> Between]
    /\ passThrows = 0

---------------------------------------------------------------------------
\* The statuses of a row that has a transaction.
Expecting(x) ==
    IF x \in Logs THEN {"submitted", "included", "confirmed_soft", "confirmed_final", "reorged",
                        "replaced", "dropped"}
    ELSE IF x \in Actions THEN {"submitted", "validated", "failed"} ELSE {}

\* What an issue is about: a row as it was read, and the transaction that was found.
\* shouldRequireChainTx and shouldRequireTransaction.  assessTransferRisk stores
\* no idempotency key in the context of a decision, so each one counts as missing
\* its key, and nothing is ever compared with it.
IsMissing(x, row, other) ==
    IF x \in Verdicts THEN x \in old
    ELSE x \in old /\ (row.hash \/ row.status \in Expecting(x)) /\ other = Absent

\* expectedXrplTransactionStatus; a queued action should have no transaction.
IsMismatch(x, row, other) ==
    /\ other # Absent
    /\ row.status # other \/ ~row.hash

IsOpen(x, kind, row, other) ==
    IF kind = "missing" THEN IsMissing(x, row, other) ELSE IsMismatch(x, row, other)

\* Mutant: the hash of the signing intent is not looked at.
EffectiveRowOfLog(row, linked) == row

\* effectiveTxHash: the log's, or that of its intent.
EffectiveRow(row, linked) == [row EXCEPT !.hash = @ \/ linked]

---------------------------------------------------------------------------
\* After a scope the next one begins, and after the last one the next pass.
AfterScope(p) == [Between EXCEPT !.scope = (pass[p].scope % Len(Scopes)) + 1]

\* findMany of the rows that were updated lately.  Nothing else is read when there
\* are none, and nothing of the other database for decisions without a key.
ReadPrimary(p) ==
    LET rows == [x \in Scopes[pass[p].scope] \cap inWindow |-> primary[x]] IN
    /\ pass[p].step = "primary"
    /\ pass' = [pass EXCEPT ![p] =
                   IF DOMAIN rows = {} THEN AfterScope(p)
                   ELSE [@ EXCEPT !.rows = rows,
                                  !.step = IF pass[p].scope = 1 THEN "intents" ELSE "secondary"]]
    /\ UNCHANGED <<created, tables, inWindow, old, openIssues, passThrows>>

\* findMany of the intents of the logs.
ReadIntents(p) ==
    /\ pass[p].step = "intents"
    /\ pass' = [pass EXCEPT
            ![p].linked = {x \in DOMAIN pass[p].rows : intentHash[x]},
            ![p].step = "secondary"]
    /\ UNCHANGED <<created, tables, inWindow, old, openIssues, passThrows>>

\* A transaction is looked for by its hash, that of an action also by the action.
Sought(p, x) ==
    EffectiveRow(pass[p].rows[x], x \in pass[p].linked).hash \/ x \in Actions

ReadSecondary(p) ==
    /\ pass[p].step = "secondary"
    /\ pass' = [pass EXCEPT
            ![p].others = [x \in DOMAIN pass[p].rows |->
                               IF Sought(p, x) THEN secondary[x] ELSE Absent],
            ![p].todo = (DOMAIN pass[p].rows) \X IssueKinds,
            ![p].step = "write"]
    /\ UNCHANGED <<created, tables, inWindow, old, openIssues, passThrows>>

\* setIssueState: opens the issue, or resolves it if it is open.
IssuesAfter(x, kind, isOpen) ==
    IF isOpen THEN openIssues \cup {<<x, kind>>} ELSE openIssues \ {<<x, kind>>}

\* One call of setIssueState: first for what is missing, then for what differs.
SetIssueState(p) ==
    /\ pass[p].step = "write"
    /\ \E <<x, kind>> \in pass[p].todo :
        LET row  == EffectiveRow(pass[p].rows[x], x \in pass[p].linked)
            left == pass[p].todo \ {<<x, kind>>}
        IN
        /\ kind = "mismatch" => <<x, "missing">> \notin left
        /\ openIssues' = IssuesAfter(x, kind, IsOpen(x, kind, row, pass[p].others[x]))
        /\ pass' = [pass EXCEPT ![p] =
                       IF left = {} THEN AfterScope(p) ELSE [@ EXCEPT !.todo = left]]
    /\ UNCHANGED <<created, tables, inWindow, old, passThrows>>

\* A query throws and the worker logs it, or the process is started again.
PassThrows(p) ==
    /\ passThrows < MaxPassThrows
    /\ passThrows' = passThrows + 1
    /\ pass[p] # Between
    /\ pass' = [pass EXCEPT ![p] = Between]
    /\ UNCHANGED <<created, tables, inWindow, old, openIssues>>

PassStep(p) ==
    ReadPrimary(p) \/ ReadIntents(p) \/ ReadSecondary(p) \/ SetIssueState(p)

---------------------------------------------------------------------------
\* What is written in the meantime.  A row of PostgreSQL that is written comes
\* back into the window.
WritePrimary(x, row) ==
    /\ primary' = [primary EXCEPT ![x] = row]
    /\ inWindow' = inWindow \cup {x}

\* The signing worker writes the hash to the intent when it is signed, then to the
\* log, and then the chain row; a write may be lost, and nothing repeats it.  When
\* it fails it takes the hash of the intent back.
SignIntent(x) ==
    /\ primary[x].status = "pending_broadcast" /\ secondary[x] = Absent
    /\ intentHash' = [intentHash EXCEPT ![x] = TRUE]
    /\ UNCHANGED <<primary, inWindow, secondary>>

SubmitTransfer(x) ==
    /\ primary[x].status = "pending_broadcast" /\ secondary[x] = Absent
    /\ WritePrimary(x, [status |-> "submitted", hash |-> TRUE])
    /\ UNCHANGED <<intentHash, secondary>>

FailLog(x) ==
    /\ primary[x].status \in {"pending_broadcast", "submitted"} /\ secondary[x] = Absent
    /\ WritePrimary(x, [primary[x] EXCEPT !.status = "failed"])
    /\ intentHash' \in {intentHash, [intentHash EXCEPT ![x] = FALSE]}
    /\ UNCHANGED secondary

RecordChain(x) ==
    /\ primary[x].status # "failed" /\ secondary[x] = Absent
    /\ secondary' = [secondary EXCEPT ![x] = "submitted"]
    /\ UNCHANGED <<primary, inWindow, intentHash>>

\* The sync writes the status to CockroachDB, and then to the logs with the hash.
SyncChain(x) ==
    /\ secondary[x] = "submitted"
    /\ \E status \in {"confirmed_final", "failed"} : secondary' = [secondary EXCEPT ![x] = status]
    /\ UNCHANGED <<primary, inWindow, intentHash>>

SyncTransfer(x) ==
    /\ secondary[x] # Absent /\ primary[x].hash
    /\ WritePrimary(x, [primary[x] EXCEPT !.status = secondary[x]])
    /\ UNCHANGED <<intentHash, secondary>>

\* A route writes the answer of the ledger to its action, where the write may be
\* lost, and then the transaction; an error after that fails the action.
UpdateAction(x) ==
    /\ primary[x].status = "queued" /\ secondary[x] = Absent
    /\ \E status \in {"submitted", "validated"} :
           WritePrimary(x, [status |-> status, hash |-> TRUE])
    /\ UNCHANGED <<intentHash, secondary>>

FailAction(x) ==
    /\ primary[x].status # "failed"
    /\ WritePrimary(x, [primary[x] EXCEPT !.status = "failed"])
    /\ UNCHANGED <<intentHash, secondary>>

RecordXrpl(x) ==
    /\ primary[x].status # "failed" /\ secondary[x] = Absent
    /\ \E status \in {"submitted", "validated", "failed"} :
           secondary' = [secondary EXCEPT ![x] = status]
    /\ UNCHANGED <<primary, inWindow, intentHash>>

WorkerWrites ==
    \/ \E x \in Logs \cap created : \/ SignIntent(x) \/ SubmitTransfer(x) \/ FailLog(x)
                       \/ RecordChain(x) \/ SyncChain(x) \/ SyncTransfer(x)
    \/ \E x \in Actions \cap created : UpdateAction(x) \/ FailAction(x) \/ RecordXrpl(x)

\* A row is no longer among the rows a pass reads: too old, or too many newer ones.
LeaveWindow(x) ==
    /\ x \in inWindow
    /\ inWindow' = inWindow \ {x}
    /\ UNCHANGED <<created, tables, old, openIssues, pass, passThrows>>

\* graceMs have passed since the row was created.
GracePasses(x) ==
    /\ x \in created \ old
    /\ old' = old \cup {x}
    /\ UNCHANGED <<created, tables, inWindow, openIssues, pass, passThrows>>

ReconcileNext ==
    \/ \E p \in Reconcilers : PassStep(p) \/ PassThrows(p)
    \/ WorkerWrites /\ UNCHANGED <<created, old, openIssues, pass, passThrows>>
    \/ \E x \in Items : LeaveWindow(x) \/ GracePasses(x)

---------------------------------------------------------------------------
(***************************************************************************)
(* What an operator may rely on                                            *)
(***************************************************************************)
\* What the rows of the two databases say now.
HashKnown(x) == primary[x].hash \/ intentHash[x]

Missing(x) ==
    /\ x \in old
    /\ secondary[x] = Absent
    /\ x \in Verdicts \/ HashKnown(x) \/ primary[x].status \in Expecting(x)

Diverged(x) ==
    /\ secondary[x] # Absent
    /\ HashKnown(x) \/ x \in Actions
    /\ primary[x].status # secondary[x] \/ ~HashKnown(x)

IssueIsTrue(x, kind) ==
    <<x, kind>> \in openIssues <=> IF kind = "missing" THEN Missing(x) ELSE Diverged(x)

\* The issues of a row that passes go on reading become, and stay, what the two
\* databases say of it once nothing writes them: a pass that read one side
\* before a write and the other side after it, or that writes an issue long after
\* another pass did, is corrected (reconcileCrossDbState).
IssuesBecomeTrue ==
    \A x \in Items :
        <>[](x \in inWindow) /\ <>[][FALSE]_tables
            => <>[](\A kind \in IssueKinds : IssueIsTrue(x, kind))

=============================================================================

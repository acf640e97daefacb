------------------------------ MODULE SyncSchedule ------------------------------
(***************************************************************************)
(* Which rows a sync pass looks at                                         *)
(* (src/services/chain-transaction-sync.service.ts,                        *)
(* syncRecentEvmChainTransactions): the most recently updated rows first,  *)
(* and no more than a limit of them.  The worker looks at all wallets, a   *)
(* wallet's page at the rows of that wallet.  A row is updated when its    *)
(* transaction has a receipt, also when that changes nothing, so a final   *)
(* row comes first again after every pass.  A row that the node knows      *)
(* nothing of is dropped after ten minutes, and no pass looks at it again. *)
(*                                                                         *)
(* What a pass does with a row, statement by statement, is                 *)
(* ChainTransactionSync; here a pass is one step.                          *)
(***************************************************************************)
EXTENDS Integers, SequencesExt

CONSTANTS
    SyncRows,     \* transactions
    Wallets,      \* wallets
    WalletsOf,    \* the sending and the receiving wallet of a transaction
    Watched,      \* wallets whose page is opened again and again
    WorkerLimit,  \* CHAIN_TRANSACTION_SYNC_LIMIT
    PageLimit,    \* the limit a wallet page passes
    MaxTake,      \* what a limit is clamped to (50)
    MaxLosses     \* bound: transactions that a block or the pool loses, answers that a node owes

VARIABLES
    recent,    \* the recorded rows, most recently updated first
    onChain,   \* where the transaction is: in a block, waiting in the pool, or gone
    rowStatus, \* status of the row; Unrecorded before it is recorded
    stale,     \* rows not updated for longer than the alert threshold
    aged,      \* rows created DROP_AFTER_MS ago
    reported,  \* rows an alert has counted as stuck
    unknown,   \* history: rows a node knew nothing of when they were old
    losses     \* bounded count

scheduleVars == <<recent, onChain, rowStatus, stale, aged, reported, unknown, losses>>

Unrecorded == "none"

\* SYNCABLE_CHAIN_TRANSACTION_STATUSES; soft finality is a kind of inclusion here.
Syncable == {"submitted", "included", "confirmed_final", "reorged"}

ASSUME ScheduleAssumption ==
    /\ WalletsOf \in [SyncRows -> SUBSET Wallets]
    /\ Watched \subseteq Wallets
    /\ {WorkerLimit, PageLimit} \subseteq Int
    /\ MaxTake \in Nat \ {0} /\ MaxLosses \in Nat

Recorded == {r \in SyncRows : rowStatus[r] # Unrecorded}

ScheduleInit ==
    /\ recent = << >>
    /\ onChain = [r \in SyncRows |-> "waiting"]
    /\ rowStatus = [r \in SyncRows |-> Unrecorded]
    /\ stale = {} /\ aged = {} /\ reported = {} /\ unknown = {}
    /\ losses = 0

(***************************************************************************)
(* A pass                                                                  *)
(***************************************************************************)
\* take: Math.min(Math.max(limit, 1), 50)
Take(limit) == Min({Max({limit, 1}), MaxTake})

\* Mutant: the page's filter on its wallet is lost.
OfWalletAny(r, w) == TRUE

\* where fromWalletId or toWalletId is the wallet
OfWallet(r, w) == w \in WalletsOf[r]

\* Of the wanted rows that are still followed, the first ones.
Batch(wanted, limit) ==
    LET rows == SelectSeq(recent, LAMBDA r : r \in wanted /\ rowStatus[r] \in Syncable)
    IN  ToSet(SubSeq(rows, 1, Min({Take(limit), Len(rows)})))

InBlock == {"shallow", "deep", "reverted"}

StatusOf(stage) ==
    CASE stage = "shallow" -> "included"
      [] stage = "deep" -> "confirmed_final"
      [] stage = "reverted" -> "failed"

\* What a node may say of a transaction: where it is; or, when it owes an answer,
\* that there is no receipt, and then that the row's block is still canonical, that
\* the transaction waits, or nothing at all.
Answers(rows) ==
    {onChain} \cup
    IF losses < MaxLosses
    THEN {[onChain EXCEPT ![r] = a] : r \in rows, a \in {"waiting", "gone"}}
         \cup {[onChain EXCEPT ![r] = "block"] : r \in {q \in rows : onChain[q] \in InBlock}}
    ELSE {}

\* hasCanonicalInclusionStatus, of a row that then has its block.
WasIncluded(s) == s \in {"included", "confirmed_final"}

\* Without a receipt a row loses its block.
WithoutBlock(s) == IF WasIncluded(s) THEN "reorged" ELSE s

\* syncRow: the status of the row after the answer.
StatusAfter(r, answer) ==
    CASE answer \in InBlock -> StatusOf(answer)
      [] answer = "block" /\ WasIncluded(rowStatus[r]) -> rowStatus[r]
      [] answer = "gone" /\ r \in aged -> "dropped"
      [] OTHER -> WithoutBlock(rowStatus[r])

\* updatedAt of the rows written; they are written in any order.
BringForward(rows) ==
    \E s \in SetToSeqs(rows) :
        recent' = s \o SelectSeq(recent, LAMBDA r : r \notin rows)

\* The rows with a receipt are written, also when nothing changes, and the others
\* when their status changes.
Written(rows, answer) ==
    {r \in rows : answer[r] \in InBlock \/ StatusAfter(r, answer[r]) # rowStatus[r]}

Sync(wanted, limit) ==
    /\ UNCHANGED <<onChain, aged>>
    /\ \E batch \in {Batch(wanted, limit)} : \E answer \in Answers(batch) :
       \E written \in {Written(batch, answer)} :
        /\ rowStatus' = [r \in SyncRows |->
               IF r \in written THEN StatusAfter(r, answer[r]) ELSE rowStatus[r]]
        /\ stale' = stale \ written
        /\ BringForward(written)
        /\ unknown' = unknown \cup {r \in batch \cap aged : answer[r] = "gone"}
        /\ losses' = IF answer = onChain THEN losses ELSE losses + 1

\* Mutant: only transactions that were never included count as stuck.
IsStuckIncluded(s) == s = "included"

IsStuck(s) == s \in {"submitted", "included"}

\* The worker's pass; afterwards it counts the stuck rows and alerts.
WorkerPass ==
    /\ Sync(SyncRows, WorkerLimit)
    /\ reported' = reported \cup {r \in stale' : IsStuck(rowStatus'[r])}

PagePass(w) ==
    /\ Sync({r \in SyncRows : OfWallet(r, w)}, PageLimit)
    /\ UNCHANGED reported

(***************************************************************************)
(* Environment                                                             *)
(***************************************************************************)
\* The signing worker records a transaction.
RecordRow(r) ==
    /\ rowStatus[r] = Unrecorded
    /\ rowStatus' = [rowStatus EXCEPT ![r] = "submitted"]
    /\ recent' = <<r>> \o recent
    /\ UNCHANGED <<onChain, stale, aged, reported, unknown, losses>>

MineRow(r) ==
    /\ rowStatus[r] # Unrecorded
    /\ \/ onChain[r] = "waiting" /\ \E s \in {"shallow", "reverted"} :
             onChain' = [onChain EXCEPT ![r] = s]
       \/ onChain[r] = "shallow" /\ onChain' = [onChain EXCEPT ![r] = "deep"]
    /\ UNCHANGED <<recent, rowStatus, stale, aged, reported, unknown, losses>>

\* A reorganisation takes the block back; nodes forget a transaction that waits, and
\* hear of it again.
LoseRow(r) ==
    /\ rowStatus[r] # Unrecorded
    /\ \/ /\ onChain[r] \in {"waiting", "shallow", "reverted"} /\ losses < MaxLosses
          /\ \E next \in {"waiting", "gone"} \ {onChain[r]} : onChain' = [onChain EXCEPT ![r] = next]
          /\ losses' = losses + 1
       \/ onChain[r] = "gone" /\ onChain' = [onChain EXCEPT ![r] = "waiting"] /\ UNCHANGED losses
    /\ UNCHANGED <<recent, rowStatus, stale, aged, reported, unknown>>

\* The threshold passes without an update of the row,
AgeRow(r) ==
    /\ r \in Recorded \ stale
    /\ stale' = stale \cup {r}
    /\ UNCHANGED <<recent, onChain, rowStatus, aged, reported, unknown, losses>>

\* and DROP_AFTER_MS since the row was created.
GrowOld(r) ==
    /\ r \in Recorded \ aged
    /\ aged' = aged \cup {r}
    /\ UNCHANGED <<recent, onChain, rowStatus, stale, reported, unknown, losses>>

ScheduleNext ==
    \/ WorkerPass
    \/ \E w \in Watched : PagePass(w)
    \/ \E r \in SyncRows : RecordRow(r) \/ MineRow(r) \/ LoseRow(r) \/ AgeRow(r) \/ GrowOld(r)

\* setInterval starts a pass again and again; watched pages are opened again; time
\* passes and the chain grows.
ScheduleFairness ==
    /\ WF_scheduleVars(WorkerPass)
    /\ \A w \in Watched : WF_scheduleVars(PagePass(w))
    /\ \A r \in SyncRows : WF_scheduleVars(MineRow(r)) /\ WF_scheduleVars(AgeRow(r))

ScheduleSpec == ScheduleInit /\ [][ScheduleNext]_scheduleVars /\ ScheduleFairness

(***************************************************************************)
(* Properties                                                              *)
(***************************************************************************)

\* Passes look at a row no more when it was dropped, since a node knew nothing of it
\* when it was old, or when they saw it fail; both may be overtaken by the chain.
GivenUp(r) == r \in unknown \/ rowStatus[r] = "failed"

\* "then sync updates final on-chain state" (docs/payment-structure.md): a
\* transaction that is deep in the chain becomes final in the wallet, unless its row
\* was given up, however many other rows come first in the order of updates.
EveryRowIsSynced ==
    \A r \in SyncRows :
        (onChain[r] = "deep") ~> (rowStatus[r] = "confirmed_final" \/ GivenUp(r))

\* A wallet whose page is opened again and again gets its rows to their end, as long
\* as it has no more of them than the page looks at, although rows of other wallets
\* come first for the worker, blocks and the pool lose transactions, and a node owes
\* an answer.  The exceptions: a row that a node knew nothing of when a pass looked at
\* it ten minutes after its creation or later is dropped, and stays so when the
\* transaction is mined after all; and a row that a pass saw fail stays failed when
\* its block is taken back.
WatchedRowsAreSynced ==
    \A r \in {q \in SyncRows : WalletsOf[q] \cap Watched # {}} :
        ((onChain[r] = "deep") ~> (rowStatus[r] = "confirmed_final" \/ GivenUp(r)))

\* A row that no pass brings forward is counted by the worker's alert.
StuckIsReported ==
    \A r \in SyncRows : (rowStatus[r] = "submitted")
                        ~> (rowStatus[r] # "submitted" \/ r \in reported)
=============================================================================

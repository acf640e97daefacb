------------------------- MODULE ChainTransactionSync -------------------------
(***************************************************************************)
(* The sync of one EVM transaction                                         *)
(* (src/services/chain-transaction-sync.service.ts, syncRow): the chain    *)
(* row, the transfer log, the nonce reservation, the signing intent and    *)
(* the token transfers follow what the chain says about the transaction.   *)
(*                                                                         *)
(* A pass selects the row, reads the head, reads the receipt and then      *)
(* writes one table after the other.  The worker and the wallet pages both *)
(* start passes, so passes overlap, each with the row it read at its       *)
(* start.  A pass may be cut off between any two steps.  The chain mines,  *)
(* reorganises up to ReorgDepth blocks, and the node's mempool may forget  *)
(* the transaction.                                                        *)
(***************************************************************************)
EXTENDS EvmFinality

CONSTANTS
    Passes,      \* sync passes that may overlap
    MaxHead,     \* bound on the height of the chain
    MaxForks,    \* bound on the number of reorganisations
    ReorgDepth,  \* how many blocks a reorganisation may replace
    Evictions,   \* TRUE: the mempool may forget the transaction
    Executions,  \* receipt outcomes of the transaction: TRUE, FALSE or both
    Outages,     \* TRUE: the RPC endpoint may stop answering, and answer again
    MaxCuts      \* bound on the passes that are cut off and the write errors they pass over

VARIABLES
    \* the chain
    head,      \* height of the canonical chain
    forks,     \* number of reorganisations so far
    branch,    \* [0..MaxHead -> fork number of the canonical block there]
    txAt,      \* height of the canonical block with the transaction, or NoBlock
    succeeds,  \* the outcome of its execution there (receipt.status)
    mempool,   \* the node knows the transaction as pending
    outage,    \* the RPC endpoint does not answer
    \* the wallet's tables
    row,       \* [status, block]: the ChainTransaction row
    transfer,  \* status of the transfer log
    nonce,     \* status of the nonce reservation
    intent,    \* status of the signing intent
    indexed,   \* block of the ChainIndexTransaction row
    tokens,    \* the token transfers of the transaction are stored
    aged,      \* DROP_AFTER_MS has passed since the row was created
    \* the passes
    pc, seen, current, target, cuts

chainVars == <<head, forks, branch, txAt, succeeds, mempool, outage>>

tableVars == <<row, transfer, nonce, intent, indexed, tokens>>

passVars == <<pc, seen, current, target>>

vars == <<chainVars, tableVars, aged, passVars, cuts>>

Heights == 0..MaxHead

\* A block is known by its height and the fork that mined it (its hash).
Block(h) == [height |-> h, fork |-> branch[h]]

Blocks == [height: Heights, fork: 0..MaxForks]

Row == [status: ChainStatuses, block: Blocks \cup {NoBlock}]

Pcs == {"idle", "head", "receipt", "index", "row", "transfer", "nonce", "intent",
        "tokens", "canonical", "lookup"}

ASSUME SyncAssumption ==
    /\ MaxHead \in Nat
    /\ MaxForks \in Nat
    /\ MaxCuts \in Nat
    /\ ReorgDepth \in 0..(FinalConfirmations - 1)
    /\ Executions \subseteq BOOLEAN
    /\ NoBlock \notin Blocks

TypeOK ==
    /\ head \in Heights
    /\ forks \in 0..MaxForks
    /\ branch \in [Heights -> 0..MaxForks]
    /\ txAt \in Heights \cup {NoBlock}
    /\ succeeds \in BOOLEAN
    /\ mempool \in BOOLEAN
    /\ outage \in BOOLEAN
    /\ row \in Row
    /\ transfer \in TransferStatuses
    /\ nonce \in {"SUBMITTED", "CONFIRMED", "FAILED"}
    /\ intent \in {"submitted", "confirmed", "failed"}
    /\ indexed \in Blocks \cup {NoBlock}
    /\ tokens \in BOOLEAN
    /\ aged \in BOOLEAN
    /\ pc \in [Passes -> Pcs]
    /\ seen \in [Passes -> Row]
    /\ current \in [Passes -> Heights]
    /\ target \in [Passes -> Row]
    /\ cuts \in 0..MaxCuts

RowOf(status, block) == [status |-> status, block |-> block]

\* What stands in a pass's locals while it runs no sync.
NoRow == RowOf("submitted", NoBlock)

\* The worker has just recorded the transaction as submitted, or the row is an
\* old one: confirmed, by a version that did not store the block.
Init ==
    /\ head = 0
    /\ forks = 0
    /\ branch = [h \in Heights |-> 0]
    /\ txAt = NoBlock
    /\ succeeds = TRUE
    /\ mempool = TRUE
    /\ outage = FALSE
    /\ row \in {RowOf("submitted", NoBlock), RowOf("confirmed_soft", NoBlock)}
    /\ transfer = row.status
    /\ nonce = "SUBMITTED"
    /\ intent = "submitted"
    /\ indexed = NoBlock
    /\ tokens = FALSE
    /\ aged = FALSE
    /\ pc = [p \in Passes |-> "idle"]
    /\ seen = [p \in Passes |-> NoRow]
    /\ current = [p \in Passes |-> 0]
    /\ target = [p \in Passes |-> NoRow]
    /\ cuts = 0

Goto(p, where) == pc' = [pc EXCEPT ![p] = where]

\* The pass is over and its locals are gone.
Finish(p) ==
    /\ Goto(p, "idle")
    /\ seen' = [seen EXCEPT ![p] = NoRow]
    /\ current' = [current EXCEPT ![p] = 0]
    /\ target' = [target EXCEPT ![p] = NoRow]

Continue(p, where) ==
    /\ Goto(p, where)
    /\ UNCHANGED <<seen, current, target>>

\* The sync of the row goes on, having decided what to write.
Decide(p, status, block, where) ==
    /\ Goto(p, where)
    /\ target' = [target EXCEPT ![p] = RowOf(status, block)]
    /\ UNCHANGED <<seen, current>>

KeepsTables == UNCHANGED <<chainVars, tableVars, aged, cuts>>

(***************************************************************************)
(* A pass reads                                                            *)
(***************************************************************************)
Select(p) ==
    /\ pc[p] = "idle"
    /\ row.status \in Syncable
    /\ seen' = [seen EXCEPT ![p] = row]
    /\ Goto(p, "head")
    /\ UNCHANGED <<current, target>>
    /\ KeepsTables

\* getBlockNumber; the pass ends when it fails.
ReadHead(p) ==
    /\ pc[p] = "head"
    /\ \/ /\ ~outage
          /\ current' = [current EXCEPT ![p] = head]
          /\ Goto(p, "receipt")
          /\ UNCHANGED <<seen, target>>
       \/ outage /\ Finish(p)
    /\ KeepsTables

\* Mutant: one block too few makes a transaction final.
StatusOfReceiptEarly(p) ==
    IF ~succeeds THEN "failed"
    ELSE GetEvmTransactionFinality(current[p] + 1, txAt)

\* What the receipt means, measured with the head the pass read before.
StatusOfReceipt(p) ==
    IF ~succeeds THEN "failed" ELSE GetEvmTransactionFinality(current[p], txAt)

KnowsBlock(p) ==
    HasCanonicalInclusionStatus(seen[p].status) /\ seen[p].block # NoBlock

\* getTransactionReceipt: a receipt, or null (none, or the read failed).
ReadReceipt(p) ==
    /\ pc[p] = "receipt"
    /\ \/ /\ ~outage /\ txAt # NoBlock
          /\ Decide(p, StatusOfReceipt(p), Block(txAt), "index")
       \/ /\ outage \/ txAt = NoBlock
          /\ Continue(p, IF KnowsBlock(p) THEN "canonical" ELSE "lookup")
    /\ KeepsTables

\* readCanonicalBlock, by height; above the head, or on an error, it is null.
ReadCanonicalBlock(p) ==
    /\ pc[p] = "canonical"
    /\ LET h == seen[p].block.height
           same == ~outage /\ h <= head /\ Block(h) = seen[p].block
       IN \/ same /\ Finish(p)
          \/ ~same /\ Decide(p, "reorged", NoBlock, "index")
    /\ KeepsTables

\* normalizedStatus, which the reorg branch sets to reorged.
Waiting(p) ==
    \/ seen[p].status \in {"submitted", "reorged"}
    \/ target[p].status = "reorged"

\* getTransaction: known and waiting, known but counted as included, or unknown.
\* An unknown transaction, or a read that failed, drops the row once it is old
\* enough.
Lookup(p) ==
    /\ pc[p] = "lookup"
    /\ LET known == ~outage /\ (mempool \/ txAt # NoBlock) IN
       \/ known /\ Waiting(p) /\ Finish(p)
       \/ known /\ ~Waiting(p) /\ Decide(p, "submitted", seen[p].block, "row")
       \/ ~known /\ ~aged /\ Finish(p)
       \/ ~known /\ aged /\ Decide(p, "dropped", NoBlock, "index")
    /\ KeepsTables

(***************************************************************************)
(* A pass writes, one table after the other                                *)
(***************************************************************************)

\* The indexed data: the receipt's, or cleared.  Token transfers go when the
\* transaction left its block or moved to another one.
Moved(p) == KnowsBlock(p) /\ seen[p].block # target[p].block

WriteIndex(p) ==
    /\ pc[p] = "index"
    /\ indexed' = target[p].block
    /\ tokens' = (tokens /\ target[p].block # NoBlock /\ ~Moved(p))
    /\ Continue(p, "row")
    /\ UNCHANGED <<chainVars, row, transfer, nonce, intent, aged, cuts>>

\* The submitted branch leaves the block columns alone.
WriteRow(p) ==
    /\ pc[p] = "row"
    /\ row' = RowOf(target[p].status,
                    IF target[p].status = "submitted" THEN row.block
                    ELSE target[p].block)
    /\ Continue(p, "transfer")
    /\ UNCHANGED <<chainVars, transfer, nonce, intent, indexed, tokens, aged, cuts>>

\* Outside strict mode the writes of the transfer and of the intent log an error,
\* and the pass goes on.
PassesOver == cuts < MaxCuts /\ cuts' = cuts + 1

WriteTransfer(p) ==
    /\ pc[p] = "transfer"
    /\ \/ transfer' = target[p].status /\ UNCHANGED cuts
       \/ PassesOver /\ UNCHANGED transfer
    /\ Continue(p, "nonce")
    /\ UNCHANGED <<chainVars, row, nonce, intent, indexed, tokens, aged>>

\* Mutant: a dropped transaction leaves its nonce submitted.
NonceStatusForgets(status) ==
    CASE status = "confirmed_final" -> "CONFIRMED"
      [] status = "failed" -> "FAILED"
      [] OTHER -> "SUBMITTED"

NonceStatus(status) ==
    CASE status = "confirmed_final" -> "CONFIRMED"
      [] status \in {"failed", "dropped"} -> "FAILED"
      [] OTHER -> "SUBMITTED"

WriteNonce(p) ==
    /\ pc[p] = "nonce"
    /\ nonce' = NonceStatus(target[p].status)
    /\ Continue(p, "intent")
    /\ UNCHANGED <<chainVars, row, transfer, intent, indexed, tokens, aged, cuts>>

\* Mutant: the intent of a dropped transaction takes the chain's word for it.
IntentStatusRaw(status) ==
    CASE status = "confirmed_final" -> "confirmed"
      [] status \in {"failed", "dropped"} -> status
      [] OTHER -> "submitted"

IntentStatus(status) ==
    CASE status = "confirmed_final" -> "confirmed"
      [] status \in {"failed", "dropped"} -> "failed"
      [] OTHER -> "submitted"

WriteIntent(p) ==
    /\ pc[p] = "intent"
    /\ \/ intent' = IntentStatus(target[p].status) /\ UNCHANGED cuts
       \/ PassesOver /\ UNCHANGED intent
    /\ CASE target[p].status = "confirmed_final" -> Continue(p, "tokens")
         [] target[p].status = "reorged" -> Continue(p, "lookup")
         [] OTHER -> Finish(p)
    /\ UNCHANGED <<chainVars, row, transfer, nonce, indexed, tokens, aged>>

WriteTokens(p) ==
    /\ pc[p] = "tokens"
    /\ tokens' = TRUE
    /\ Finish(p)
    /\ UNCHANGED <<chainVars, row, transfer, nonce, intent, indexed, aged, cuts>>

\* A write throws, or the process dies: the rest of the pass does not happen.
Cut(p) ==
    /\ pc[p] # "idle"
    /\ cuts < MaxCuts
    /\ cuts' = cuts + 1
    /\ Finish(p)
    /\ UNCHANGED <<chainVars, tableVars, aged>>

Step(p) ==
    \/ Select(p)
    \/ ReadHead(p)
    \/ ReadReceipt(p)
    \/ ReadCanonicalBlock(p)
    \/ Lookup(p)
    \/ WriteIndex(p)
    \/ WriteRow(p)
    \/ WriteTransfer(p)
    \/ WriteNonce(p)
    \/ WriteIntent(p)
    \/ WriteTokens(p)

(***************************************************************************)
(* The chain                                                               *)
(***************************************************************************)
KeepsWallet == UNCHANGED <<tableVars, passVars, aged, cuts>>

\* The transaction is in a new block at height h, executed with some outcome.
Include(h) ==
    /\ txAt' = h
    /\ succeeds' \in Executions
    /\ mempool' = FALSE

Mine ==
    /\ head < MaxHead
    /\ head' = head + 1
    /\ branch' = [branch EXCEPT ![head + 1] = forks]
    /\ \/ mempool /\ txAt = NoBlock /\ Include(head + 1)
       \/ UNCHANGED <<txAt, succeeds, mempool>>
    /\ UNCHANGED <<forks, outage>>
    /\ KeepsWallet

\* The last d blocks are replaced.  A transaction in one of them is mined again
\* in a new block, waits in the mempool, or is forgotten.
Reorg(d) ==
    /\ d <= head
    /\ forks < MaxForks
    /\ forks' = forks + 1
    /\ branch' = [h \in Heights |-> IF h > head - d /\ h <= head
                                    THEN forks + 1 ELSE branch[h]]
    /\ IF txAt # NoBlock /\ txAt > head - d
       THEN \/ \E h \in (head - d + 1)..head : Include(h)
            \/ /\ txAt' = NoBlock
               /\ mempool' \in {TRUE, ~Evictions}
               /\ UNCHANGED succeeds
       ELSE UNCHANGED <<txAt, succeeds, mempool>>
    /\ UNCHANGED <<head, outage>>
    /\ KeepsWallet

\* The node's mempool forgets the transaction, or learns it again from a peer.
Mempool ==
    /\ Evictions
    /\ txAt = NoBlock
    /\ mempool' = ~mempool
    /\ UNCHANGED <<head, forks, branch, txAt, succeeds, outage>>
    /\ KeepsWallet

\* The RPC endpoint stops answering, or answers again.
Outage ==
    /\ Outages
    /\ outage' = ~outage
    /\ UNCHANGED <<head, forks, branch, txAt, succeeds, mempool>>
    /\ KeepsWallet

Age ==
    /\ ~aged
    /\ aged' = TRUE
    /\ UNCHANGED <<chainVars, tableVars, passVars, cuts>>

Next ==
    \/ \E p \in Passes : Step(p)
    \/ \E p \in Passes : Cut(p)
    \/ Mine
    \/ \E d \in 1..ReorgDepth : Reorg(d)
    \/ Mempool
    \/ Outage
    \/ Age

\* setInterval starts passes again and again, a started pass runs on, and the
\* chain keeps growing.
Fairness == WF_vars(Mine) /\ \A p \in Passes : WF_vars(Step(p))

Spec == Init /\ [][Next]_vars

FairSpec == Spec /\ Fairness

(***************************************************************************)
(* Properties                                                              *)
(***************************************************************************)

\* The transaction is under FinalConfirmations blocks, its own included.
FinalOnChain == txAt # NoBlock /\ head - txAt + 1 >= FinalConfirmations

Confirmed ==
    \/ row.status = "confirmed_final"
    \/ nonce = "CONFIRMED"
    \/ intent = "confirmed"

\* Whatever the overlap of passes, the age of what they read, reorganisations and
\* failing reads: what the wallet calls final is on the chain, in the block the
\* row names, too deep to be reorganised away.
ConfirmedIsFinal ==
    /\ Confirmed => FinalOnChain /\ succeeds
    /\ row.status = "confirmed_final" => row.block = Block(txAt)

NoOverlap == \A p, q \in Passes : pc[p] # "idle" /\ pc[q] # "idle" => p = q

Quiet == (\A p \in Passes : pc[p] = "idle") /\ cuts = 0

\* With one pass at a time, none cut off and no error passed over, the tables agree between passes: the
\* transfer, the nonce and the intent say what the chain row says, the indexed data
\* are those of its block, and the token transfers are there when it is final.
TablesAgree ==
    Quiet =>
        /\ transfer = row.status
        /\ nonce = "CONFIRMED" <=> row.status = "confirmed_final"
        /\ intent = "confirmed" <=> row.status = "confirmed_final"
        /\ nonce = "FAILED" <=> row.status \in {"failed", "dropped"}
        /\ intent = "failed" <=> row.status \in {"failed", "dropped"}
        /\ indexed = row.block
        /\ tokens <=> row.status = "confirmed_final"

Restored ==
    /\ row.status = "confirmed_final"
    /\ transfer = "confirmed_final"
    /\ nonce = "CONFIRMED"
    /\ intent = "confirmed"

\* The chain keeps the transaction, executed and deep enough, and answers.
ChainSettles == <>[](FinalOnChain /\ succeeds /\ ~outage)

\* "Reopen reconciliation from the last submitted intent/nonce state until
\* finality depth is restored" (README.md): a transaction that ends up final on
\* the chain ends up final in every table, whatever reorganisations, outages and
\* cut passes came before.  It is asked of rows that syncRow does not give up as
\* failed or dropped: those no later pass selects.
FinalityRestored ==
    ChainSettles /\ <>[](row.status \notin {"failed", "dropped"}) => <>[]Restored
=============================================================================

----------------------------- MODULE FinalityCalls -----------------------------
(***************************************************************************)
(* Calls of the functions of src/lib/chain-transactions.ts: a state is one *)
(* call of getEvmTransactionFinality, with a head that grows above the     *)
(* block of a receipt, and one call of each function that reads a stored   *)
(* status.                                                                 *)
(***************************************************************************)
EXTENDS EvmFinality, FiniteSets

CONSTANT MaxHead   \* bound on the height of the head

VARIABLES
    head,      \* currentBlockNumber
    included,  \* the block number of the receipt, or NoBlock
    name       \* a status as some version of the application has stored it

finalityVars == <<head, included, name>>

\* A node that lags behind its receipts reports a head below the block.
FinalityInit ==
    /\ head = 0
    /\ included \in (0..MaxHead) \cup {NoBlock}
    /\ name \in TransferStatuses \cup LegacyNames \cup {"unheard_of"}

FinalityNext == head < MaxHead /\ head' = head + 1 /\ UNCHANGED <<included, name>>

FinalitySpec == FinalityInit /\ [][FinalityNext]_finalityVars

---------------------------------------------------------------------------
Status == GetEvmTransactionFinality(head, included)

\* A transaction is final exactly when FinalConfirmations blocks, its own
\* included, are on the chain from its block to the head, and soft from two on
\* (chain-transactions.ts 88-108).
FinalMeansDepth ==
    LET blocks == IF included = NoBlock THEN {} ELSE included..head IN
    /\ Status = "confirmed_final" <=> Cardinality(blocks) >= FinalConfirmations
    /\ Status = "included" <=> Cardinality(blocks) < 2

\* The names the chain rows and the transfers have in common.
ChainNames ==
    ChainStatuses \cup {"broadcast", "broadcasted", "pending", "confirmed", "settled", "validated"}

\* A transfer and its chain row are read alike: every name the two vocabularies
\* share means the same in both, and what was read once is read the same again.
ReadsAlike ==
    LET chain == NormalizeChainTransactionStatus(name)
        transfer == NormalizeTransferWorkflowStatus(name)
    IN /\ NormalizeTransferWorkflowStatus(chain) = chain
       /\ NormalizeChainTransactionStatus(chain) = chain
       /\ NormalizeTransferWorkflowStatus(transfer) = transfer
       /\ name \in ChainNames => transfer = chain
=============================================================================

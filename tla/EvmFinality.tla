------------------------------ MODULE EvmFinality ------------------------------
(***************************************************************************)
(* The status vocabulary of the wallet's EVM transactions                  *)
(* (src/lib/chain-transactions.ts): which statuses there are, how legacy   *)
(* names are read, and how the depth of a receipt becomes a status.        *)
(***************************************************************************)
EXTENDS Integers

CONSTANTS
    NoBlock,            \* null / undefined
    FinalConfirmations  \* EVM_FINALITY_FINAL_CONFIRMATIONS (12)

ASSUME FinalityAssumption == FinalConfirmations \in Nat \ {0, 1}

ChainStatuses ==
    {"submitted", "included", "confirmed_soft", "confirmed_final", "reorged",
     "failed", "replaced", "dropped"}

TransferStatuses ==
    ChainStatuses \cup {"created", "pending_broadcast", "denied", "review"}

\* Mutant: final rows are not looked at again.
SyncableUnlessFinal == {"submitted", "included", "confirmed_soft", "reorged"}

\* Rows a sync pass looks at, and rows that count as spending of the day.
Syncable == {"submitted", "included", "confirmed_soft", "confirmed_final", "reorged"}

ActiveSpend == {"submitted", "included", "confirmed_soft", "confirmed_final"}

HasCanonicalInclusionStatus(status) ==
    status \in {"included", "confirmed_soft", "confirmed_final"}

\* Mutant: the including block is not counted.
RawConfirmationsAbove(current, included) == current - included

RawConfirmations(current, included) == current - included + 1

\* The node may report a head below the including block: the count is 1 then.
ConfirmationCount(current, included) ==
    IF included = NoBlock \/ RawConfirmations(current, included) < 1 THEN 1
    ELSE RawConfirmations(current, included)

GetEvmTransactionFinality(current, included) ==
    LET count == ConfirmationCount(current, included) IN
    CASE count >= FinalConfirmations -> "confirmed_final"
      [] count >= 2 /\ count < FinalConfirmations -> "confirmed_soft"
      [] OTHER -> "included"

(***************************************************************************)
(* Legacy names                                                            *)
(***************************************************************************)
\* Mutant: one of the old names of a submitted transaction is forgotten.
LegacySubmittedShort == {"broadcast", "broadcasted"}

LegacySubmitted == {"broadcast", "broadcasted", "pending"}

LegacyNames ==
    {"broadcast", "broadcasted", "pending", "confirmed", "settled", "validated",
     "initiated", "approved", "queued"}

NormalizeChainTransactionStatus(status) ==
    CASE status \in ChainStatuses -> status
      [] status = "confirmed" -> "confirmed_soft"
      [] status \in {"settled", "validated"} -> "confirmed_final"
      [] OTHER -> "submitted"

NormalizeTransferWorkflowStatus(status) ==
    CASE status \in TransferStatuses -> status
      [] status \in {"initiated", "queued"} -> "created"
      [] status = "approved" -> "pending_broadcast"
      [] status \in LegacySubmitted -> "submitted"
      [] status = "confirmed" -> "confirmed_soft"
      [] status \in {"settled", "validated"} -> "confirmed_final"
      [] OTHER -> "failed"
=============================================================================

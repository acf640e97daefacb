---------------------- MODULE ChainTransactionSyncProofs ----------------------
(***************************************************************************)
(* Whatever the number of passes, of blocks, of reorganisations shallower  *)
(* than the finality depth, of failing reads and of cut passes: what the   *)
(* wallet calls final is final on the chain.                               *)
(*                                                                         *)
(* ConfirmedIsFinal is not inductive: a pass carries a decision from the   *)
(* receipt it read to writes it makes much later.  The invariant says of   *)
(* that decision what ConfirmedIsFinal says of the tables, and that the    *)
(* head a pass measures with was a height of the chain.                    *)
(*                                                                         *)
(* And as long as no two passes overlap and none is cut off, the tables    *)
(* agree between passes: the invariant says, for every step of a pass,     *)
(* which of the tables have heard of its decision.                         *)
(***************************************************************************)
EXTENDS MCChainTransactionSync, TLAPS

FinalAt(block) == FinalOnChain /\ succeeds /\ block = Block(txAt)

\* The transaction and the head a pass read lie on the chain.
OnChain ==
    /\ txAt # NoBlock => txAt <= head
    /\ \A p \in Passes : current[p] <= head

\* A pass that will write confirmed_final does so for a transaction that is final.
DecisionIsFinal ==
    \A p \in Passes : target[p].status = "confirmed_final" => FinalAt(target[p].block)

TablesAreFinal ==
    /\ nonce = "CONFIRMED" => FinalOnChain /\ succeeds
    /\ intent = "confirmed" => FinalOnChain /\ succeeds
    /\ row.status = "confirmed_final" => FinalAt(row.block)

IInv == TypeOK /\ OnChain /\ DecisionIsFinal /\ TablesAreFinal

(***************************************************************************)
(* The operators                                                           *)
(***************************************************************************)

\* The records RowOf builds (sync.service.ts, the row's two columns).
LEMMA RowOfFacts ==
    ASSUME NEW s, NEW b
    PROVE  /\ RowOf(s, b).status = s
           /\ RowOf(s, b).block = b
           /\ s \in ChainStatuses /\ b \in Blocks \cup {NoBlock} => RowOf(s, b) \in Row
  BY DEF RowOf, Row

\* getEvmTransactionFinality answers with a status of the chain, and with the
\* final one only for a block that deep below the head it was given.
LEMMA FinalityFacts ==
    ASSUME NEW c \in Nat, NEW i \in Nat
    PROVE  /\ GetEvmTransactionFinality(c, i) \in ChainStatuses
           /\ GetEvmTransactionFinality(c, i) = "confirmed_final"
                => c - i + 1 >= FinalConfirmations
<1> DEFINE n == ConfirmationCount(c, i)
<1>1. n \in Nat /\ (n > 1 => n = c - i + 1)
  BY DEF ConfirmationCount, RawConfirmations
<1>2. FinalConfirmations \in Nat /\ FinalConfirmations > 1
  BY FinalityAssumption
<1> HIDE DEF n
<1>3. CASE n >= FinalConfirmations
  BY <1>1, <1>2, <1>3 DEF GetEvmTransactionFinality, ChainStatuses, n
<1>4. CASE ~(n >= FinalConfirmations)
  <2>1. GetEvmTransactionFinality(c, i) \in {"confirmed_soft", "included"}
    BY <1>1, <1>2, <1>4 DEF GetEvmTransactionFinality, n
  <2> QED
    BY <2>1 DEF ChainStatuses
<1> QED
  BY <1>3, <1>4

\* What a receipt is read as, and when it is read as final.
LEMMA ReceiptFacts ==
    ASSUME TypeOK, OnChain, NEW p \in Passes, txAt # NoBlock
    PROVE  /\ StatusOfReceipt(p) \in ChainStatuses
           /\ StatusOfReceipt(p) = "confirmed_final" => FinalOnChain /\ succeeds
<1>1. txAt \in Nat /\ current[p] \in Nat /\ head \in Nat /\ current[p] <= head
  BY SyncAssumption DEF TypeOK, OnChain, Heights
<1>2. FinalConfirmations \in Nat
  BY FinalityAssumption
<1>3. CASE succeeds
  BY <1>1, <1>2, <1>3, FinalityFacts DEF StatusOfReceipt, FinalOnChain
<1>4. CASE ~succeeds
  BY <1>4 DEF StatusOfReceipt, ChainStatuses
<1> QED
  BY <1>3, <1>4

\* A higher head buries a block deeper.
LEMMA DepthGrows ==
    ASSUME NEW t \in Nat, NEW h \in Nat, NEW k \in Nat, NEW f \in Nat,
           h <= k, h - t + 1 >= f
    PROVE  k - t + 1 >= f
  OBVIOUS

\* Blocks are blocks.
LEMMA BlockType ==
    ASSUME TypeOK, NEW h \in Heights
    PROVE  Block(h) \in Blocks
  BY DEF TypeOK, Block, Blocks

\* The statuses the nonce and the intent take.
LEMMA MarkFacts ==
    ASSUME NEW s
    PROVE  /\ NonceStatus(s) \in {"SUBMITTED", "CONFIRMED", "FAILED"}
           /\ IntentStatus(s) \in {"submitted", "confirmed", "failed"}
           /\ NonceStatus(s) = "CONFIRMED" => s = "confirmed_final"
           /\ IntentStatus(s) = "confirmed" => s = "confirmed_final"
<1>1. CASE s = "confirmed_final"
  BY <1>1 DEF NonceStatus, IntentStatus
<1>2. CASE s \in {"failed", "dropped"}
  BY <1>2 DEF NonceStatus, IntentStatus
<1>3. CASE s # "confirmed_final" /\ s \notin {"failed", "dropped"}
  BY <1>3 DEF NonceStatus, IntentStatus
<1> QED
  BY <1>1, <1>2, <1>3

(***************************************************************************)
(* The initial states                                                      *)
(***************************************************************************)

\* The tables of a freshly submitted, or of an old, transaction claim nothing.
LEMMA InitIInv == Init => IInv
<1> SUFFICES ASSUME Init PROVE IInv
  OBVIOUS
<1>1. row.status \in {"submitted", "confirmed_soft"} /\ row \in Row
  BY RowOfFacts DEF Init, ChainStatuses
<1>2. NoRow \in Row /\ NoRow.status = "submitted"
  BY RowOfFacts DEF NoRow, ChainStatuses
<1>3. TypeOK
  <2>1. 0 \in Heights /\ 0 \in 0..MaxForks /\ 0 \in 0..MaxCuts
    BY SyncAssumption DEF Heights
  <2>2. transfer \in TransferStatuses
    BY <1>1 DEF Init, TransferStatuses, ChainStatuses
  <2> QED
    BY <1>1, <1>2, <2>1, <2>2 DEF Init, TypeOK, Pcs
<1>4. OnChain
  BY SyncAssumption DEF Init, OnChain
<1>5. DecisionIsFinal
  BY <1>2 DEF Init, DecisionIsFinal
<1>6. TablesAreFinal
  BY <1>1 DEF Init, TablesAreFinal
<1> QED
  BY <1>3, <1>4, <1>5, <1>6 DEF IInv

(***************************************************************************)
(* Steps of a pass                                                         *)
(***************************************************************************)

\* A pass's locals stay of their types, and its decision final if it was, when it
\* goes on, ends, or decides something that is not final or is final by right.
LEMMA FinishFacts ==
    ASSUME TypeOK, NEW p \in Passes, Finish(p)
    PROVE  /\ pc' \in [Passes -> Pcs] /\ seen' \in [Passes -> Row]
           /\ current' \in [Passes -> Heights] /\ target' \in [Passes -> Row]
           /\ \A q \in Passes : current'[q] \in {current[q], 0}
           /\ \A q \in Passes : \/ target'[q] = target[q]
                                \/ target'[q].status # "confirmed_final"
<1>1. NoRow \in Row /\ NoRow.status = "submitted"
  BY RowOfFacts DEF NoRow, ChainStatuses
<1>2. 0 \in Heights
  BY SyncAssumption DEF Heights
<1> QED
  BY <1>1, <1>2 DEF TypeOK, Finish, Goto, Pcs

\* The same for a step that goes on.
LEMMA ContinueFacts ==
    ASSUME TypeOK, NEW p \in Passes, NEW where \in Pcs, Continue(p, where)
    PROVE  /\ pc' \in [Passes -> Pcs] /\ seen' \in [Passes -> Row]
           /\ current' \in [Passes -> Heights] /\ target' \in [Passes -> Row]
           /\ current' = current /\ target' = target
  BY DEF TypeOK, Continue, Goto

\* The same for a step that decides.
LEMMA DecideFacts ==
    ASSUME TypeOK, NEW p \in Passes, NEW where \in Pcs, NEW s \in ChainStatuses,
           NEW b \in Blocks \cup {NoBlock}, Decide(p, s, b, where)
    PROVE  /\ pc' \in [Passes -> Pcs] /\ seen' \in [Passes -> Row]
           /\ current' \in [Passes -> Heights] /\ target' \in [Passes -> Row]
           /\ current' = current
           /\ \A q \in Passes : \/ target'[q] = target[q]
                                \/ target'[q] = RowOf(s, b)
<1>1. RowOf(s, b) \in Row
  BY RowOfFacts
<1> QED
  BY <1>1 DEF TypeOK, Decide, Goto

\* A step that reads leaves chain and tables alone.
LEMMA ReadKeeps ==
    ASSUME IInv, KeepsTables,
           pc' \in [Passes -> Pcs], seen' \in [Passes -> Row],
           current' \in [Passes -> Heights], target' \in [Passes -> Row],
           \A q \in Passes : current'[q] <= head,
           \A q \in Passes : \/ target'[q] = target[q]
                             \/ target'[q].status = "confirmed_final"
                                    => FinalAt(target'[q].block)
    PROVE  IInv'
<1>1. /\ UNCHANGED <<head, forks, branch, txAt, succeeds, mempool, outage>>
      /\ UNCHANGED <<row, transfer, nonce, intent, indexed, tokens, aged, cuts>>
  BY DEF KeepsTables, chainVars, tableVars
<1>2. TypeOK'
  BY <1>1 DEF IInv, TypeOK
<1>3. OnChain'
  BY <1>1 DEF IInv, OnChain
<1>4. FinalOnChain' = FinalOnChain /\ Block(txAt)' = Block(txAt)
  BY <1>1 DEF FinalOnChain, Block
<1>5. DecisionIsFinal'
  BY <1>1, <1>4 DEF IInv, DecisionIsFinal, FinalAt
<1>6. TablesAreFinal'
  BY <1>1, <1>4 DEF IInv, TablesAreFinal, FinalAt
<1> QED
  BY <1>2, <1>3, <1>5, <1>6 DEF IInv

\* A step that writes leaves the chain alone, and writes what is final by right.
LEMMA WriteKeeps ==
    ASSUME IInv, UNCHANGED <<chainVars, aged>>, cuts' \in 0..MaxCuts,
           pc' \in [Passes -> Pcs], seen' \in [Passes -> Row],
           current' \in [Passes -> Heights], target' \in [Passes -> Row],
           \A q \in Passes : current'[q] \in {current[q], 0},
           \A q \in Passes : \/ target'[q] = target[q]
                             \/ target'[q].status # "confirmed_final",
           row' \in Row, transfer' \in TransferStatuses,
           nonce' \in {"SUBMITTED", "CONFIRMED", "FAILED"},
           intent' \in {"submitted", "confirmed", "failed"},
           indexed' \in Blocks \cup {NoBlock}, tokens' \in BOOLEAN,
           row' = row \/ (row'.status = "confirmed_final" => FinalAt(row'.block)),
           nonce' = nonce \/ (nonce' = "CONFIRMED" => FinalOnChain /\ succeeds),
           intent' = intent \/ (intent' = "confirmed" => FinalOnChain /\ succeeds)
    PROVE  IInv'
<1>1. UNCHANGED <<head, forks, branch, txAt, succeeds, mempool, outage, aged>>
  BY DEF chainVars
<1>2. TypeOK'
  BY <1>1 DEF IInv, TypeOK
<1>3. OnChain'
  <2>1. head \in Nat
    BY SyncAssumption DEF IInv, TypeOK, Heights
  <2> QED
    BY <1>1, <2>1 DEF IInv, OnChain
<1>4. FinalOnChain' = FinalOnChain /\ Block(txAt)' = Block(txAt)
  BY <1>1 DEF FinalOnChain, Block
<1>5. DecisionIsFinal'
  BY <1>1, <1>4 DEF IInv, DecisionIsFinal, FinalAt
<1>6. TablesAreFinal'
  BY <1>1, <1>4 DEF IInv, TablesAreFinal, FinalAt
<1> QED
  BY <1>2, <1>3, <1>5, <1>6 DEF IInv

\* Selecting the row and reading head, receipt, block and mempool.
LEMMA ReadStep ==
    ASSUME IInv, NEW p \in Passes,
           \/ Select(p) \/ ReadHead(p) \/ ReadReceipt(p) \/ ReadCanonicalBlock(p)
           \/ Lookup(p)
    PROVE  IInv'
<1> USE DEF IInv
<1>a. head \in Heights /\ \A q \in Passes : current[q] <= head
  BY DEF TypeOK, OnChain
<1>b. 0 <= head
  BY SyncAssumption DEF TypeOK, Heights
<1>1. CASE Select(p)
  <2>1. /\ pc' \in [Passes -> Pcs] /\ seen' \in [Passes -> Row]
        /\ current' = current /\ target' = target
    BY <1>1 DEF TypeOK, Select, Goto, Pcs
  <2> QED
    BY <1>1, <1>a, <2>1, ReadKeeps DEF Select, TypeOK
<1>2. CASE ReadHead(p)
  <2>1. CASE Finish(p)
    BY <1>2, <1>a, <1>b, <2>1, FinishFacts, ReadKeeps DEF ReadHead
  <2>2. CASE ~Finish(p)
    <3>1. /\ current' = [current EXCEPT ![p] = head]
          /\ Goto(p, "receipt") /\ UNCHANGED <<seen, target>> /\ KeepsTables
      BY <1>2, <2>2 DEF ReadHead
    <3>2. /\ pc' \in [Passes -> Pcs] /\ current' \in [Passes -> Heights]
          /\ seen' \in [Passes -> Row] /\ target' \in [Passes -> Row]
      BY <3>1, <1>a DEF TypeOK, Goto, Pcs
    <3>3. \A q \in Passes : current'[q] <= head
      BY <3>1, <1>a, SyncAssumption DEF TypeOK, Heights
    <3> QED
      BY <3>1, <3>2, <3>3, ReadKeeps
  <2> QED
    BY <2>1, <2>2
<1>3. CASE ReadReceipt(p)
  <2>1. CASE txAt # NoBlock /\ Decide(p, StatusOfReceipt(p), Block(txAt), "index")
    <3>1. /\ StatusOfReceipt(p) \in ChainStatuses
          /\ StatusOfReceipt(p) = "confirmed_final" => FinalOnChain /\ succeeds
      BY <2>1, ReceiptFacts
    <3>2. Block(txAt) \in Blocks \cup {NoBlock} /\ "index" \in Pcs
      BY <2>1, BlockType DEF TypeOK, Pcs
    <3>3. LET r == RowOf(StatusOfReceipt(p), Block(txAt)) IN
          r.status = "confirmed_final" => FinalAt(r.block)
      BY <3>1, RowOfFacts DEF FinalAt
    <3> QED
      BY <1>3, <1>a, <2>1, <3>1, <3>2, <3>3, DecideFacts, ReadKeeps DEF ReadReceipt
  <2>2. CASE Continue(p, IF KnowsBlock(p) THEN "canonical" ELSE "lookup")
    <3>1. (IF KnowsBlock(p) THEN "canonical" ELSE "lookup") \in Pcs
      BY DEF Pcs
    <3> QED
      BY <1>3, <1>a, <2>2, <3>1, ContinueFacts, ReadKeeps DEF ReadReceipt
  <2> QED
    BY <1>3, <2>1, <2>2 DEF ReadReceipt
<1>4. CASE ReadCanonicalBlock(p)
  <2>1. CASE Finish(p)
    BY <1>4, <1>a, <1>b, <2>1, FinishFacts, ReadKeeps DEF ReadCanonicalBlock
  <2>2. CASE Decide(p, "reorged", NoBlock, "index")
    <3>1. "index" \in Pcs /\ "reorged" \in ChainStatuses
      BY DEF Pcs, ChainStatuses
    <3>2. RowOf("reorged", NoBlock).status # "confirmed_final"
      BY RowOfFacts
    <3> QED
      BY <1>4, <1>a, <2>2, <3>1, <3>2, DecideFacts, ReadKeeps DEF ReadCanonicalBlock
  <2> QED
    BY <1>4, <2>1, <2>2 DEF ReadCanonicalBlock
<1>5. CASE Lookup(p)
  <2>1. CASE Finish(p)
    BY <1>5, <1>a, <1>b, <2>1, FinishFacts, ReadKeeps DEF Lookup
  <2>2. CASE Decide(p, "submitted", seen[p].block, "row")
    <3>1. "row" \in Pcs /\ "submitted" \in ChainStatuses
      BY DEF Pcs, ChainStatuses
    <3>2. seen[p].block \in Blocks \cup {NoBlock}
      BY DEF TypeOK, Row
    <3>3. RowOf("submitted", seen[p].block).status # "confirmed_final"
      BY RowOfFacts
    <3> QED
      BY <1>5, <1>a, <2>2, <3>1, <3>2, <3>3, DecideFacts, ReadKeeps DEF Lookup
  <2>3. CASE Decide(p, "dropped", NoBlock, "index")
    <3>1. "index" \in Pcs /\ "dropped" \in ChainStatuses
      BY DEF Pcs, ChainStatuses
    <3>2. RowOf("dropped", NoBlock).status # "confirmed_final"
      BY RowOfFacts
    <3> QED
      BY <1>5, <1>a, <2>3, <3>1, <3>2, DecideFacts, ReadKeeps DEF Lookup
  <2> QED
    BY <1>5, <2>1, <2>2, <2>3 DEF Lookup
<1> QED
  BY <1>1, <1>2, <1>3, <1>4, <1>5

\* Writing the index, the row, the transfer, the nonce, the intent and the tokens,
\* and a pass that is cut off.
LEMMA WriteStep ==
    ASSUME IInv, NEW p \in Passes,
           \/ WriteIndex(p) \/ WriteRow(p) \/ WriteTransfer(p) \/ WriteNonce(p)
           \/ WriteIntent(p) \/ WriteTokens(p) \/ Cut(p)
    PROVE  IInv'
<1> USE DEF IInv
<1>a. {"row", "transfer", "nonce", "intent", "tokens", "lookup"} \subseteq Pcs
  BY DEF Pcs
<1>b. target[p] \in Row /\ target[p].status \in ChainStatuses
      /\ target[p].block \in Blocks \cup {NoBlock}
  BY DEF TypeOK, Row
<1>c. target[p].status = "confirmed_final" => FinalAt(target[p].block)
  BY DEF DecisionIsFinal
<1>d. /\ row \in Row /\ transfer \in TransferStatuses
      /\ nonce \in {"SUBMITTED", "CONFIRMED", "FAILED"}
      /\ intent \in {"submitted", "confirmed", "failed"}
      /\ indexed \in Blocks \cup {NoBlock} /\ tokens \in BOOLEAN /\ cuts \in 0..MaxCuts
  BY DEF TypeOK
<1>e. PassesOver => cuts' \in 0..MaxCuts
  BY <1>d, SyncAssumption DEF PassesOver
<1>1. CASE WriteIndex(p)
  <2>1. indexed' \in Blocks \cup {NoBlock} /\ tokens' \in BOOLEAN
    BY <1>1, <1>b, <1>d DEF WriteIndex
  <2> QED
    BY <1>1, <1>a, <1>d, <2>1, ContinueFacts, WriteKeeps DEF WriteIndex
<1>2. CASE WriteRow(p)
  <2> DEFINE b == IF target[p].status = "submitted" THEN row.block ELSE target[p].block
  <2>1. row' = RowOf(target[p].status, b)
    BY <1>2 DEF WriteRow
  <2>2. b \in Blocks \cup {NoBlock}
    BY <1>b, <1>d DEF Row
  <2>3. target[p].status = "confirmed_final" => b = target[p].block
    OBVIOUS
  <2> HIDE DEF b
  <2>4. row' \in Row /\ (row'.status = "confirmed_final" => FinalAt(row'.block))
    BY <1>b, <1>c, <2>1, <2>2, <2>3, RowOfFacts
  <2> QED
    BY <1>2, <1>a, <1>d, <2>4, ContinueFacts, WriteKeeps DEF WriteRow
<1>3. CASE WriteTransfer(p)
  <2>1. transfer' \in TransferStatuses /\ cuts' \in 0..MaxCuts
    BY <1>3, <1>b, <1>d, <1>e DEF WriteTransfer, TransferStatuses
  <2> QED
    BY <1>3, <1>a, <1>d, <2>1, ContinueFacts, WriteKeeps DEF WriteTransfer
<1>4. CASE WriteNonce(p)
  <2>1. /\ nonce' \in {"SUBMITTED", "CONFIRMED", "FAILED"}
        /\ nonce' = "CONFIRMED" => FinalOnChain /\ succeeds
    BY <1>4, <1>c, MarkFacts DEF WriteNonce, FinalAt
  <2> QED
    BY <1>4, <1>a, <1>d, <2>1, ContinueFacts, WriteKeeps DEF WriteNonce
<1>5. CASE WriteIntent(p)
  <2>1. /\ intent' \in {"submitted", "confirmed", "failed"}
        /\ intent' = intent \/ (intent' = "confirmed" => FinalOnChain /\ succeeds)
        /\ cuts' \in 0..MaxCuts
    BY <1>5, <1>c, <1>d, <1>e, MarkFacts DEF WriteIntent, FinalAt
  <2>2. Continue(p, "tokens") \/ Continue(p, "lookup") \/ Finish(p)
    BY <1>5 DEF WriteIntent
  <2>3. CASE Finish(p)
    BY <1>5, <1>d, <2>1, <2>3, FinishFacts, WriteKeeps DEF WriteIntent
  <2>4. CASE Continue(p, "tokens") \/ Continue(p, "lookup")
    BY <1>5, <1>a, <1>d, <2>1, <2>4, ContinueFacts, WriteKeeps DEF WriteIntent
  <2> QED
    BY <2>2, <2>3, <2>4
<1>6. CASE WriteTokens(p)
  BY <1>6, <1>d, FinishFacts, WriteKeeps DEF WriteTokens
<1>7. CASE Cut(p)
  <2>1. cuts' \in 0..MaxCuts
    BY <1>7, <1>d, SyncAssumption DEF Cut
  <2> QED
    BY <1>7, <1>d, <2>1, FinishFacts, WriteKeeps DEF Cut, tableVars
<1> QED
  BY <1>1, <1>2, <1>3, <1>4, <1>5, <1>6, <1>7

(***************************************************************************)
(* Steps of the chain                                                      *)
(***************************************************************************)

\* A chain step that keeps the height of a final transaction, its outcome and the
\* block there, and does not lower the head, takes nothing back.
LEMMA ChainKeeps ==
    ASSUME IInv, UNCHANGED <<tableVars, passVars, cuts>>, outage' \in BOOLEAN,
           head' \in Heights, head <= head', forks' \in 0..MaxForks,
           branch' \in [Heights -> 0..MaxForks], txAt' \in Heights \cup {NoBlock},
           succeeds' \in BOOLEAN, mempool' \in BOOLEAN, aged' \in BOOLEAN,
           txAt' # NoBlock => txAt' <= head',
           FinalOnChain => /\ txAt' = txAt /\ succeeds' = succeeds
                           /\ branch'[txAt] = branch[txAt]
    PROVE  IInv'
<1>1. /\ UNCHANGED <<row, transfer, nonce, intent, indexed, tokens>>
      /\ UNCHANGED <<pc, seen, current, target, cuts>>
  BY DEF tableVars, passVars
<1>2. TypeOK'
  BY <1>1 DEF IInv, TypeOK
<1>3. OnChain'
  <2>1. head \in Nat /\ head' \in Nat /\ \A p \in Passes : current[p] \in Nat
    BY SyncAssumption DEF IInv, TypeOK, Heights
  <2> QED
    BY <1>1, <2>1 DEF IInv, OnChain
<1>4. \A b : FinalAt(b) => FinalAt(b)'
  <2> SUFFICES ASSUME NEW b, FinalAt(b) PROVE FinalAt(b)'
    OBVIOUS
  <2>1. txAt \in Nat /\ head \in Nat /\ head' \in Nat /\ FinalConfirmations \in Nat
    BY SyncAssumption, FinalityAssumption
    DEF IInv, TypeOK, Heights, FinalAt, FinalOnChain
  <2>2. FinalOnChain'
    <3>1. txAt' = txAt /\ txAt # NoBlock
      BY DEF FinalAt, FinalOnChain
    <3>2. head - txAt + 1 >= FinalConfirmations
      BY DEF FinalAt, FinalOnChain
    <3>3. head' - txAt + 1 >= FinalConfirmations
      BY <2>1, <3>2, DepthGrows
    <3> QED
      BY <3>1, <3>3 DEF FinalOnChain
  <2>3. Block(txAt)' = Block(txAt)
    BY DEF FinalAt, Block
  <2> QED
    BY <2>2, <2>3 DEF FinalAt
<1>5. DecisionIsFinal'
  BY <1>1, <1>4 DEF IInv, DecisionIsFinal
<1>6. FinalOnChain /\ succeeds => FinalOnChain' /\ succeeds'
  BY <1>4 DEF FinalAt
<1>7. TablesAreFinal'
  BY <1>1, <1>4, <1>6 DEF IInv, TablesAreFinal
<1> QED
  BY <1>2, <1>3, <1>5, <1>7 DEF IInv

\* Mining, reorganisations, the mempool and the passing of time.
LEMMA ChainStep ==
    ASSUME IInv, Mine \/ (\E d \in 1..ReorgDepth : Reorg(d)) \/ Mempool \/ Outage \/ Age
    PROVE  IInv'
<1> USE DEF IInv
<1>a. /\ head \in Heights /\ forks \in 0..MaxForks
      /\ branch \in [Heights -> 0..MaxForks] /\ txAt \in Heights \cup {NoBlock}
      /\ succeeds \in BOOLEAN /\ mempool \in BOOLEAN /\ outage \in BOOLEAN
      /\ aged \in BOOLEAN
  BY DEF TypeOK
<1>b. /\ head \in Nat /\ forks \in Nat /\ (txAt # NoBlock => txAt \in Nat)
      /\ (txAt # NoBlock => txAt <= head)
  BY <1>a, SyncAssumption DEF Heights, OnChain
<1>c. /\ MaxHead \in Nat /\ MaxForks \in Nat /\ ReorgDepth \in Nat
      /\ FinalConfirmations \in Nat /\ ReorgDepth < FinalConfirmations
      /\ Executions \subseteq BOOLEAN
  BY SyncAssumption, FinalityAssumption
<1>1. CASE Mine
  <2>1. /\ head' = head + 1 /\ head + 1 \in Heights
        /\ branch' = [branch EXCEPT ![head + 1] = forks]
        /\ forks' = forks /\ outage' = outage
        /\ UNCHANGED <<tableVars, passVars, aged, cuts>>
    BY <1>1, <1>b, <1>c DEF Mine, Heights, KeepsWallet
  <2>2. \/ txAt = NoBlock /\ txAt' = head + 1 /\ succeeds' \in BOOLEAN /\ mempool' = FALSE
        \/ txAt' = txAt /\ succeeds' = succeeds /\ mempool' = mempool
    BY <1>1, <1>c DEF Mine, Include
  <2>3. branch' \in [Heights -> 0..MaxForks]
    BY <1>a, <2>1
  <2>4. txAt' \in Heights \cup {NoBlock} /\ succeeds' \in BOOLEAN /\ mempool' \in BOOLEAN
    BY <1>a, <2>1, <2>2
  <2>5. txAt' # NoBlock => txAt' <= head'
    BY <1>b, <2>1, <2>2
  <2>6. FinalOnChain => /\ txAt' = txAt /\ succeeds' = succeeds
                        /\ branch'[txAt] = branch[txAt]
    BY <1>a, <1>b, <2>1, <2>2 DEF FinalOnChain
  <2> QED
    BY <1>a, <1>b, <2>1, <2>3, <2>4, <2>5, <2>6, ChainKeeps
<1>2. ASSUME NEW d \in 1..ReorgDepth, Reorg(d)
      PROVE  IInv'
  <2>1. /\ d \in Nat /\ d >= 1 /\ d <= head /\ d < FinalConfirmations
        /\ head' = head /\ outage' = outage
        /\ UNCHANGED <<tableVars, passVars, aged, cuts>>
        /\ forks' = forks + 1 /\ forks + 1 \in 0..MaxForks
        /\ branch' = [h \in Heights |-> IF h > head - d /\ h <= head
                                        THEN forks + 1 ELSE branch[h]]
    BY <1>2, <1>b, <1>c DEF Reorg, KeepsWallet
  <2>2. branch' \in [Heights -> 0..MaxForks]
    BY <1>a, <2>1
  <2>3. CASE txAt # NoBlock /\ txAt > head - d
    <3>1. \/ \E h \in (head - d + 1)..head : Include(h)
          \/ txAt' = NoBlock /\ mempool' \in {TRUE, ~Evictions} /\ succeeds' = succeeds
      BY <1>2, <2>3 DEF Reorg
    <3>2. (head - d + 1)..head \subseteq Heights
      BY <1>a, <1>b, <1>c, <2>1 DEF Heights
    <3>3. /\ txAt' \in Heights \cup {NoBlock} /\ succeeds' \in BOOLEAN
          /\ mempool' \in BOOLEAN /\ (txAt' # NoBlock => txAt' <= head')
      <4>1. CASE \E h \in (head - d + 1)..head : Include(h)
        <5>1. PICK h \in (head - d + 1)..head : Include(h)
          BY <4>1
        <5>2. txAt' = h /\ h \in Heights /\ h <= head
          BY <1>b, <2>1, <3>2, <5>1 DEF Include
        <5>3. succeeds' \in BOOLEAN
          BY <1>c, <5>1 DEF Include
        <5>4. mempool' = FALSE
          BY <5>1 DEF Include
        <5> QED
          BY <2>1, <5>2, <5>3, <5>4
      <4>2. CASE txAt' = NoBlock /\ mempool' \in {TRUE, ~Evictions} /\ succeeds' = succeeds
        BY <1>a, <4>2
      <4> QED
        BY <3>1, <4>1, <4>2
    <3>4. ~FinalOnChain
      BY <1>b, <1>c, <2>1, <2>3 DEF FinalOnChain
    <3> QED
      BY <1>a, <1>b, <2>1, <2>2, <3>3, <3>4, ChainKeeps
  <2>4. CASE ~(txAt # NoBlock /\ txAt > head - d)
    <3>1. UNCHANGED <<txAt, succeeds, mempool>>
      BY <1>2, <2>4 DEF Reorg
    <3>2. FinalOnChain => branch'[txAt] = branch[txAt]
      BY <1>a, <1>b, <2>1, <2>4 DEF FinalOnChain
    <3> QED
      BY <1>a, <1>b, <2>1, <2>2, <3>1, <3>2, ChainKeeps
  <2> QED
    BY <2>3, <2>4
<1>3. CASE Mempool
  <2>1. /\ ~FinalOnChain /\ mempool' \in BOOLEAN
        /\ UNCHANGED <<head, forks, branch, txAt, succeeds, outage>>
        /\ UNCHANGED <<tableVars, passVars, aged, cuts>>
    BY <1>3, <1>a DEF Mempool, FinalOnChain, KeepsWallet
  <2> QED
    BY <1>a, <1>b, <2>1, ChainKeeps
<1>4. CASE Age
  <2>1. /\ aged' \in BOOLEAN
        /\ UNCHANGED <<head, forks, branch, txAt, succeeds, mempool, outage>>
        /\ UNCHANGED <<tableVars, passVars, cuts>>
    BY <1>4 DEF Age, chainVars
  <2> QED
    BY <1>a, <1>b, <2>1, ChainKeeps
<1>5. CASE Outage
  <2>1. /\ outage' \in BOOLEAN
        /\ UNCHANGED <<head, forks, branch, txAt, succeeds, mempool>>
        /\ UNCHANGED <<tableVars, passVars, aged, cuts>>
    BY <1>5, <1>a DEF Outage, KeepsWallet
  <2> QED
    BY <1>a, <1>b, <2>1, ChainKeeps
<1> QED
  BY <1>1, <1>2, <1>3, <1>4, <1>5

(***************************************************************************)
(* The theorems                                                            *)
(***************************************************************************)

\* Every reachable state satisfies the inductive invariant.
THEOREM InvariantHolds == Spec => []IInv
<1>1. Init => IInv
  BY InitIInv
<1>2. IInv /\ [Next]_vars => IInv'
  <2> SUFFICES ASSUME IInv, [Next]_vars PROVE IInv'
    OBVIOUS
  <2>1. ASSUME NEW p \in Passes, Step(p) PROVE IInv'
    BY <2>1, ReadStep, WriteStep DEF Step
  <2>2. ASSUME NEW p \in Passes, Cut(p) PROVE IInv'
    BY <2>2, WriteStep
  <2>3. CASE UNCHANGED vars
    <3>1. /\ UNCHANGED <<head, forks, branch, txAt, succeeds, mempool, outage>>
          /\ UNCHANGED <<row, transfer, nonce, intent, indexed, tokens, aged>>
          /\ UNCHANGED <<pc, seen, current, target, cuts>>
      BY <2>3 DEF vars, chainVars, tableVars, passVars
    <3> QED
      BY <3>1 DEF IInv, TypeOK, OnChain, DecisionIsFinal, TablesAreFinal, FinalAt,
                  FinalOnChain, Block
  <2> QED
    BY <2>1, <2>2, <2>3, ChainStep DEF Next
<1> QED
  BY <1>1, <1>2, PTL DEF Spec

\* The tables and the locals of the passes keep their types.
THEOREM TypeCorrect == Spec => []TypeOK
  BY InvariantHolds, PTL DEF IInv

\* confirmed_final, CONFIRMED and confirmed (sync.service.ts 516-554) are only ever
\* said of a transaction that is executed, in the block the row names, and too deep
\* for a reorganisation below the finality depth.
THEOREM FinalIsFinal == Spec => []ConfirmedIsFinal
<1>1. IInv => ConfirmedIsFinal
  BY DEF IInv, TablesAreFinal, ConfirmedIsFinal, Confirmed, FinalAt
<1> QED
  BY <1>1, InvariantHolds, PTL

(***************************************************************************)
(* The agreement of the tables                                             *)
(*                                                                         *)
(* Between two passes the tables say the same; within one they do not.     *)
(* The invariant says, for every point a pass can be at, which tables      *)
(* already say what the pass has decided, and which still say what the row *)
(* said when the pass selected it.                                         *)
(***************************************************************************)

Marked(status) ==
    /\ transfer = status
    /\ nonce = NonceStatus(status)
    /\ intent = IntentStatus(status)

\* All that is stored follows from the row.
RowSpeaks ==
    /\ Marked(row.status)
    /\ indexed = row.block
    /\ tokens <=> row.status = "confirmed_final"

\* Nothing is decided yet, and the row is still the one the pass selected.
Undecided(p) == row = seen[p] /\ target[p] = NoRow /\ RowSpeaks

\* What was final when it was selected is final by the head the pass read.
FinalStaysDeep(p) ==
    seen[p].status = "confirmed_final" =>
        current[p] - seen[p].block.height + 1 >= FinalConfirmations

\* The pass asks for the transaction because it knows no block of it, or after
\* it has written that the block is gone.
AsksForTransaction(p) ==
    \/ Undecided(p) /\ ~KnowsBlock(p)
    \/ RowSpeaks /\ row = RowOf("reorged", NoBlock) /\ target[p] = row

\* Writing the index will remove token transfers that no final row stands for.
ClearsTokens(p) ==
    tokens /\ target[p].block # NoBlock /\ ~Moved(p) => target[p].status = "confirmed_final"

IndexWritten(p) ==
    indexed = target[p].block /\ (tokens => target[p].status = "confirmed_final")

\* A transaction that left the chain is in no block.
GoneHasNoBlock(p) == target[p].status = "reorged" => target[p].block = NoBlock

Stage(p) ==
    /\ pc[p] = "idle" => target[p] = NoRow
    /\ pc[p] \in {"head", "receipt", "canonical"} => Undecided(p)
    /\ pc[p] = "receipt" => FinalStaysDeep(p)
    /\ pc[p] = "lookup" => AsksForTransaction(p)
    /\ pc[p] = "index" => target[p].status # "submitted" /\ ClearsTokens(p)
    /\ pc[p] \in {"index", "row", "transfer", "nonce", "intent"} => GoneHasNoBlock(p)
    /\ pc[p] \in {"row", "transfer", "nonce", "intent", "tokens"} => IndexWritten(p)
    /\ pc[p] = "row" => (target[p].status = "submitted" => row.block = target[p].block)
    /\ pc[p] \in {"transfer", "nonce", "intent", "tokens"} => row = target[p]
    /\ pc[p] \in {"nonce", "intent", "tokens"} => transfer = row.status
    /\ pc[p] \in {"intent", "tokens"} => nonce = NonceStatus(row.status)
    /\ pc[p] = "tokens" => intent = IntentStatus(row.status) /\ row.status = "confirmed_final"

Agreement ==
    cuts = 0 => /\ \A p \in Passes : Stage(p)
                /\ (\A p \in Passes : pc[p] = "idle") => RowSpeaks

\* A receipt is never read as submitted.
LEMMA ReceiptStatus ==
    ASSUME TypeOK, NEW p \in Passes, txAt # NoBlock
    PROVE  StatusOfReceipt(p) \in {"failed", "included", "confirmed_soft", "confirmed_final"}
<1>1. FinalConfirmations \in Nat
  BY FinalityAssumption
<1>2. ConfirmationCount(current[p], txAt) \in Nat
  BY SyncAssumption DEF TypeOK, Heights, ConfirmationCount, RawConfirmations
<1> QED
  BY <1>1, <1>2 DEF StatusOfReceipt, GetEvmTransactionFinality

\* The receipt of a transaction that is executed and deep enough is read as final.
LEMMA FinalReceipt ==
    ASSUME TypeOK, NEW p \in Passes, txAt # NoBlock, succeeds,
           current[p] - txAt + 1 >= FinalConfirmations
    PROVE  StatusOfReceipt(p) = "confirmed_final"
<1>1. FinalConfirmations \in Nat /\ FinalConfirmations > 1
  BY FinalityAssumption
<1>2. txAt \in Nat /\ current[p] \in Nat
  BY SyncAssumption DEF TypeOK, Heights
<1>3. ConfirmationCount(current[p], txAt) = current[p] - txAt + 1
  BY <1>1, <1>2 DEF ConfirmationCount, RawConfirmations
<1> QED
  BY <1>1, <1>2, <1>3 DEF StatusOfReceipt, GetEvmTransactionFinality

\* A final row names its block, and that block is deep by the head of the chain.
LEMMA FinalRow ==
    ASSUME IInv, row.status = "confirmed_final"
    PROVE  /\ row.block # NoBlock /\ txAt # NoBlock /\ succeeds /\ row.block = Block(txAt)
           /\ row.block.height = txAt
           /\ head - row.block.height + 1 >= FinalConfirmations
<1>1. FinalAt(row.block)
  BY DEF IInv, TablesAreFinal
<1>2. /\ txAt \in Heights /\ txAt # NoBlock /\ succeeds /\ row.block = Block(txAt)
      /\ head - txAt + 1 >= FinalConfirmations
  BY <1>1 DEF FinalAt, FinalOnChain, IInv, TypeOK
<1>3. Block(txAt) \in Blocks /\ Block(txAt).height = txAt
  BY <1>2, BlockType DEF IInv, Block
<1> QED
  BY <1>2, <1>3, SyncAssumption

\* The tables of a new transaction, or of an old one, agree.
LEMMA InitAgreement == Init => Agreement
<1> SUFFICES ASSUME Init PROVE Agreement
  OBVIOUS
<1>1. \A p \in Passes : pc[p] = "idle" /\ target[p] = NoRow
  BY DEF Init
<1>2. row.status \in {"submitted", "confirmed_soft"} /\ row.block = NoBlock
  BY RowOfFacts DEF Init
<1>3. NonceStatus(row.status) = "SUBMITTED" /\ IntentStatus(row.status) = "submitted"
  BY <1>2 DEF NonceStatus, IntentStatus
<1>4. RowSpeaks
  BY <1>2, <1>3 DEF Init, RowSpeaks, Marked
<1> QED
  BY <1>1, <1>4 DEF Agreement, Stage

\* The step of a pass is all that happens: the other passes are idle.
LEMMA OnlyPass ==
    ASSUME IInv, NoOverlap, NoOverlap', Agreement, NEW p \in Passes, Step(p),
           cuts = 0, Stage(p)', pc'[p] = "idle" => RowSpeaks'
    PROVE  Agreement'
<1>1. \A q \in Passes : q # p => /\ pc'[q] = pc[q] /\ target'[q] = target[q]
  BY DEF IInv, TypeOK, Step, Select, ReadHead, ReadReceipt, ReadCanonicalBlock, Lookup,
         WriteIndex, WriteRow, WriteTransfer, WriteNonce, WriteIntent, WriteTokens,
         Goto, Finish, Continue, Decide
<1>2. pc[p] # "idle" \/ pc'[p] # "idle"
  BY DEF IInv, TypeOK, Step, Select, ReadHead, ReadReceipt, ReadCanonicalBlock, Lookup,
         WriteIndex, WriteRow, WriteTransfer, WriteNonce, WriteIntent, WriteTokens, Goto
<1>3. \A q \in Passes : q # p => pc[q] = "idle" /\ pc'[q] = "idle"
  BY <1>1, <1>2 DEF NoOverlap
<1>4. \A q \in Passes : q # p => Stage(q)'
  BY <1>1, <1>3 DEF Agreement, Stage
<1> QED
  BY <1>3, <1>4 DEF Agreement

\* What a step that decides, goes on or ends does to the pass itself.
LEMMA LocalFacts ==
    ASSUME TypeOK, NEW p \in Passes
    PROVE  /\ Finish(p) => pc'[p] = "idle" /\ target'[p] = NoRow
           /\ \A where : Continue(p, where) => /\ pc'[p] = where /\ seen'[p] = seen[p]
                                               /\ current'[p] = current[p] /\ target'[p] = target[p]
           /\ \A s, b, where : Decide(p, s, b, where) =>
                /\ pc'[p] = where /\ seen'[p] = seen[p] /\ current'[p] = current[p]
                /\ target'[p].status = s /\ target'[p].block = b /\ target'[p] = RowOf(s, b)
<1>1. pc \in [Passes -> Pcs] /\ seen \in [Passes -> Row] /\ target \in [Passes -> Row]
  BY DEF TypeOK
<1>2. Finish(p) => pc'[p] = "idle" /\ target'[p] = NoRow
  BY <1>1 DEF Finish, Goto
<1>3. ASSUME NEW where, Continue(p, where)
      PROVE  /\ pc'[p] = where /\ seen'[p] = seen[p]
             /\ current'[p] = current[p] /\ target'[p] = target[p]
  BY <1>1, <1>3 DEF Continue, Goto
<1>4. ASSUME NEW s, NEW b, NEW where, Decide(p, s, b, where)
      PROVE  /\ pc'[p] = where /\ seen'[p] = seen[p] /\ current'[p] = current[p]
             /\ target'[p].status = s /\ target'[p].block = b /\ target'[p] = RowOf(s, b)
  <2>1. target'[p] = RowOf(s, b) /\ pc'[p] = where /\ seen' = seen /\ current' = current
    BY <1>1, <1>4 DEF Decide, Goto
  <2> QED
    BY <2>1, RowOfFacts
<1> QED
  BY <1>2, <1>3, <1>4

\* A step that reads leaves what RowSpeaks is about.
LEMMA TablesKept ==
    ASSUME KeepsTables
    PROVE  UNCHANGED <<row, tokens, indexed, cuts>> /\ RowSpeaks' = RowSpeaks
<1>1. UNCHANGED <<row, transfer, nonce, intent, indexed, tokens, cuts>>
  BY DEF KeepsTables, tableVars
<1> QED
  BY <1>1 DEF RowSpeaks, Marked

\* Reading, step by step: the row still speaks for the tables, and what is decided
\* about a final row is that it is final, or that its block is gone.
LEMMA ReadStage ==
    ASSUME IInv, Agreement, cuts = 0, NEW p \in Passes,
           \/ ReadHead(p) \/ ReadReceipt(p) \/ ReadCanonicalBlock(p) \/ Lookup(p)
    PROVE  Stage(p)' /\ (pc'[p] = "idle" => RowSpeaks')
<1>1. TypeOK /\ Stage(p)
  BY DEF IInv, Agreement
<1>2. KeepsTables
  BY DEF ReadHead, ReadReceipt, ReadCanonicalBlock, Lookup
<1>3. /\ row' = row /\ tokens' = tokens /\ indexed' = indexed /\ RowSpeaks' = RowSpeaks
      /\ NoRow' = NoRow
  BY <1>2, TablesKept DEF NoRow, RowOf
<1>4. CASE ReadHead(p)
  <2>1. pc[p] = "head" /\ Undecided(p)
    BY <1>1, <1>4 DEF ReadHead, Stage
  <2>2. CASE Finish(p)
    BY <1>1, <1>3, <2>1, <2>2, LocalFacts DEF Stage, Undecided
  <2>3. CASE ~Finish(p)
    <3>1. /\ pc'[p] = "receipt" /\ seen'[p] = seen[p] /\ target'[p] = target[p]
          /\ current'[p] = head
      BY <1>1, <1>4, <2>3 DEF ReadHead, Goto, TypeOK
    <3>2. Undecided(p)'
      BY <1>3, <2>1, <3>1 DEF Undecided
    <3>3. FinalStaysDeep(p)'
      BY <2>1, <3>1, FinalRow DEF Undecided, FinalStaysDeep
    <3> QED
      BY <3>1, <3>2, <3>3 DEF Stage
  <2> QED
    BY <2>2, <2>3
<1>5. CASE ReadReceipt(p)
  <2>1. pc[p] = "receipt" /\ Undecided(p) /\ FinalStaysDeep(p)
    BY <1>1, <1>5 DEF ReadReceipt, Stage
  <2>2. CASE txAt # NoBlock /\ Decide(p, StatusOfReceipt(p), Block(txAt), "index")
    <3>1. /\ pc'[p] = "index" /\ target'[p].status = StatusOfReceipt(p)
      BY <1>1, <2>2, LocalFacts
    <3>2. target'[p].status \notin {"submitted", "reorged"}
      BY <1>1, <2>2, <3>1, ReceiptStatus
    <3>3. row.status = "confirmed_final" => StatusOfReceipt(p) = "confirmed_final"
      BY <1>1, <2>1, FinalRow, FinalReceipt DEF Undecided, FinalStaysDeep
    <3>4. tokens' => target'[p].status = "confirmed_final"
      BY <1>3, <2>1, <3>1, <3>3 DEF Undecided, RowSpeaks
    <3> QED
      BY <3>1, <3>2, <3>4 DEF Stage, ClearsTokens, GoneHasNoBlock
  <2>3. CASE Continue(p, IF KnowsBlock(p) THEN "canonical" ELSE "lookup")
    <3>1. /\ pc'[p] = IF KnowsBlock(p) THEN "canonical" ELSE "lookup"
          /\ seen'[p] = seen[p] /\ target'[p] = target[p]
      BY <1>1, <2>3, LocalFacts
    <3>2. Undecided(p)' /\ (KnowsBlock(p)' <=> KnowsBlock(p))
      BY <1>3, <2>1, <3>1 DEF Undecided, KnowsBlock
    <3> QED
      BY <3>1, <3>2 DEF Stage, AsksForTransaction
  <2> QED
    BY <1>5, <2>2, <2>3 DEF ReadReceipt
<1>6. CASE ReadCanonicalBlock(p)
  <2>1. Undecided(p)
    BY <1>1, <1>6 DEF ReadCanonicalBlock, Stage
  <2>2. CASE Finish(p)
    BY <1>1, <1>3, <2>1, <2>2, LocalFacts DEF Stage, Undecided
  <2>3. CASE Decide(p, "reorged", NoBlock, "index")
    BY <1>1, <2>3, LocalFacts DEF Stage, ClearsTokens, GoneHasNoBlock
  <2> QED
    BY <1>6, <2>2, <2>3 DEF ReadCanonicalBlock
<1>7. CASE Lookup(p)
  <2>1. AsksForTransaction(p) /\ RowSpeaks
    BY <1>1, <1>7 DEF Lookup, Stage, AsksForTransaction, Undecided
  <2>2. CASE Finish(p)
    BY <1>1, <1>3, <2>1, <2>2, LocalFacts DEF Stage
  <2>3. CASE ~Waiting(p) /\ Decide(p, "submitted", seen[p].block, "row")
    <3>1. /\ pc'[p] = "row" /\ target'[p].block = seen[p].block
          /\ target'[p].status = "submitted"
      BY <1>1, <2>3, LocalFacts
    <3>2. Undecided(p) /\ ~KnowsBlock(p)
      BY <2>1, <2>3, RowOfFacts DEF AsksForTransaction, Waiting
    <3>3. row.status # "confirmed_final"
      BY <3>2, FinalRow DEF Undecided, KnowsBlock, HasCanonicalInclusionStatus
    <3>4. row.block = target'[p].block /\ indexed = row.block /\ ~tokens
      BY <3>1, <3>2, <3>3 DEF Undecided, RowSpeaks
    <3> QED
      BY <1>3, <3>1, <3>4 DEF Stage, IndexWritten, GoneHasNoBlock
  <2>4. CASE Decide(p, "dropped", NoBlock, "index")
    BY <1>1, <2>4, LocalFacts DEF Stage, ClearsTokens, GoneHasNoBlock
  <2> QED
    BY <1>7, <2>2, <2>3, <2>4 DEF Lookup
<1> QED
  BY <1>4, <1>5, <1>6, <1>7

\* Selecting the row: it speaks for the tables, for no pass is under way.
LEMMA SelectStage ==
    ASSUME IInv, Agreement, cuts = 0, NoOverlap, NoOverlap', NEW p \in Passes, Select(p)
    PROVE  Stage(p)' /\ (pc'[p] = "idle" => RowSpeaks')
<1>1. TypeOK /\ Stage(p)
  BY DEF IInv, Agreement
<1>2. /\ pc[p] = "idle" /\ pc' = [pc EXCEPT ![p] = "head"] /\ seen' = [seen EXCEPT ![p] = row]
      /\ target' = target /\ KeepsTables
  BY DEF Select, Goto
<1>3. pc'[p] = "head" /\ seen'[p] = row /\ \A q \in Passes : q # p => pc'[q] = pc[q]
  BY <1>1, <1>2 DEF TypeOK
<1>4. \A q \in Passes : pc[q] = "idle"
  BY <1>2, <1>3 DEF NoOverlap
<1>5. RowSpeaks
  BY <1>4 DEF Agreement
<1>6. /\ row' = row /\ tokens' = tokens /\ indexed' = indexed /\ RowSpeaks' = RowSpeaks
      /\ NoRow' = NoRow
  BY <1>2, TablesKept DEF NoRow, RowOf
<1>7. Undecided(p)'
  BY <1>1, <1>2, <1>3, <1>5, <1>6 DEF Undecided, Stage
<1> QED
  BY <1>3, <1>7 DEF Stage

\* Writing, table by table: what is written follows from the decision, and the last
\* write leaves a row that speaks for all of them.
LEMMA WriteStage ==
    ASSUME IInv, Agreement, cuts = 0, NEW p \in Passes,
           \/ WriteIndex(p) \/ WriteRow(p) \/ WriteTransfer(p) \/ WriteNonce(p)
           \/ WriteIntent(p) \/ WriteTokens(p),
           cuts' = cuts
    PROVE  Stage(p)' /\ (pc'[p] = "idle" => RowSpeaks')
<1>1. TypeOK /\ Stage(p)
  BY DEF IInv, Agreement
<1>2. target[p] \in Row /\ ~PassesOver
  BY <1>1 DEF TypeOK, PassesOver
<1>a. pc[p] \in {"index", "row", "transfer", "nonce"} /\ target'[p] = target[p] => GoneHasNoBlock(p)'
  BY <1>1 DEF Stage, GoneHasNoBlock
<1>3. CASE WriteIndex(p)
  <2>1. /\ target[p].status # "submitted" /\ ClearsTokens(p)
        /\ indexed' = target[p].block
        /\ tokens' = (tokens /\ target[p].block # NoBlock /\ ~Moved(p))
    BY <1>1, <1>3 DEF WriteIndex, Stage
  <2>2. pc'[p] = "row" /\ target'[p] = target[p]
    BY <1>1, <1>3, LocalFacts DEF WriteIndex
  <2>3. IndexWritten(p)'
    BY <2>1, <2>2 DEF IndexWritten, ClearsTokens
  <2> QED
    BY <1>3, <1>a, <2>1, <2>2, <2>3 DEF Stage, WriteIndex
<1>4. CASE WriteRow(p)
  <2>1. /\ IndexWritten(p) /\ (target[p].status = "submitted" => row.block = target[p].block)
        /\ UNCHANGED <<indexed, tokens>>
        /\ row' = RowOf(target[p].status, IF target[p].status = "submitted" THEN row.block
                                          ELSE target[p].block)
    BY <1>1, <1>4 DEF WriteRow, Stage
  <2>2. row' = target[p]
    BY <1>2, <2>1 DEF RowOf, Row
  <2>3. pc'[p] = "transfer" /\ target'[p] = target[p]
    BY <1>1, <1>4, LocalFacts DEF WriteRow
  <2>4. IndexWritten(p)'
    BY <2>1, <2>3 DEF IndexWritten
  <2> QED
    BY <1>4, <1>a, <2>2, <2>3, <2>4 DEF Stage, WriteRow
<1>5. CASE WriteTransfer(p)
  <2>1. /\ IndexWritten(p) /\ row = target[p] /\ UNCHANGED <<row, indexed, tokens>>
        /\ transfer' = row.status
    BY <1>1, <1>2, <1>5 DEF WriteTransfer, Stage
  <2>2. pc'[p] = "nonce" /\ target'[p] = target[p]
    BY <1>1, <1>5, LocalFacts DEF WriteTransfer
  <2>3. IndexWritten(p)'
    BY <2>1, <2>2 DEF IndexWritten
  <2> QED
    BY <1>5, <1>a, <2>1, <2>2, <2>3 DEF Stage, WriteTransfer
<1>6. CASE WriteNonce(p)
  <2>1. /\ IndexWritten(p) /\ row = target[p] /\ transfer = row.status
        /\ UNCHANGED <<row, transfer, indexed, tokens>> /\ nonce' = NonceStatus(row.status)
    BY <1>1, <1>6 DEF WriteNonce, Stage
  <2>2. pc'[p] = "intent" /\ target'[p] = target[p]
    BY <1>1, <1>6, LocalFacts DEF WriteNonce
  <2>3. IndexWritten(p)'
    BY <2>1, <2>2 DEF IndexWritten
  <2>4. nonce' = NonceStatus(row'.status)
    BY <2>1
  <2> QED
    BY <1>6, <1>a, <2>1, <2>2, <2>3, <2>4 DEF Stage, WriteNonce
<1>7. CASE WriteIntent(p)
  <2>1. /\ IndexWritten(p) /\ row = target[p] /\ transfer = row.status
        /\ nonce = NonceStatus(row.status)
        /\ UNCHANGED <<row, transfer, nonce, indexed, tokens>>
        /\ intent' = IntentStatus(row.status)
    BY <1>1, <1>2, <1>7 DEF WriteIntent, Stage
  <2>2. Marked(row.status)'
    BY <2>1 DEF Marked
  <2>3. CASE row.status = "confirmed_final"
    <3>1. Continue(p, "tokens")
      BY <1>7, <2>1, <2>3 DEF WriteIntent
    <3>2. pc'[p] = "tokens" /\ target'[p] = target[p]
      BY <1>1, <3>1, LocalFacts
    <3>3. IndexWritten(p)'
      BY <2>1, <3>2 DEF IndexWritten
    <3> QED
      BY <2>1, <2>2, <2>3, <3>2, <3>3 DEF Stage, Marked
  <2>4. CASE row.status # "confirmed_final"
    <3>1. RowSpeaks'
      BY <2>1, <2>2, <2>4 DEF RowSpeaks, IndexWritten
    <3>2. CASE row.status = "reorged"
      <4>1. Continue(p, "lookup")
        BY <1>7, <2>1, <3>2 DEF WriteIntent
      <4>2. pc'[p] = "lookup" /\ target'[p] = target[p]
        BY <1>1, <4>1, LocalFacts
      <4>3. row.block = NoBlock
        BY <1>1, <1>7, <2>1, <3>2 DEF WriteIntent, Stage, GoneHasNoBlock
      <4>4. row = RowOf("reorged", NoBlock)
        BY <1>2, <2>1, <3>2, <4>3 DEF Row, RowOf
      <4>5. AsksForTransaction(p)'
        BY <2>1, <3>1, <4>2, <4>4 DEF AsksForTransaction, RowOf
      <4> QED
        BY <4>2, <4>5 DEF Stage
    <3>3. CASE row.status # "reorged"
      <4>1. Finish(p)
        BY <1>7, <2>1, <2>4, <3>3 DEF WriteIntent
      <4>2. pc'[p] = "idle" /\ target'[p] = NoRow /\ NoRow' = NoRow
        BY <1>1, <4>1, LocalFacts DEF NoRow, RowOf
      <4> QED
        BY <3>1, <4>2 DEF Stage
    <3> QED
      BY <3>2, <3>3
  <2> QED
    BY <2>3, <2>4
<1>8. CASE WriteTokens(p)
  <2>1. /\ IndexWritten(p) /\ row = target[p] /\ Marked(row.status)
        /\ row.status = "confirmed_final"
        /\ UNCHANGED <<row, transfer, nonce, intent, indexed>> /\ tokens' = TRUE
    BY <1>1, <1>8 DEF WriteTokens, Stage, Marked
  <2>2. pc'[p] = "idle" /\ target'[p] = NoRow /\ NoRow' = NoRow
    BY <1>1, <1>8, LocalFacts DEF WriteTokens, NoRow, RowOf
  <2>3. RowSpeaks'
    BY <2>1 DEF RowSpeaks, Marked, IndexWritten
  <2> QED
    BY <2>2, <2>3 DEF Stage
<1> QED
  BY <1>3, <1>4, <1>5, <1>6, <1>7, <1>8

\* What is not a step of a pass, and cuts none off, changes neither tables nor passes.
LEMMA ChainStage ==
    ASSUME Agreement, UNCHANGED <<tableVars, passVars, cuts>>
    PROVE  Agreement'
<1>1. /\ UNCHANGED <<row, transfer, nonce, intent, indexed, tokens>>
      /\ UNCHANGED <<pc, seen, current, target, cuts>>
  BY DEF tableVars, passVars
<1>2. RowSpeaks' = RowSpeaks
  BY <1>1 DEF RowSpeaks, Marked
<1>3. \A p \in Passes : /\ Undecided(p)' = Undecided(p)
                        /\ AsksForTransaction(p)' = AsksForTransaction(p)
                        /\ ClearsTokens(p)' = ClearsTokens(p)
  BY <1>1, <1>2 DEF Undecided, AsksForTransaction, ClearsTokens, KnowsBlock, Moved, NoRow, RowOf
<1>4. \A p \in Passes : /\ FinalStaysDeep(p)' = FinalStaysDeep(p)
                        /\ GoneHasNoBlock(p)' = GoneHasNoBlock(p)
                        /\ IndexWritten(p)' = IndexWritten(p)
                        /\ NoRow' = NoRow
  BY <1>1 DEF FinalStaysDeep, GoneHasNoBlock, IndexWritten, NoRow, RowOf
<1>5. \A p \in Passes : Stage(p)' = Stage(p)
  BY <1>1, <1>3, <1>4 DEF Stage
<1> QED
  BY <1>1, <1>2, <1>5 DEF Agreement

\* Every step keeps the agreement, as long as passes do not overlap.
LEMMA AgreementKept ==
    ASSUME IInv, Agreement, NoOverlap, NoOverlap', [Next]_vars
    PROVE  Agreement'
<1>1. cuts \in Nat
  BY SyncAssumption DEF IInv, TypeOK
<1>2. ASSUME NEW p \in Passes, Step(p)
      PROVE  Agreement'
  <2>1. cuts' = cuts \/ cuts' = cuts + 1
    BY <1>2 DEF Step, Select, ReadHead, ReadReceipt, ReadCanonicalBlock, Lookup, KeepsTables,
                WriteIndex, WriteRow, WriteTransfer, WriteNonce, WriteIntent, WriteTokens,
                PassesOver
  <2>2. CASE cuts' = 0
    <3>1. cuts = 0 /\ cuts' = cuts
      BY <1>1, <2>1, <2>2
    <3>2. Stage(p)' /\ (pc'[p] = "idle" => RowSpeaks')
      BY <1>2, <3>1, SelectStage, ReadStage, WriteStage DEF Step
    <3> QED
      BY <1>2, <3>1, <3>2, OnlyPass
  <2>3. CASE cuts' # 0
    BY <2>3 DEF Agreement
  <2> QED
    BY <2>2, <2>3
<1>3. ASSUME NEW p \in Passes, Cut(p)
      PROVE  Agreement'
  BY <1>1, <1>3 DEF Cut, Agreement
<1>4. CASE Mine \/ (\E d \in 1..ReorgDepth : Reorg(d)) \/ Mempool \/ Outage
  BY <1>4, ChainStage DEF Mine, Reorg, Mempool, Outage, KeepsWallet
<1>5. CASE Age
  BY <1>5, ChainStage DEF Age
<1>6. CASE UNCHANGED vars
  BY <1>6, ChainStage DEF vars
<1> QED
  BY <1>2, <1>3, <1>4, <1>5, <1>6 DEF Next

\* Which statuses make a nonce or an intent confirmed or failed.
LEMMA MarkMeaning ==
    ASSUME NEW s
    PROVE  /\ NonceStatus(s) = "CONFIRMED" <=> s = "confirmed_final"
           /\ IntentStatus(s) = "confirmed" <=> s = "confirmed_final"
           /\ NonceStatus(s) = "FAILED" <=> s \in {"failed", "dropped"}
           /\ IntentStatus(s) = "failed" <=> s \in {"failed", "dropped"}
<1>1. CASE s = "confirmed_final"
  BY <1>1 DEF NonceStatus, IntentStatus
<1>2. CASE s \in {"failed", "dropped"}
  BY <1>2 DEF NonceStatus, IntentStatus
<1>3. CASE s # "confirmed_final" /\ s \notin {"failed", "dropped"}
  BY <1>3 DEF NonceStatus, IntentStatus
<1> QED
  BY <1>1, <1>2, <1>3

\* Between passes the row speaks for every table.
LEMMA AgreementShows == Agreement => TablesAgree
<1> SUFFICES ASSUME Agreement, Quiet PROVE TablesAgree
  BY DEF TablesAgree
<1>1. RowSpeaks
  BY DEF Agreement, Quiet
<1>2. \A s : /\ NonceStatus(s) = "CONFIRMED" <=> s = "confirmed_final"
             /\ IntentStatus(s) = "confirmed" <=> s = "confirmed_final"
             /\ NonceStatus(s) = "FAILED" <=> s \in {"failed", "dropped"}
             /\ IntentStatus(s) = "failed" <=> s \in {"failed", "dropped"}
  BY MarkMeaning
<1> QED
  BY <1>1, <1>2 DEF TablesAgree, RowSpeaks, Marked

\* However many passes there are, if no two overlap and none is cut off, the five
\* tables agree whenever none is under way: whatever the chain and the node did
\* between two reads or two writes of a pass (sync.service.ts 414-560).
THEOREM TablesAgreeWithoutOverlap == Spec /\ []NoOverlap => []TablesAgree
<1>1. Agreement /\ IInv /\ NoOverlap /\ NoOverlap' /\ [Next]_vars => Agreement'
  BY AgreementKept
<1> QED
  BY <1>1, InitAgreement, InvariantHolds, AgreementShows, PTL DEF Spec

---------------------------------------------------------------------------
\* The runs let one pass after the other run by keeping all but one of them idle.
RunInv == overlap \/ (NoOverlap /\ Agreement)

\* The behaviours of the runs are behaviours of the system.
THEOREM RunsAreBehaviours == SyncSpec => Spec
<1>1. SyncInit => Init
  BY DEF SyncInit
<1>2. [SyncNext]_<<vars, overlap>> => [Next]_vars
  BY DEF SyncNext
<1> QED
  BY <1>1, <1>2, PTL DEF SyncSpec, Spec

\* The same agreement in the behaviours of the run whose passes do not overlap.
THEOREM TablesAgreeOnePass == SyncSpec => []TablesAgreeAlone
<1>1. SyncInit => RunInv
  BY InitAgreement DEF SyncInit, RunInv, Init, NoOverlap
<1>2. IInv /\ RunInv /\ [SyncNext]_<<vars, overlap>> => RunInv'
  <2> SUFFICES ASSUME IInv, NoOverlap, Agreement, ~overlap, [SyncNext]_<<vars, overlap>>
               PROVE  RunInv'
    BY DEF RunInv, SyncNext
  <2>1. overlap' = overlap /\ [Next]_vars
    BY DEF SyncNext
  <2>2. NoOverlap'
    <3>1. CASE SyncNext
      BY <2>1, <3>1 DEF SyncNext, Running, NoOverlap
    <3>2. CASE UNCHANGED <<vars, overlap>>
      BY <3>2 DEF vars, passVars, NoOverlap
    <3> QED
      BY <3>1, <3>2
  <2> QED
    BY <2>1, <2>2, AgreementKept DEF RunInv
<1>3. RunInv => TablesAgreeAlone
  BY AgreementShows DEF RunInv, TablesAgreeAlone
<1> QED
  BY <1>1, <1>2, <1>3, RunsAreBehaviours, InvariantHolds, PTL DEF SyncSpec
=============================================================================

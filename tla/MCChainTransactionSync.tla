----------------------- MODULE MCChainTransactionSync -----------------------
(***************************************************************************)
(* Small instances of ChainTransactionSync for TLC.  A behaviour has       *)
(* either overlapping passes on a calm chain, or one pass at a time on a   *)
(* chain, and with an RPC endpoint, that do everything they may.           *)
(***************************************************************************)
EXTENDS ChainTransactionSync

CONSTANT Alone   \* the pass that runs when passes do not overlap

VARIABLE overlap

Running == IF overlap THEN Passes ELSE {Alone}

\* A calm chain is a block shorter, replaces one block, and forgets nothing.
Calm ==
    /\ head' < MaxHead
    /\ succeeds' /\ ~outage'
    /\ txAt' = NoBlock => mempool'
    /\ \A h \in Heights : h < head => branch'[h] = branch[h]

Allowed == overlap => Calm /\ cuts' = 0

SyncInit == Init /\ overlap \in BOOLEAN

SyncNext ==
    /\ Next
    /\ Allowed
    /\ \A p \in Passes \ Running : pc'[p] = "idle"
    /\ UNCHANGED overlap

SyncFairness ==
    /\ WF_vars(Mine /\ Allowed)
    /\ \A p \in Passes : WF_vars(p \in Running /\ Step(p))

SyncSpec == SyncInit /\ [][SyncNext]_<<vars, overlap>> /\ SyncFairness

\* What TablesAgree asks, of passes that do not overlap.
TablesAgreeAlone == ~overlap => TablesAgree
=============================================================================

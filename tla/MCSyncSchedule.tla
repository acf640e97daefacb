----------------------------- MODULE MCSyncSchedule -----------------------------
(* Small instances of SyncSchedule for TLC: two rows of two wallets.       *)
EXTENDS SyncSchedule

CONSTANTS r1, r2, w1, w2

TwoRows == {r1, r2}

Senders == [r \in TwoRows |-> IF r = r1 THEN {w1} ELSE {w2}]
=============================================================================

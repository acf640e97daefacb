------------------------------- MODULE PqcAnchor -------------------------------
(***************************************************************************)
(* Anchoring the PQC binding of a wallet in the registry on an EVM chain   *)
(* (src/app/api/wallet/[id]/pqc/anchor/route.ts and                        *)
(* src/contracts/src/PqcBindingRegistry.sol).  The route stores the hash   *)
(* under which the binding is published, reserves its idempotency key and  *)
(* a nonce for it, signs and sends the transaction itself, and records it. *)
(* Any call of a database or of the network may throw before or after it   *)
(* took effect, and the process may die between any two.                   *)
(*                                                                         *)
(* The requests are about one wallet that has a binding; refusals before   *)
(* its first write leave nothing and are left out.                         *)
(***************************************************************************)
CONSTANTS
    AnchorRequests,  \* calls of the route
    AnchorKeys,      \* idempotency keys
    AnchorKeyOf      \* the key of a call

ASSUME AnchorAssumption == AnchorKeyOf \in [AnchorRequests -> AnchorKeys]

VARIABLES
    published,   \* Wallet.pqcBindingHash is the hash of the binding
    heldKeys,    \* idempotency keys that are reserved and have not expired
    expiredKeys, \* history: keys that have expired
    anchorNonce, \* status of the nonce reservation of each key, or Unreserved
    anchorsSent, \* calls whose transaction the network has accepted
    committed,   \* calls whose transaction has run commitBinding
    records,     \* calls with a row in WalletPqcAnchor
    chainRecords,\* calls with a chain transaction
    anchorAt     \* where each call is

keysOfAnchors == <<heldKeys, expiredKeys>>

chainOfAnchors == <<anchorsSent, committed>>

recordsOfAnchors == <<records, chainRecords>>

anchorVars ==
    <<published, keysOfAnchors, anchorNonce, chainOfAnchors, recordsOfAnchors, anchorAt>>

Unreserved == "none"

AnchorInit ==
    /\ published = FALSE
    /\ heldKeys = {} /\ expiredKeys = {}
    /\ anchorNonce = [k \in AnchorKeys |-> Unreserved]
    /\ anchorsSent = {} /\ committed = {} /\ records = {} /\ chainRecords = {}
    /\ anchorAt = [r \in AnchorRequests |-> "publish"]

AnchorGoto(r, steps) == \E s \in steps : anchorAt' = [anchorAt EXCEPT ![r] = s]

\* Mutant: the hash of the binding is not stored.
PublishNothing(r) ==
    /\ anchorAt[r] = "publish"
    /\ AnchorGoto(r, {"key", "over"})
    /\ UNCHANGED <<published, keysOfAnchors, anchorNonce, chainOfAnchors, recordsOfAnchors>>

\* setWalletPqcBindingHash, unless the wallet has the hash.
Publish(r) ==
    /\ anchorAt[r] = "publish"
    /\ \/ published' = TRUE /\ AnchorGoto(r, {"key", "over"})
       \/ published' = published /\ AnchorGoto(r, {"over"})
    /\ UNCHANGED <<keysOfAnchors, anchorNonce, chainOfAnchors, recordsOfAnchors>>

\* reserveIdempotencyKey; the route never releases a key.
ReserveAnchorKey(r) ==
    LET k == AnchorKeyOf[r] IN
    /\ anchorAt[r] = "key"
    /\ \/ k \notin heldKeys /\ heldKeys' = heldKeys \cup {k} /\ AnchorGoto(r, {"provider", "over"})
       \/ heldKeys' = heldKeys /\ AnchorGoto(r, {"over"})
    /\ UNCHANGED <<published, expiredKeys, anchorNonce, chainOfAnchors, recordsOfAnchors>>

AnchorKeyExpires(k) ==
    /\ k \in heldKeys
    /\ heldKeys' = heldKeys \ {k}
    /\ expiredKeys' = expiredKeys \cup {k}
    /\ UNCHANGED <<published, anchorNonce, chainOfAnchors, recordsOfAnchors, anchorAt>>

GetAnchorProvider(r) ==
    /\ anchorAt[r] = "provider"
    /\ AnchorGoto(r, {"nonce", "over"})
    /\ UNCHANGED <<published, keysOfAnchors, anchorNonce, chainOfAnchors, recordsOfAnchors>>

\* reserveWalletNonce: the action is the key, and a reservation of it is returned
\* whatever became of it.  When the call throws, the route has no reservation to undo.
ReserveAnchorNonce(r) ==
    LET k == AnchorKeyOf[r] IN
    /\ anchorAt[r] = "nonce"
    /\ \/ /\ anchorNonce' = [anchorNonce EXCEPT ![k] = IF @ = Unreserved THEN "RESERVED" ELSE @]
          /\ AnchorGoto(r, {"sign", "over"})
       \/ anchorNonce' = anchorNonce /\ AnchorGoto(r, {"over"})
    /\ UNCHANGED <<published, keysOfAnchors, chainOfAnchors, recordsOfAnchors>>

\* Building and signing; then broadcastAttempted is set.
Sign(r) ==
    /\ anchorAt[r] = "sign"
    /\ AnchorGoto(r, {"send", "undo"})
    /\ UNCHANGED <<published, keysOfAnchors, anchorNonce, chainOfAnchors, recordsOfAnchors>>

\* submitSignedEvmTx.  The network takes no transaction whose nonce has been used.
SendAnchor(r) ==
    /\ anchorAt[r] = "send"
    /\ \/ /\ \A q \in committed : AnchorKeyOf[q] # AnchorKeyOf[r]
          /\ anchorsSent' = anchorsSent \cup {r}
          /\ AnchorGoto(r, {"mark", "undoSent"})
       \/ anchorsSent' = anchorsSent /\ AnchorGoto(r, {"undoSent"})
    /\ UNCHANGED <<published, keysOfAnchors, anchorNonce, committed, recordsOfAnchors>>

\* markNonceReservationSubmitted
MarkAnchorNonce(r) ==
    /\ anchorAt[r] = "mark"
    /\ \/ /\ anchorNonce' = [anchorNonce EXCEPT ![AnchorKeyOf[r]] = "SUBMITTED"]
          /\ AnchorGoto(r, {"record", "undoSent"})
       \/ anchorNonce' = anchorNonce /\ AnchorGoto(r, {"undoSent"})
    /\ UNCHANGED <<published, keysOfAnchors, chainOfAnchors, recordsOfAnchors>>

\* createWalletPqcAnchorRecord; an error is logged.
RecordAnchor(r) ==
    /\ anchorAt[r] = "record"
    /\ records' \in {records, records \cup {r}}
    /\ AnchorGoto(r, {"chain"})
    /\ UNCHANGED <<published, keysOfAnchors, anchorNonce, chainOfAnchors, chainRecords>>

\* recordChainTransaction; an error is logged.
RecordAnchorChain(r) ==
    /\ anchorAt[r] = "chain"
    /\ chainRecords' \in {chainRecords, chainRecords \cup {r}}
    /\ AnchorGoto(r, {"over"})
    /\ UNCHANGED <<published, keysOfAnchors, anchorNonce, chainOfAnchors, records>>

\* Mutant: broadcastAttempted is not looked at.
StatusAfterErrorReleased(r) == "RELEASED"

\* What the catch block makes of the reservation.
StatusAfterError(r) == IF anchorAt[r] = "undoSent" THEN "FAILED" ELSE "RELEASED"

\* The catch block; an error of its own is swallowed.
UndoAnchor(r) ==
    /\ anchorAt[r] \in {"undo", "undoSent"}
    /\ anchorNonce' \in {anchorNonce, [anchorNonce EXCEPT ![AnchorKeyOf[r]] = StatusAfterError(r)]}
    /\ AnchorGoto(r, {"over"})
    /\ UNCHANGED <<published, keysOfAnchors, chainOfAnchors, recordsOfAnchors>>

AnchorDies(r) ==
    /\ anchorAt[r] # "over"
    /\ AnchorGoto(r, {"over"})
    /\ UNCHANGED <<published, keysOfAnchors, anchorNonce, chainOfAnchors, recordsOfAnchors>>

\* commitBinding: of the transactions with one nonce one runs.
CommitBinding(r) ==
    /\ r \in anchorsSent
    /\ \A q \in committed : AnchorKeyOf[q] # AnchorKeyOf[r]
    /\ committed' = committed \cup {r}
    /\ UNCHANGED <<published, keysOfAnchors, anchorNonce, anchorsSent, recordsOfAnchors, anchorAt>>

AnchorNext ==
    \/ \E r \in AnchorRequests :
           \/ Publish(r) \/ ReserveAnchorKey(r) \/ GetAnchorProvider(r) \/ ReserveAnchorNonce(r)
           \/ Sign(r) \/ SendAnchor(r) \/ MarkAnchorNonce(r) \/ RecordAnchor(r)
           \/ RecordAnchorChain(r) \/ UndoAnchor(r) \/ AnchorDies(r) \/ CommitBinding(r)
    \/ \E k \in AnchorKeys : AnchorKeyExpires(k)

AnchorSpec == AnchorInit /\ [][AnchorNext]_anchorVars

---------------------------------------------------------------------------
\* What the registry names can be looked up: the URI of a commitment is answered by
\* getPublicPqcBinding, which finds the wallet by the stored hash, also when the
\* call that committed it failed or its process died.
CommittedIsResolvable == committed # {} => published

\* A reservation is released only when its nonce was not sent, so that it says which
\* holes the chain waits at -- as long as the key protects the call: after it has
\* expired a repeated call gets the same reservation, and an error before its own
\* broadcast releases a nonce that the first call has sent.
ReleasedAnchorNonceNeverSent ==
    \A k \in AnchorKeys \ expiredKeys :
        anchorNonce[k] = "RELEASED" => \A r \in anchorsSent : AnchorKeyOf[r] # k

=============================================================================

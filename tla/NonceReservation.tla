-------------------------- MODULE NonceReservation --------------------------
(***************************************************************************)
(* The nonce reservation service of the wallet                             *)
(* (src/services/nonce-reservation.service.ts) for one wallet on one EVM   *)
(* chain: every statement of the service is keyed by (walletId, chainId),  *)
(* so two such pairs never share a row.                                    *)
(*                                                                         *)
(* A call of reserveWalletNonce is two steps, because the pending nonce is *)
(* read from the chain before the database transaction starts and may be   *)
(* stale when the transaction uses it.  The transaction itself is one step *)
(* (its SELECT ... FOR UPDATE serialises the calls), which may commit even *)
(* though the call throws.  The reservation a call creates is identified   *)
(* by that call, which stands for its row id.                              *)
(***************************************************************************)
EXTENDS Integers

CONSTANTS
    Calls,       \* calls of reserveWalletNonce
    ActionIds,   \* values of the actionId argument
    TxHashes,    \* transaction hashes the callers report
    None,        \* null / undefined
    MaxNonce     \* bound on the nonces the chain reports and a caller requests

ASSUME MaxNonceAssumption == MaxNonce \in Nat

VARIABLES
    backend,        \* "pg" or "memory": canUsePg(), fixed for a deployment
    nextNonce,      \* WalletNonceState.nextNonce; None: there is no row
    reservations,   \* [Calls -> row or None]: the NonceReservation rows
    chainPending,   \* getTransactionCount(address, 'pending') of the chain
    highestPending, \* history: the highest pending nonce ever read
    skipped,        \* history: nonces a requestedNonce jumped over
    callPc,         \* "idle", "read" (pending nonce read), "done"
    args,           \* [actionId, requestedNonce] of a started call
    pendingRead,    \* the chain's answer a call carries into its transaction
    outcome         \* the reservation (its creating call) or the error thrown

nonceVars == <<backend, nextNonce, reservations, chainPending,
               highestPending, skipped, callPc, args, pendingRead, outcome>>

Statuses == {"RESERVED", "SUBMITTED", "CONFIRMED", "FAILED", "RELEASED"}

\* What a call may throw; "DATABASE_ERROR" is any error of the database.
Errors == {"INVALID_CHAIN_NONCE", "NONCE_TOO_LOW", "NONCE_ALREADY_RESERVED",
           "DATABASE_ERROR"}

Reservation ==
    [nonce: Nat, actionId: ActionIds, status: Statuses,
     txHash: TxHashes \cup {None}]

Args == [actionId: ActionIds, requestedNonce: Nat \cup {None}]

\* null is no value, and a row id is not an error code.
ASSUME NoneAssumption ==
    /\ None \notin Calls \cup ActionIds \cup TxHashes \cup Nat \cup Errors
    /\ None \notin Reservation \cup Args
    /\ Calls \cap Errors = {}

TypeOK ==
    /\ backend \in {"pg", "memory"}
    /\ nextNonce \in Nat \cup {None}
    /\ reservations \in [Calls -> Reservation \cup {None}]
    /\ chainPending \in Nat
    /\ highestPending \in Nat
    /\ skipped \subseteq Nat
    /\ callPc \in [Calls -> {"idle", "read", "done"}]
    /\ args \in [Calls -> Args \cup {None}]
    /\ pendingRead \in [Calls -> Nat \cup {None}]
    /\ outcome \in [Calls -> Calls \cup Errors \cup {None}]
    /\ \A c \in Calls : callPc[c] = "read" =>
          args[c] \in Args /\ pendingRead[c] \in Nat

Init ==
    /\ backend \in {"pg", "memory"}
    /\ nextNonce = None
    /\ reservations = [c \in Calls |-> None]
    /\ chainPending \in 0..MaxNonce
    /\ highestPending = 0
    /\ skipped = {}
    /\ callPc = [c \in Calls |-> "idle"]
    /\ args = [c \in Calls |-> None]
    /\ pendingRead = [c \in Calls |-> None]
    /\ outcome = [c \in Calls |-> None]

(***************************************************************************)
(* Reserving                                                               *)
(***************************************************************************)
Rows == {c \in Calls : reservations[c] # None}

RowsOfAction(a) == {c \in Rows : reservations[c].actionId = a}

RowsOfNonce(n) == {c \in Rows : reservations[c].nonce = n}

Larger(m, n) == IF m >= n THEN m ELSE n

\* Mutant: the stored counter is ignored once the chain has answered.
EffectiveNextNonceFromChain(pending) == pending

\* The first nonce a call may take: the stored counter, or what the chain
\* reports when it is ahead or when there is no counter yet.
EffectiveNextNonce(pending) ==
    IF nextNonce = None THEN pending ELSE Larger(nextNonce, pending)

TooLow(c) ==
    /\ args[c].requestedNonce # None
    /\ args[c].requestedNonce < EffectiveNextNonce(pendingRead[c])

NonceFor(c) ==
    IF args[c].requestedNonce = None
    THEN EffectiveNextNonce(pendingRead[c])
    ELSE args[c].requestedNonce

Return(c, result) ==
    /\ callPc' = [callPc EXCEPT ![c] = "done"]
    /\ outcome' = [outcome EXCEPT ![c] = result]
    /\ UNCHANGED <<backend, chainPending, highestPending, args, pendingRead>>

\* Mutant: what the RPC node returns is taken as it is.
AssertNonceNothing(value) == TRUE

AssertNonce(value) == value # None

\* The pending nonce is read from the chain, outside the transaction.  The node
\* answers with the chain's count, or with something that is not a nonce (None).
ReadChainPendingNonce(c, a, requested, answer) ==
    /\ callPc[c] = "idle"
    /\ AssertNonce(answer)
    /\ callPc' = [callPc EXCEPT ![c] = "read"]
    /\ args' = [args EXCEPT ![c] = [actionId |-> a, requestedNonce |-> requested]]
    /\ pendingRead' = [pendingRead EXCEPT ![c] = answer]
    /\ highestPending' = Larger(highestPending, chainPending)
    /\ UNCHANGED <<backend, nextNonce, reservations, chainPending, skipped,
                   outcome>>

\* An RPC error, or INVALID_CHAIN_NONCE: the call throws before it wrote anything.
ReadChainPendingNonceFails(c) ==
    /\ callPc[c] = "idle"
    /\ Return(c, "INVALID_CHAIN_NONCE")
    /\ UNCHANGED <<nextNonce, reservations, skipped>>

\* A thrown error, or P2002: the transaction rolls back, the INSERT of the
\* counter row included.
RollBack == UNCHANGED <<nextNonce, reservations, skipped>>

\* Mutant: one nonce too many is used.
CounterAfterTwo(nonce) == nonce + 2

CounterAfter(nonce) == nonce + 1

\* The counter moves past the nonce and the row is created, in one commit.
StoreReservation(c) ==
    LET nonce == NonceFor(c) IN
    /\ nextNonce' = CounterAfter(nonce)
    /\ reservations' = [reservations EXCEPT ![c] =
           [nonce |-> nonce, actionId |-> args[c].actionId,
            status |-> "RESERVED", txHash |-> None]]
    /\ skipped' = skipped \cup (EffectiveNextNonce(pendingRead[c])..(nonce - 1))

\* Mutant: the unique index on (walletId, chainId, actionId) is missing.
IsActionTakenIgnored(a) == FALSE

IsActionTaken(a) == RowsOfAction(a) # {}

\* The body of the PostgreSQL transaction, with its two unique indexes; a
\* violation of either is looked up again by actionId.  A reservation may be
\* committed and its answer lost: nobody then knows the row, until the action is
\* asked for again.
ReserveInPg(c) ==
    /\ backend = "pg"
    /\ callPc[c] = "read"
    /\ \/ /\ TooLow(c)
          /\ RollBack
          /\ Return(c, "NONCE_TOO_LOW")
       \/ /\ ~TooLow(c)
          /\ IsActionTaken(args[c].actionId)
          /\ RollBack
          /\ \E existing \in RowsOfAction(args[c].actionId) : Return(c, existing)
       \/ /\ ~TooLow(c)
          /\ ~IsActionTaken(args[c].actionId)
          /\ RowsOfNonce(NonceFor(c)) # {}
          /\ RollBack
          /\ Return(c, "NONCE_ALREADY_RESERVED")
       \/ /\ ~TooLow(c)
          /\ ~IsActionTaken(args[c].actionId)
          /\ RowsOfNonce(NonceFor(c)) = {}
          /\ StoreReservation(c)
          /\ Return(c, c) \/ Return(c, "DATABASE_ERROR")
       \/ /\ RollBack
          /\ Return(c, "DATABASE_ERROR")

\* Without PostgreSQL the maps of one process are used: after the await on the
\* chain the code runs to its end, and looks for the action first.
ReserveInMemory(c) ==
    /\ backend = "memory"
    /\ callPc[c] = "read"
    /\ \/ /\ IsActionTaken(args[c].actionId)
          /\ RollBack
          /\ \E existing \in RowsOfAction(args[c].actionId) : Return(c, existing)
       \/ /\ ~IsActionTaken(args[c].actionId)
          /\ TooLow(c)
          /\ RollBack
          /\ Return(c, "NONCE_TOO_LOW")
       \/ /\ ~IsActionTaken(args[c].actionId)
          /\ ~TooLow(c)
          /\ RowsOfNonce(NonceFor(c)) # {}
          /\ RollBack
          /\ Return(c, "NONCE_ALREADY_RESERVED")
       \/ /\ ~IsActionTaken(args[c].actionId)
          /\ ~TooLow(c)
          /\ RowsOfNonce(NonceFor(c)) = {}
          /\ StoreReservation(c)
          /\ Return(c, c)

(***************************************************************************)
(* Status updates: unconditional overwrites, by row id or by hash          *)
(***************************************************************************)
Holders(id) == {c \in Calls : outcome[c] = id}

\* A row with a new status, and with a new hash when there is one.
Updated(row, status, hash) ==
    [nonce |-> row.nonce, actionId |-> row.actionId, status |-> status,
     txHash |-> IF hash = None THEN row.txHash ELSE hash]

UpdateById(id, status, hash) ==
    /\ reservations[id] # None
    /\ reservations' =
           [reservations EXCEPT ![id] = Updated(reservations[id], status, hash)]
    /\ UNCHANGED <<backend, nextNonce, chainPending, highestPending, skipped,
                   callPc, args, pendingRead, outcome>>

ReleaseNonceReservation(id) == UpdateById(id, "RELEASED", None)

MarkNonceReservationSubmitted(id, hash) == UpdateById(id, "SUBMITTED", hash)

MarkNonceReservationFailed(id) == UpdateById(id, "FAILED", None)

UpdateByTxHash(hash, status) ==
    /\ \E id \in Rows : reservations[id].txHash = hash
    /\ reservations' = [id \in Calls |->
           IF id \in Rows /\ reservations[id].txHash = hash
           THEN Updated(reservations[id], status, None)
           ELSE reservations[id]]
    /\ UNCHANGED <<backend, nextNonce, chainPending, highestPending, skipped,
                   callPc, args, pendingRead, outcome>>

(***************************************************************************)
(* The environment: other signers, mempool evictions and reorgs move the   *)
(* pending nonce in either direction.                                      *)
(***************************************************************************)
ChainMoves ==
    /\ chainPending' \in 0..MaxNonce
    /\ chainPending' # chainPending
    /\ UNCHANGED <<backend, nextNonce, reservations, highestPending, skipped,
                   callPc, args, pendingRead, outcome>>

Next ==
    \/ \E c \in Calls, a \in ActionIds, n \in (0..MaxNonce) \cup {None} :
          \E answer \in {chainPending, None} :
              ReadChainPendingNonce(c, a, n, answer)
    \/ \E c \in Calls : ReadChainPendingNonceFails(c)
    \/ \E c \in Calls : ReserveInPg(c)
    \/ \E c \in Calls : ReserveInMemory(c)
    \/ \E id \in Calls : Holders(id) # {} /\ ReleaseNonceReservation(id)
    \/ \E id \in Calls, h \in TxHashes :
          Holders(id) # {} /\ MarkNonceReservationSubmitted(id, h)
    \/ \E id \in Calls : Holders(id) # {} /\ MarkNonceReservationFailed(id)
    \/ \E h \in TxHashes, s \in {"SUBMITTED", "CONFIRMED", "FAILED"} :
          UpdateByTxHash(h, s)
    \/ ChainMoves

Spec == Init /\ [][Next]_nonceVars

(***************************************************************************)
(* Properties                                                              *)
(***************************************************************************)

\* The stored counter is past every nonce that was ever handed out, whatever
\* stale or shrinking pending nonce the calls brought along.
NextNonceAboveReserved ==
    \A c \in Rows : nextNonce # None /\ reservations[c].nonce < nextNonce

\* Locking the counter row is enough: no call ever runs into the unique index
\* on the nonce, so NONCE_ALREADY_RESERVED is never thrown.
NonceConflictUnreachable ==
    \A c \in Calls : outcome[c] # "NONCE_ALREADY_RESERVED"

\* Calls that carry the same actionId and succeed return one reservation, also
\* when they race ("returns the same reservation when the action is replayed").
ReplayReturnsSameReservation ==
    \A c, d \in Calls :
        /\ outcome[c] \in Calls
        /\ outcome[d] \in Calls
        => (outcome[c] = outcome[d]) <=> (args[c].actionId = args[d].actionId)

\* No nonce is lost inside the service: one below the counter is reserved, was
\* reported as used by the chain, or was jumped over by an explicit request.
NoUnexplainedGap ==
    nextNonce # None =>
        \A n \in 0..(nextNonce - 1) :
            \/ RowsOfNonce(n) # {}
            \/ n < highestPending
            \/ n \in skipped

\* A reservation is never deleted and never moves to another nonce or action,
\* and the counter never goes back: a released nonce is not handed out again.
KeepsReservations ==
    /\ nextNonce # None => nextNonce' # None /\ nextNonce' >= nextNonce
    /\ \A c \in Rows : /\ reservations'[c] # None
                       /\ reservations'[c].nonce = reservations[c].nonce
                       /\ reservations'[c].actionId = reservations[c].actionId

ReservationsArePermanent == [][KeepsReservations]_nonceVars

(***************************************************************************)
(* The inductive invariant behind these properties.  A call that has read  *)
(* the pending nonce carries a value the history variable covers; a row    *)
(* remembers the arguments of the call that created it, which knows it     *)
(* unless its answer was lost; an outcome that is a reservation names a    *)
(* row of the same action.                                                 *)
(***************************************************************************)
PendingReadsCovered ==
    \A c \in Calls : callPc[c] = "read" => pendingRead[c] <= highestPending

RowsBelongToTheirCall ==
    \A c \in Rows : /\ callPc[c] = "done"
                    /\ outcome[c] \in {c, "DATABASE_ERROR"}
                    /\ args[c] \in Args
                    /\ reservations[c].actionId = args[c].actionId

OneRowPerAction ==
    \A c, d \in Rows :
        reservations[c].actionId = reservations[d].actionId => c = d

OutcomesNameRows ==
    \A c \in Calls : outcome[c] \in Calls =>
        /\ outcome[c] \in Rows
        /\ args[c] \in Args
        /\ callPc[c] = "done"
        /\ reservations[outcome[c]].actionId = args[c].actionId

IInv ==
    /\ TypeOK
    /\ NextNonceAboveReserved
    /\ NonceConflictUnreachable
    /\ NoUnexplainedGap
    /\ PendingReadsCovered
    /\ RowsBelongToTheirCall
    /\ OneRowPerAction
    /\ OutcomesNameRows
=============================================================================

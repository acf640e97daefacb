----------------------- MODULE NonceReservationProofs -----------------------
(***************************************************************************)
(* Proofs about NonceReservation, for any number of calls, actions and     *)
(* hashes, and any bound on the nonces.                                    *)
(***************************************************************************)
EXTENDS NonceReservation, TLAPS

\* What the transaction computes: the first free nonce is a natural number not
\* below the counter nor the pending nonce, and the nonce taken is not below it.
LEMMA NonceForFacts ==
    ASSUME TypeOK, NEW c \in Calls, callPc[c] = "read"
    PROVE  /\ EffectiveNextNonce(pendingRead[c]) \in Nat
           /\ EffectiveNextNonce(pendingRead[c]) >= pendingRead[c]
           /\ nextNonce # None => EffectiveNextNonce(pendingRead[c]) >= nextNonce
           /\ NonceFor(c) \in Nat
           /\ ~TooLow(c) => NonceFor(c) >= EffectiveNextNonce(pendingRead[c])
           /\ \/ EffectiveNextNonce(pendingRead[c]) = pendingRead[c]
              \/ /\ nextNonce # None
                 /\ EffectiveNextNonce(pendingRead[c]) = nextNonce
<1>1. pendingRead[c] \in Nat /\ args[c] \in Args /\ nextNonce \in Nat \cup {None}
    BY DEF TypeOK
<1>2. args[c].requestedNonce \in Nat \cup {None}
    BY <1>1 DEF Args
<1> QED BY <1>1, <1>2 DEF EffectiveNextNonce, Larger, NonceFor, TooLow

\* A step that creates a reservation preserves the invariant.
LEMMA StorePreserves ==
    ASSUME IInv, NEW c \in Calls, callPc[c] = "read",
           ~TooLow(c), ~IsActionTaken(args[c].actionId),
           NEW result \in {c, "DATABASE_ERROR"},
           StoreReservation(c), Return(c, result)
    PROVE  IInv'
<1> DEFINE n == NonceFor(c)
           e == EffectiveNextNonce(pendingRead[c])
           row == [nonce |-> n, actionId |-> args[c].actionId,
                   status |-> "RESERVED", txHash |-> None]
<1> USE NoneAssumption
<1>1. TypeOK /\ c \notin Rows
    BY DEF IInv, Rows, RowsBelongToTheirCall
<1>2. /\ n \in Nat /\ e \in Nat /\ n >= e /\ e >= pendingRead[c]
      /\ nextNonce # None => e >= nextNonce
      /\ e = pendingRead[c] \/ (nextNonce # None /\ e = nextNonce)
    BY <1>1, NonceForFacts
<1>3. args[c] \in Args /\ pendingRead[c] \in Nat
    BY <1>1 DEF TypeOK
<1>4. row \in Reservation /\ row # None
    BY <1>2, <1>3 DEF Reservation, Statuses, Args
<1>5. /\ nextNonce' = n + 1
      /\ reservations' = [reservations EXCEPT ![c] = row]
      /\ skipped' = skipped \cup (e..(n - 1))
    BY DEF StoreReservation, CounterAfter
<1>6. /\ callPc' = [callPc EXCEPT ![c] = "done"]
      /\ outcome' = [outcome EXCEPT ![c] = result]
      /\ UNCHANGED <<backend, chainPending, highestPending, args, pendingRead>>
    BY DEF Return
<1> HIDE DEF n, e, row
<1>7. TypeOK'
    BY <1>1, <1>2, <1>4, <1>5, <1>6 DEF TypeOK, Errors
<1>8. Rows' = Rows \cup {c}
    BY <1>1, <1>4, <1>5 DEF TypeOK, Rows
<1>9. /\ reservations'[c] = row
      /\ \A d \in Calls : d # c => reservations'[d] = reservations[d]
    BY <1>1, <1>5 DEF TypeOK
<1>10. row.nonce = n /\ row.actionId = args[c].actionId
    BY DEF row
<1>11. \A d \in Rows : reservations[d] \in Reservation
    BY <1>1 DEF TypeOK, Rows
<1>12. NextNonceAboveReserved'
    <2>1. \A d \in Rows : reservations[d].nonce \in Nat /\ nextNonce \in Nat
                          /\ reservations[d].nonce < nextNonce
        BY <1>1, <1>11 DEF IInv, NextNonceAboveReserved, TypeOK, Reservation
    <2>2. \A d \in Rows' : reservations'[d].nonce < n + 1
        BY <2>1, <1>1, <1>2, <1>8, <1>9, <1>10 DEF Rows
    <2> QED BY <2>2, <1>2, <1>5 DEF NextNonceAboveReserved
<1>13. NonceConflictUnreachable'
    BY <1>1, <1>6 DEF IInv, NonceConflictUnreachable, TypeOK, Errors
<1>14. NoUnexplainedGap'
    <2> SUFFICES ASSUME NEW m \in 0..n
                 PROVE  \/ RowsOfNonce(m)' # {}
                        \/ m < highestPending'
                        \/ m \in skipped'
        BY <1>2, <1>5 DEF NoUnexplainedGap
    <2>1. CASE m = n
        BY <2>1, <1>8, <1>9, <1>10 DEF RowsOfNonce
    <2>2. CASE m < n /\ m >= e
        BY <2>2, <1>2, <1>5
    <2>3. CASE m < e /\ e = pendingRead[c]
        <3>1. pendingRead[c] <= highestPending /\ highestPending \in Nat
            BY <1>1 DEF IInv, PendingReadsCovered, TypeOK
        <3> QED BY <3>1, <2>3, <1>2, <1>3, <1>6
    <2>4. CASE m < e /\ nextNonce # None /\ e = nextNonce
        <3>1. RowsOfNonce(m) # {} \/ m < highestPending \/ m \in skipped
            BY <2>4, <1>2 DEF IInv, NoUnexplainedGap
        <3>2. RowsOfNonce(m) \subseteq RowsOfNonce(m)'
            BY <1>1, <1>8, <1>9 DEF RowsOfNonce, Rows
        <3> QED BY <3>1, <3>2, <1>5, <1>6
    <2> QED BY <2>1, <2>2, <2>3, <2>4, <1>2
<1>15. PendingReadsCovered'
    BY <1>1, <1>6 DEF IInv, PendingReadsCovered, TypeOK
<1>16. RowsBelongToTheirCall'
    BY <1>1, <1>3, <1>6, <1>8, <1>9, <1>10 DEF IInv, RowsBelongToTheirCall, TypeOK, Rows
<1>17. OneRowPerAction'
    <2>1. \A d \in Rows : reservations[d].actionId # args[c].actionId
        BY DEF IsActionTaken, RowsOfAction
    <2> QED BY <2>1, <1>1, <1>8, <1>9, <1>10 DEF IInv, OneRowPerAction, Rows
<1>18. OutcomesNameRows'
    <2>1. result \in Calls => result = c
        BY DEF Errors
    <2> QED
        BY <2>1, <1>1, <1>3, <1>6, <1>8, <1>9, <1>10 DEF IInv, OutcomesNameRows, TypeOK, Rows
<1> QED BY <1>7, <1>12, <1>13, <1>14, <1>15, <1>16, <1>17, <1>18 DEF IInv

\* A call that returns an error or an existing row changes no row.
LEMMA ReturnPreserves ==
    ASSUME IInv, NEW c \in Calls, NEW result, callPc[c] \in {"idle", "read"},
           RollBack, Return(c, result),
           \/ result \in Errors \ {"NONCE_ALREADY_RESERVED"}
           \/ /\ callPc[c] = "read"
              /\ result \in RowsOfAction(args[c].actionId)
    PROVE  IInv'
<1> USE NoneAssumption
<1>1. TypeOK
    BY DEF IInv
<1>2. UNCHANGED <<nextNonce, reservations, skipped, backend, chainPending,
                  highestPending, args, pendingRead>>
    BY DEF RollBack, Return
<1>3. /\ callPc' = [callPc EXCEPT ![c] = "done"]
      /\ outcome' = [outcome EXCEPT ![c] = result]
    BY DEF Return
<1>4. result \in Calls \cup Errors
    BY DEF RowsOfAction, Rows
<1>5. TypeOK'
    BY <1>1, <1>2, <1>3, <1>4 DEF TypeOK
<1>6. Rows' = Rows /\ \A m : RowsOfNonce(m)' = RowsOfNonce(m)
    BY <1>2 DEF Rows, RowsOfNonce
<1>7. NextNonceAboveReserved' /\ NoUnexplainedGap'
    BY <1>2, <1>6 DEF IInv, NextNonceAboveReserved, NoUnexplainedGap
<1>8. NonceConflictUnreachable'
    BY <1>1, <1>3 DEF IInv, NonceConflictUnreachable, TypeOK, Errors, RowsOfAction, Rows
<1>9. PendingReadsCovered' /\ RowsBelongToTheirCall' /\ OneRowPerAction'
    BY <1>1, <1>2, <1>3, <1>6
    DEF IInv, PendingReadsCovered, RowsBelongToTheirCall, OneRowPerAction, TypeOK, Rows
<1>10. OutcomesNameRows'
    <2> SUFFICES ASSUME NEW d \in Calls, outcome'[d] \in Calls
                 PROVE  /\ outcome'[d] \in Rows
                        /\ args[d] \in Args
                        /\ callPc'[d] = "done"
                        /\ reservations[outcome'[d]].actionId = args[d].actionId
        BY <1>2, <1>6 DEF OutcomesNameRows
    <2>1. CASE d # c
        BY <2>1, <1>1, <1>3 DEF IInv, OutcomesNameRows, TypeOK
    <2>2. CASE d = c
        <3>1. outcome'[d] = result /\ callPc'[d] = "done"
            BY <2>2, <1>1, <1>3 DEF TypeOK
        <3>2. callPc[c] = "read" /\ result \in RowsOfAction(args[c].actionId)
            BY <3>1
        <3> QED BY <2>2, <3>1, <3>2, <1>1 DEF RowsOfAction, TypeOK
    <2> QED BY <2>1, <2>2
<1> QED BY <1>5, <1>7, <1>8, <1>9, <1>10 DEF IInv

\* A step that only rewrites statuses and hashes of rows keeps the invariant.
LEMMA StatusPreserves ==
    ASSUME IInv,
           reservations' \in [Calls -> Reservation \cup {None}],
           \A c \in Calls :
              /\ reservations[c] = None <=> reservations'[c] = None
              /\ reservations[c] # None =>
                    /\ reservations'[c].nonce = reservations[c].nonce
                    /\ reservations'[c].actionId = reservations[c].actionId,
           UNCHANGED <<backend, nextNonce, chainPending, highestPending, skipped,
                       callPc, args, pendingRead, outcome>>
    PROVE  IInv'
<1>1. TypeOK'
    BY DEF IInv, TypeOK
<1>2. Rows' = Rows /\ \A m : RowsOfNonce(m)' = RowsOfNonce(m)
    BY DEF Rows, RowsOfNonce
<1>3. NextNonceAboveReserved' /\ NoUnexplainedGap'
    BY <1>2 DEF IInv, NextNonceAboveReserved, NoUnexplainedGap, Rows
<1>4. NonceConflictUnreachable' /\ PendingReadsCovered'
    BY DEF IInv, NonceConflictUnreachable, PendingReadsCovered
<1>5. RowsBelongToTheirCall' /\ OneRowPerAction' /\ OutcomesNameRows'
    BY <1>2 DEF IInv, RowsBelongToTheirCall, OneRowPerAction, OutcomesNameRows, Rows
<1> QED BY <1>1, <1>3, <1>4, <1>5 DEF IInv

\* Release, submit and fail rewrite the status and hash of one row.
LEMMA UpdateByIdPreserves ==
    ASSUME IInv, NEW id \in Calls, NEW status \in Statuses,
           NEW hash \in TxHashes \cup {None}, UpdateById(id, status, hash)
    PROVE  IInv'
<1> USE NoneAssumption
<1> DEFINE row == Updated(reservations[id], status, hash)
<1>1. TypeOK /\ reservations[id] \in Reservation
    BY DEF IInv, TypeOK, UpdateById
<1>2. row \in Reservation /\ row.nonce = reservations[id].nonce
      /\ row.actionId = reservations[id].actionId
    BY <1>1 DEF Reservation, Updated
<1>3. reservations' = [reservations EXCEPT ![id] = row]
    BY DEF UpdateById
<1> HIDE DEF row
<1>4. reservations' \in [Calls -> Reservation \cup {None}]
    BY <1>1, <1>2, <1>3 DEF TypeOK
<1>5. \A c \in Calls :
              /\ reservations[c] = None <=> reservations'[c] = None
              /\ reservations[c] # None =>
                    /\ reservations'[c].nonce = reservations[c].nonce
                    /\ reservations'[c].actionId = reservations[c].actionId
    BY <1>1, <1>2, <1>3 DEF TypeOK
<1>6. UNCHANGED <<backend, nextNonce, chainPending, highestPending, skipped,
                  callPc, args, pendingRead, outcome>>
    BY DEF UpdateById
<1> QED BY <1>4, <1>5, <1>6, StatusPreserves

\* Confirm and fail by transaction hash rewrite the rows that carry it.
LEMMA UpdateByTxHashPreserves ==
    ASSUME IInv, NEW hash, NEW status \in Statuses, UpdateByTxHash(hash, status)
    PROVE  IInv'
<1> USE NoneAssumption
<1>1. TypeOK
    BY DEF IInv
<1>2. \A id \in Rows :
          LET row == Updated(reservations[id], status, None) IN
          /\ row \in Reservation
          /\ row.nonce = reservations[id].nonce
          /\ row.actionId = reservations[id].actionId
    BY <1>1 DEF TypeOK, Rows, Reservation, Updated
<1>3. reservations' = [id \in Calls |->
           IF id \in Rows /\ reservations[id].txHash = hash
           THEN Updated(reservations[id], status, None)
           ELSE reservations[id]]
    BY DEF UpdateByTxHash
<1>4. reservations' \in [Calls -> Reservation \cup {None}]
    BY <1>1, <1>2, <1>3 DEF TypeOK
<1>5. \A c \in Calls :
              /\ reservations[c] = None <=> reservations'[c] = None
              /\ reservations[c] # None =>
                    /\ reservations'[c].nonce = reservations[c].nonce
                    /\ reservations'[c].actionId = reservations[c].actionId
    BY <1>2, <1>3 DEF Rows
<1>6. UNCHANGED <<backend, nextNonce, chainPending, highestPending, skipped,
                  callPc, args, pendingRead, outcome>>
    BY DEF UpdateByTxHash
<1> QED BY <1>4, <1>5, <1>6, StatusPreserves

\* Reading the pending nonce records an answer the chain has really given.
LEMMA ReadPreserves ==
    ASSUME IInv, NEW c \in Calls, NEW a \in ActionIds,
           NEW requested \in Nat \cup {None},
           NEW answer \in {chainPending, None},
           ReadChainPendingNonce(c, a, requested, answer)
    PROVE  IInv'
<1> USE NoneAssumption
<1>1. TypeOK /\ callPc[c] = "idle" /\ c \notin Rows
    BY DEF IInv, ReadChainPendingNonce, RowsBelongToTheirCall
<1>2. answer = chainPending /\ answer \in Nat
    BY <1>1 DEF ReadChainPendingNonce, AssertNonce, TypeOK
<1>3. [actionId |-> a, requestedNonce |-> requested] \in Args
    BY DEF Args
<1>4. /\ highestPending' \in Nat
      /\ highestPending' >= highestPending
      /\ highestPending' >= answer
    BY <1>1, <1>2 DEF ReadChainPendingNonce, Larger, TypeOK
<1>5. UNCHANGED <<backend, nextNonce, reservations, chainPending, skipped, outcome>>
      /\ callPc' = [callPc EXCEPT ![c] = "read"]
      /\ args' = [args EXCEPT ![c] = [actionId |-> a, requestedNonce |-> requested]]
      /\ pendingRead' = [pendingRead EXCEPT ![c] = answer]
    BY DEF ReadChainPendingNonce
<1>6. TypeOK'
    BY <1>1, <1>2, <1>3, <1>4, <1>5 DEF TypeOK
<1>7. Rows' = Rows /\ \A m : RowsOfNonce(m)' = RowsOfNonce(m)
    BY <1>5 DEF Rows, RowsOfNonce
<1>8. NextNonceAboveReserved' /\ NonceConflictUnreachable' /\ OneRowPerAction'
    BY <1>5, <1>7 DEF IInv, NextNonceAboveReserved, NonceConflictUnreachable, OneRowPerAction
<1>9. NoUnexplainedGap'
    <2> SUFFICES ASSUME nextNonce # None, NEW n \in 0..(nextNonce - 1)
                 PROVE  RowsOfNonce(n) # {} \/ n < highestPending' \/ n \in skipped
        BY <1>5, <1>7 DEF NoUnexplainedGap
    <2>1. RowsOfNonce(n) # {} \/ n < highestPending \/ n \in skipped
        BY DEF IInv, NoUnexplainedGap
    <2>2. n \in Int /\ highestPending \in Nat
        BY <1>1 DEF TypeOK
    <2> QED BY <2>1, <2>2, <1>4
<1>10. PendingReadsCovered'
    <2> SUFFICES ASSUME NEW d \in Calls, callPc'[d] = "read"
                 PROVE  pendingRead'[d] <= highestPending'
        BY DEF PendingReadsCovered
    <2>1. CASE d = c
        BY <2>1, <1>1, <1>2, <1>4, <1>5 DEF TypeOK
    <2>2. CASE d # c
        <3>1. callPc[d] = "read" /\ pendingRead'[d] = pendingRead[d]
            BY <2>2, <1>1, <1>5 DEF TypeOK
        <3>2. pendingRead[d] <= highestPending /\ pendingRead[d] \in Nat
              /\ highestPending \in Nat
            BY <3>1, <1>1 DEF IInv, PendingReadsCovered, TypeOK
        <3> QED BY <3>1, <3>2, <1>4
    <2> QED BY <2>1, <2>2
<1>11. RowsBelongToTheirCall' /\ OutcomesNameRows'
    BY <1>1, <1>5, <1>7
    DEF IInv, RowsBelongToTheirCall, OutcomesNameRows, TypeOK, Rows
<1> QED BY <1>6, <1>8, <1>9, <1>10, <1>11 DEF IInv

\* The invariant holds before any reservation.
LEMMA InitEstablishes == Init => IInv
<1> SUFFICES ASSUME Init PROVE IInv
    OBVIOUS
<1> USE NoneAssumption, MaxNonceAssumption DEF Init
<1>1. Rows = {}
    BY DEF Rows
<1>2. TypeOK
    BY DEF TypeOK
<1>3. NextNonceAboveReserved /\ RowsBelongToTheirCall /\ OneRowPerAction
    BY <1>1 DEF NextNonceAboveReserved, RowsBelongToTheirCall, OneRowPerAction
<1>4. NonceConflictUnreachable /\ NoUnexplainedGap /\ PendingReadsCovered
    BY DEF NonceConflictUnreachable, NoUnexplainedGap, PendingReadsCovered, Errors
<1>5. OutcomesNameRows
    BY DEF OutcomesNameRows
<1> QED BY <1>2, <1>3, <1>4, <1>5 DEF IInv

\* The row a call would take is free: this is what makes the error branch of the
\* unique index on the nonce dead code.
LEMMA NonceIsFree ==
    ASSUME IInv, NEW c \in Calls, callPc[c] = "read", ~TooLow(c)
    PROVE  RowsOfNonce(NonceFor(c)) = {}
<1> SUFFICES ASSUME NEW d \in Rows, reservations[d].nonce = NonceFor(c)
             PROVE  FALSE
    BY DEF RowsOfNonce
<1>1. nextNonce \in Nat /\ reservations[d].nonce < nextNonce /\ nextNonce # None
    BY NoneAssumption DEF IInv, NextNonceAboveReserved, TypeOK
<1>2. NonceFor(c) \in Nat /\ NonceFor(c) >= nextNonce
    BY <1>1, NonceForFacts DEF IInv
<1> QED BY <1>1, <1>2

\* Every step keeps the invariant: one case per operation.
LEMMA NextPreserves == IInv /\ [Next]_nonceVars => IInv'
<1> SUFFICES ASSUME IInv, [Next]_nonceVars PROVE IInv'
    OBVIOUS
<1> USE NoneAssumption
<1>1. ASSUME NEW c \in Calls, NEW a \in ActionIds,
             NEW n \in (0..MaxNonce) \cup {None},
             NEW answer \in {chainPending, None},
             ReadChainPendingNonce(c, a, n, answer)
      PROVE  IInv'
    BY <1>1, ReadPreserves, MaxNonceAssumption
<1>2. ASSUME NEW c \in Calls, ReadChainPendingNonceFails(c)
      PROVE  IInv'
    BY <1>2, ReturnPreserves DEF ReadChainPendingNonceFails, RollBack, Errors
<1>3. ASSUME NEW c \in Calls, ReserveInPg(c) \/ ReserveInMemory(c)
      PROVE  IInv'
    <2>1. callPc[c] = "read"
        BY <1>3 DEF ReserveInPg, ReserveInMemory
    <2>2. CASE /\ RollBack
               /\ Return(c, "NONCE_TOO_LOW") \/ Return(c, "DATABASE_ERROR")
        BY <2>1, <2>2, ReturnPreserves DEF Errors
    <2>3. CASE \E existing \in RowsOfAction(args[c].actionId) :
                  RollBack /\ Return(c, existing)
        BY <2>1, <2>3, ReturnPreserves
    <2>4. CASE ~TooLow(c) /\ RowsOfNonce(NonceFor(c)) # {}
        BY <2>1, <2>4, NonceIsFree
    <2>5. CASE /\ ~TooLow(c) /\ ~IsActionTaken(args[c].actionId)
               /\ StoreReservation(c)
               /\ Return(c, c) \/ Return(c, "DATABASE_ERROR")
        BY <2>1, <2>5, StorePreserves
    <2> QED BY <1>3, <2>2, <2>3, <2>4, <2>5 DEF ReserveInPg, ReserveInMemory
<1>4. ASSUME NEW id \in Calls,
             \/ ReleaseNonceReservation(id)
             \/ MarkNonceReservationFailed(id)
             \/ \E h \in TxHashes : MarkNonceReservationSubmitted(id, h)
      PROVE  IInv'
    BY <1>4, UpdateByIdPreserves
    DEF ReleaseNonceReservation, MarkNonceReservationFailed,
        MarkNonceReservationSubmitted, Statuses
<1>5. ASSUME NEW h \in TxHashes, NEW s \in {"SUBMITTED", "CONFIRMED", "FAILED"},
             UpdateByTxHash(h, s)
      PROVE  IInv'
    BY <1>5, UpdateByTxHashPreserves DEF Statuses
<1>6. CASE ChainMoves
    <2>1. chainPending' \in Nat
        BY <1>6, MaxNonceAssumption DEF ChainMoves
    <2> QED
        BY <1>6, <2>1
        DEF ChainMoves, IInv, TypeOK, NextNonceAboveReserved, NonceConflictUnreachable,
            NoUnexplainedGap, PendingReadsCovered, RowsBelongToTheirCall,
            OneRowPerAction, OutcomesNameRows, Rows, RowsOfNonce
<1>7. CASE UNCHANGED nonceVars
    BY <1>7
    DEF nonceVars, IInv, TypeOK, NextNonceAboveReserved, NonceConflictUnreachable,
        NoUnexplainedGap, PendingReadsCovered, RowsBelongToTheirCall,
        OneRowPerAction, OutcomesNameRows, Rows, RowsOfNonce
<1> QED BY <1>1, <1>2, <1>3, <1>4, <1>5, <1>6, <1>7 DEF Next

\* The invariant holds in every reachable state.
THEOREM InvariantHolds == Spec => []IInv
<1>1. Init => IInv
    BY InitEstablishes
<1>2. IInv /\ [Next]_nonceVars => IInv'
    BY NextPreserves
<1> QED BY <1>1, <1>2, PTL DEF Spec

\* Every variable keeps its type.
THEOREM TypeCorrect == Spec => []TypeOK
<1>1. IInv => TypeOK
    BY DEF IInv
<1> QED BY <1>1, InvariantHolds, PTL

\* reserveWalletNonce never throws NONCE_ALREADY_RESERVED: however many calls
\* race and however stale their pending nonce, the locked counter is enough.
THEOREM ConflictUnreachable == Spec => []NonceConflictUnreachable
<1>1. IInv => NonceConflictUnreachable
    BY DEF IInv
<1> QED BY <1>1, InvariantHolds, PTL

\* Every nonce below the counter is accounted for.
THEOREM GapsExplained == Spec => []NoUnexplainedGap
<1>1. IInv => NoUnexplainedGap
    BY DEF IInv
<1> QED BY <1>1, InvariantHolds, PTL

\* Calls with the same actionId, and only those, share a reservation.
THEOREM ReplaySafe == Spec => []ReplayReturnsSameReservation
<1>1. IInv => ReplayReturnsSameReservation
    <2> SUFFICES ASSUME IInv, NEW c \in Calls, NEW d \in Calls,
                        outcome[c] \in Calls, outcome[d] \in Calls
                 PROVE  (outcome[c] = outcome[d])
                           <=> (args[c].actionId = args[d].actionId)
        BY DEF ReplayReturnsSameReservation
    <2>1. /\ outcome[c] \in Rows /\ outcome[d] \in Rows
          /\ reservations[outcome[c]].actionId = args[c].actionId
          /\ reservations[outcome[d]].actionId = args[d].actionId
        BY DEF IInv, OutcomesNameRows
    <2> QED BY <2>1 DEF IInv, OneRowPerAction
<1> QED BY <1>1, InvariantHolds, PTL

\* Reservations are permanent and the counter never goes back.
THEOREM Permanence == Spec => ReservationsArePermanent
<1>1. IInv /\ [Next]_nonceVars => [KeepsReservations]_nonceVars
    <2> SUFFICES ASSUME IInv, Next PROVE KeepsReservations
        BY DEF nonceVars
    <2> USE NoneAssumption
    <2>1. TypeOK /\ (nextNonce # None => nextNonce \in Nat)
        BY DEF IInv, TypeOK
    <2>2. CASE UNCHANGED <<nextNonce, reservations>>
        BY <2>1, <2>2 DEF KeepsReservations, Rows
    <2>3. ASSUME NEW c \in Calls, callPc[c] = "read", ~TooLow(c), StoreReservation(c)
          PROVE  KeepsReservations
        <3>1. c \notin Rows
            BY <2>3 DEF IInv, RowsBelongToTheirCall
        <3>2. \A d \in Rows : reservations'[d] = reservations[d]
            BY <3>1, <2>1, <2>3 DEF StoreReservation, TypeOK, Rows
        <3>3. NonceFor(c) \in Nat /\ nextNonce' = NonceFor(c) + 1
              /\ (nextNonce # None => NonceFor(c) >= nextNonce)
            BY <2>1, <2>3, NonceForFacts DEF StoreReservation, CounterAfter
        <3> QED BY <3>2, <3>3, <2>1 DEF KeepsReservations, Rows
    <2>4. ASSUME NEW id \in Calls, NEW status \in Statuses,
                 NEW hash \in TxHashes \cup {None}, UpdateById(id, status, hash)
          PROVE  KeepsReservations
        <3>1. Updated(reservations[id], status, hash) \in Reservation
            BY <2>1, <2>4 DEF UpdateById, Updated, TypeOK, Reservation
        <3> QED BY <3>1, <2>1, <2>4 DEF UpdateById, KeepsReservations, TypeOK, Updated, Rows
    <2>5. ASSUME NEW hash \in TxHashes, NEW status \in Statuses,
                 UpdateByTxHash(hash, status)
          PROVE  KeepsReservations
        <3>1. \A id \in Rows : Updated(reservations[id], status, None) \in Reservation
            BY <2>1 DEF Updated, TypeOK, Reservation, Rows
        <3> QED BY <3>1, <2>1, <2>5 DEF UpdateByTxHash, KeepsReservations, TypeOK, Updated, Rows
    <2>6. ASSUME NEW c \in Calls, ReserveInPg(c) \/ ReserveInMemory(c)
          PROVE  KeepsReservations
        BY <2>2, <2>3, <2>6 DEF ReserveInPg, ReserveInMemory, RollBack
    <2>7. ASSUME NEW id \in Calls,
                 \/ ReleaseNonceReservation(id)
                 \/ MarkNonceReservationFailed(id)
                 \/ \E h \in TxHashes : MarkNonceReservationSubmitted(id, h)
          PROVE  KeepsReservations
        BY <2>4, <2>7
        DEF ReleaseNonceReservation, MarkNonceReservationFailed,
            MarkNonceReservationSubmitted, Statuses
    <2> QED
        BY <2>2, <2>5, <2>6, <2>7
        DEF Next, ReadChainPendingNonce, ReadChainPendingNonceFails, ChainMoves, Statuses
<1> QED BY <1>1, InvariantHolds, PTL DEF Spec, ReservationsArePermanent

=============================================================================

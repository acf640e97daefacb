------------------------ MODULE IdempotencyKeyProofs ------------------------
(***************************************************************************)
(* Proofs about IdempotencyKey, for any number of calls and keys, any time *)
(* to live and any length of the run.                                      *)
(***************************************************************************)
EXTENDS IdempotencyKey, TLAPS

USE IdempotencyAssumption

\* No key is reserved and no call has begun in the initial state.
LEMMA InitEstablishes == Init => IInv
BY DEF Init, IInv, TypeOK, Phases, RowsDescribeTheirCall, FoundRowsExpired,
       StartedCallsHaveKeys, PromptInProgress, InProgress, Working,
       ProtectedByRow, Protects

\* A call that starts computes an expiry in the future and touches no row.
LEMMA BeginPreserves ==
    ASSUME IInv, NEW c \in Calls, NEW k \in Keys, Begin(c, k)
    PROVE  IInv'
<1>1. TypeOK'
    BY DEF IInv, TypeOK, Begin, Goto, Phases, Working
<1>2. RowsDescribeTheirCall'
    BY DEF IInv, TypeOK, RowsDescribeTheirCall, Begin, Goto, Row
<1>3. FoundRowsExpired'
    BY DEF IInv, TypeOK, FoundRowsExpired, Begin, Goto
<1>4. StartedCallsHaveKeys'
    BY DEF IInv, TypeOK, StartedCallsHaveKeys, Begin, Goto
<1>5. PromptInProgress'
    BY DEF IInv, TypeOK, PromptInProgress, InProgress, Begin, Goto
<1>6. ProtectedByRow'
    BY DEF IInv, TypeOK, ProtectedByRow, Protects, NewRow, Begin, Goto
<1> QED BY <1>1, <1>2, <1>3, <1>4, <1>5, <1>6 DEF IInv

\* A step that moves a call without touching a row or starting to protect.
LEMMA MovePreserves ==
    ASSUME IInv, NEW c \in Calls, NEW phase \in Phases \ {"idle", "held", "delete"},
           idemPc[c] # "idle", phase # "lost", phase = "kept" <=> idemPc[c] = "held",
           Goto(c, phase),
           InProgress(c),
           UNCHANGED <<store, now, keyRows, keyOf, expiresAt, found, dropped>>
    PROVE  IInv'
<1>1. TypeOK'
    BY DEF IInv, TypeOK, Goto
<1>2. RowsDescribeTheirCall'
    BY DEF IInv, TypeOK, RowsDescribeTheirCall, InProgress, Working, Goto, Row
<1>3. FoundRowsExpired' /\ StartedCallsHaveKeys'
    BY DEF IInv, TypeOK, FoundRowsExpired, StartedCallsHaveKeys, Goto
<1>4. PromptInProgress'
    BY DEF IInv, TypeOK, PromptInProgress, InProgress, Goto
<1>5. ProtectedByRow'
    BY DEF IInv, TypeOK, ProtectedByRow, Protects, NewRow, Goto
<1> QED BY <1>1, <1>2, <1>3, <1>4, <1>5 DEF IInv

\* Filling an empty slot: no other reservation of the key can still protect.
LEMMA FillPreserves ==
    ASSUME IInv, NEW c \in Calls, idemPc[c] \in {"create", "recreate"},
           keyRows[keyOf[c]] = None \/ Expired(keyRows[keyOf[c]]),
           keyRows' = [keyRows EXCEPT ![keyOf[c]] = NewRow(c)],
           NEW phase \in {"held", "lost"}, Goto(c, phase),
           UNCHANGED <<store, now, keyOf, expiresAt, found, dropped>>
    PROVE  IInv'
<1>1. TypeOK /\ keyOf[c] \in Keys /\ NewRow(c) \in Row
    BY DEF IInv, TypeOK, StartedCallsHaveKeys, NewRow, Row
<1>2. TypeOK'
    BY <1>1 DEF TypeOK, Goto, Phases
<1>3. RowsDescribeTheirCall'
    BY <1>1 DEF IInv, TypeOK, RowsDescribeTheirCall, Goto, NewRow, Row
<1>4. FoundRowsExpired' /\ StartedCallsHaveKeys'
    BY DEF IInv, TypeOK, FoundRowsExpired, StartedCallsHaveKeys, Goto
<1>5. PromptInProgress'
    BY DEF IInv, TypeOK, PromptInProgress, InProgress, Working, Goto
<1>6. ProtectedByRow'
    <2> SUFFICES ASSUME PromptHolders, NEW d \in Calls, Protects(d)', keyOf[d] \notin dropped
                 PROVE  keyRows'[keyOf[d]] = NewRow(d)
        BY DEF ProtectedByRow, NewRow
    <2>1. CASE d = c
        BY <2>1, <1>1 DEF TypeOK
    <2>2. CASE d # c
        <3>1. Protects(d) /\ keyRows[keyOf[d]] = NewRow(d)
            BY <2>2, <1>1 DEF IInv, ProtectedByRow, Protects, Goto, TypeOK
        <3>2. NewRow(d) # None /\ ~Expired(NewRow(d))
            BY <3>1, <1>1 DEF NewRow, Row, Expired, Protects, TypeOK
        <3>3. keyOf[d] # keyOf[c]
            BY <3>1, <3>2
        <3> QED BY <3>1, <3>3, <1>1 DEF TypeOK
    <2> QED BY <2>1, <2>2
<1> QED BY <1>2, <1>3, <1>4, <1>5, <1>6 DEF IInv

\* findUnique reads the row of the key, if any; a row it finds expired stays expired.
LEMMA FindPreserves ==
    ASSUME IInv, NEW c \in Calls, Find(c)
    PROVE  IInv'
<1>1. CASE /\ keyRows[keyOf[c]] # None /\ Expired(keyRows[keyOf[c]])
           /\ found' = [found EXCEPT ![c] = keyRows[keyOf[c]].id]
           /\ Goto(c, "delete")
    <2>1. TypeOK /\ keyOf[c] \in Keys /\ keyRows[keyOf[c]] \in Row
        BY <1>1 DEF IInv, TypeOK, StartedCallsHaveKeys, Find
    <2>2. /\ keyRows[keyOf[c]].id \in Calls
          /\ expiresAt[keyRows[keyOf[c]].id] <= now
          /\ idemPc[keyRows[keyOf[c]].id] # "idle"
        BY <1>1, <2>1 DEF IInv, RowsDescribeTheirCall, Row, Expired
    <2>3. UNCHANGED <<store, now, keyRows, keyOf, expiresAt, dropped>> /\ idemPc[c] = "find"
        BY DEF Find
    <2>4. TypeOK'
        BY <1>1, <2>1, <2>2, <2>3 DEF TypeOK, Goto, Phases, Working
    <2>5. RowsDescribeTheirCall' /\ StartedCallsHaveKeys'
        BY <1>1, <2>1, <2>3 DEF IInv, TypeOK, RowsDescribeTheirCall, StartedCallsHaveKeys, Goto, Row
    <2>6. FoundRowsExpired'
        BY <1>1, <2>1, <2>2, <2>3 DEF IInv, TypeOK, FoundRowsExpired, Goto
    <2>7. PromptInProgress' /\ ProtectedByRow'
        BY <1>1, <2>1, <2>3
        DEF IInv, TypeOK, PromptInProgress, InProgress, Working, ProtectedByRow,
            Protects, NewRow, Goto
    <2> QED BY <2>4, <2>5, <2>6, <2>7 DEF IInv
<1>2. CASE Goto(c, "error") /\ UNCHANGED found
    BY <1>2, MovePreserves DEF Find, Phases, InProgress, Working
<1>3. CASE Goto(c, "replay") /\ UNCHANGED found
    BY <1>3, MovePreserves DEF Find, Phases, InProgress, Working
<1> QED BY <1>1, <1>2, <1>3 DEF Find

\* No other request relies on the row of c's key.
NobodyElseProtected(c) ==
    PromptHolders =>
        \A d \in Calls \ {c} :
            ~(keyOf[d] = keyOf[c] /\ Protects(d) /\ keyOf[d] \notin dropped)

\* Emptying a slot whose row protects nobody but the call itself.
LEMMA EmptyPreserves ==
    ASSUME IInv, NEW c \in Calls, idemPc[c] \in Working \cup {"held"},
           NEW phase \in {"recreate", "released", "error"}, Goto(c, phase),
           phase = "released" <=> idemPc[c] = "held",
           keyRows' = [keyRows EXCEPT ![keyOf[c]] = None],
           NobodyElseProtected(c),
           UNCHANGED <<store, now, keyOf, expiresAt, found, dropped>>
    PROVE  IInv'
<1>1. TypeOK /\ keyOf[c] \in Keys
    BY DEF IInv, StartedCallsHaveKeys, Working
<1>2. TypeOK'
    BY <1>1 DEF TypeOK, Goto, Phases, Working
<1>3. RowsDescribeTheirCall'
    BY <1>1 DEF IInv, TypeOK, RowsDescribeTheirCall, Goto, Row
<1>4. FoundRowsExpired' /\ StartedCallsHaveKeys'
    BY <1>1 DEF IInv, TypeOK, FoundRowsExpired, StartedCallsHaveKeys, Goto, Working
<1>5. PromptInProgress'
    BY <1>1 DEF IInv, TypeOK, PromptInProgress, InProgress, Goto
<1>6. ProtectedByRow'
    <2> SUFFICES ASSUME PromptHolders, NEW d \in Calls, Protects(d)', keyOf[d] \notin dropped
                 PROVE  keyRows'[keyOf[d]] = NewRow(d)
        BY DEF ProtectedByRow, NewRow
    <2>1. d # c /\ Protects(d)
        BY <1>1 DEF Protects, Goto, TypeOK
    <2>2. keyRows[keyOf[d]] = NewRow(d) /\ keyOf[d] # keyOf[c]
        BY <2>1 DEF IInv, ProtectedByRow, NobodyElseProtected
    <2> QED BY <2>2, <1>1 DEF TypeOK
<1> QED BY <1>2, <1>3, <1>4, <1>5, <1>6 DEF IInv

\* The conditional delete of the expired row that was found.
LEMMA DeletePreserves ==
    ASSUME IInv, NEW c \in Calls, Delete(c)
    PROVE  IInv'
<1>1. CASE /\ IsFoundRow(c)
           /\ Goto(c, "recreate") \/ Goto(c, "error")
           /\ keyRows' = [keyRows EXCEPT ![keyOf[c]] = None]
    <2>1. ASSUME PromptHolders, NEW d \in Calls, d # c, keyOf[d] = keyOf[c],
                 Protects(d), keyOf[d] \notin dropped
          PROVE  FALSE
        <3>1. keyRows[keyOf[c]] = NewRow(d)
            BY <2>1 DEF IInv, ProtectedByRow
        <3>2. found[c] = d
            <4>1. keyRows[keyOf[c]].id = found[c]
                BY <1>1 DEF IsFoundRow
            <4>2. NewRow(d).id = d
                BY DEF NewRow
            <4> QED BY <3>1, <4>1, <4>2
        <3>3. expiresAt[d] <= now /\ expiresAt[d] \in Nat /\ now \in Int
            BY <3>2 DEF IInv, FoundRowsExpired, Delete, TypeOK
        <3> QED BY <3>3, <2>1 DEF Protects
    <2>2. NobodyElseProtected(c)
        BY <2>1 DEF NobodyElseProtected
    <2> QED BY <1>1, <2>2, EmptyPreserves DEF Delete, Working
<1>2. CASE Fails(c)
    BY <1>2, MovePreserves DEF Fails, Delete, Phases, InProgress, Working
<1> QED BY <1>1, <1>2 DEF Delete

\* releaseIdempotencyKey deletes the row of its key.
LEMMA ReleasePreserves ==
    ASSUME IInv, NEW c \in Calls, Release(c)
    PROVE  IInv'
<1>1. ASSUME PromptHolders, NEW d \in Calls, d # c, keyOf[d] = keyOf[c],
             Protects(d), keyOf[d] \notin dropped
      PROVE  FALSE
    <2>1. Protects(c)
        BY <1>1 DEF IInv, PromptInProgress, InProgress, Release, Protects
    <2>2. NewRow(c) = NewRow(d)
        BY <1>1, <2>1 DEF IInv, ProtectedByRow
    <2>3. NewRow(c).id = c /\ NewRow(d).id = d
        BY DEF NewRow
    <2> QED BY <1>1, <2>2, <2>3
<1>2. NobodyElseProtected(c)
    BY <1>1 DEF NobodyElseProtected
<1> QED BY <1>2, EmptyPreserves DEF Release

\* The whole of reserveIdempotencyKey on the in-memory map, which is cleared when full.
LEMMA MemoryPreserves ==
    ASSUME IInv, NEW c \in Calls, ReserveInMemory(c)
    PROVE  IInv'
<1> DEFINE rows == [keyRows EXCEPT ![keyOf[c]] = NewRow(c)]
           used == {k \in Keys : rows[k] # None}
           full == Cardinality(used) > MemoryCapacity
           blocked == keyRows[keyOf[c]] # None /\ ~Expired(keyRows[keyOf[c]])
<1>1. TypeOK /\ keyOf[c] \in Keys /\ idemPc[c] = "create" /\ NewRow(c) \in Row
    BY DEF IInv, TypeOK, StartedCallsHaveKeys, ReserveInMemory, NewRow, Row
<1>2. UNCHANGED <<store, now, keyOf, expiresAt, found>>
    BY DEF ReserveInMemory
<1>3. CASE blocked /\ Goto(c, "replay") /\ UNCHANGED <<keyRows, dropped>>
    BY <1>1, <1>2, <1>3, MovePreserves DEF Phases, InProgress, Working
<1>4. CASE /\ ~blocked /\ Goto(c, "held") /\ ~full
           /\ keyRows' = rows /\ UNCHANGED dropped
    BY <1>1, <1>2, <1>4, FillPreserves
<1>5. CASE /\ ~blocked /\ Goto(c, "held")
           /\ keyRows' = [k \in Keys |-> None] /\ dropped' = dropped \cup used
    <2>1. TypeOK'
        BY <1>1, <1>2, <1>5 DEF TypeOK, Goto, Phases
    <2>2. RowsDescribeTheirCall' /\ FoundRowsExpired' /\ StartedCallsHaveKeys'
        BY <1>1, <1>2, <1>5
        DEF IInv, TypeOK, RowsDescribeTheirCall, FoundRowsExpired, StartedCallsHaveKeys, Goto
    <2>3. PromptInProgress'
        BY <1>1, <1>2, <1>5 DEF IInv, TypeOK, PromptInProgress, InProgress, Working, Goto
    <2>4. ProtectedByRow'
        <3> SUFFICES ASSUME PromptHolders, NEW d \in Calls, Protects(d)',
                            keyOf[d] \notin dropped'
                     PROVE  FALSE
            BY <1>2 DEF ProtectedByRow
        <3>1. d # c
            BY <1>1, <1>5 DEF TypeOK
        <3>2. Protects(d) /\ keyOf[d] \in Keys
            BY <3>1, <1>1, <1>2, <1>5 DEF Protects, Goto, TypeOK, IInv, StartedCallsHaveKeys
        <3>3. keyRows[keyOf[d]] = NewRow(d)
            BY <3>2, <1>5 DEF IInv, ProtectedByRow
        <3>4. NewRow(d) # None
            BY <1>1 DEF NewRow, Row, TypeOK
        <3>5. keyOf[d] \in used
            BY <3>2, <3>3, <3>4, <1>1 DEF TypeOK
        <3> QED BY <3>5, <1>5
    <2> QED BY <2>1, <2>2, <2>3, <2>4 DEF IInv
<1> QED BY <1>3, <1>4, <1>5 DEF ReserveInMemory

\* Time passes: protection only ends, nothing new is protected.
LEMMA TickPreserves ==
    ASSUME IInv, Tick
    PROVE  IInv'
<1>1. TypeOK'
    BY DEF IInv, TypeOK, Tick
<1>2. RowsDescribeTheirCall' /\ FoundRowsExpired' /\ StartedCallsHaveKeys'
    BY DEF IInv, TypeOK, Tick, RowsDescribeTheirCall, FoundRowsExpired, StartedCallsHaveKeys
<1>3. PromptInProgress' /\ ProtectedByRow'
    BY DEF IInv, TypeOK, Tick, PromptInProgress, InProgress, ProtectedByRow, Protects, NewRow
<1> QED BY <1>1, <1>2, <1>3 DEF IInv

\* Every step keeps the invariant: one case per operation.
LEMMA NextPreserves == IInv /\ [Next]_idemVars => IInv'
<1> SUFFICES ASSUME IInv, [Next]_idemVars PROVE IInv'
    OBVIOUS
<1>1. CASE Tick
    BY <1>1, TickPreserves
<1>2. ASSUME NEW c \in Calls, Step(c)
      PROVE  IInv'
    <2>1. CASE \E k \in Keys : Begin(c, k)
        BY <2>1, BeginPreserves
    <2>2. CASE Create(c) \/ Recreate(c)
        <3>1. CASE Insert(c)
            BY <2>2, <3>1, FillPreserves DEF Insert, Create, Recreate
        <3>2. CASE Goto(c, "find") /\ UNCHANGED keyRows
            BY <2>2, <3>2, MovePreserves DEF Create, Recreate, Phases, InProgress, Working
        <3>3. CASE Fails(c)
            BY <2>2, <3>3, MovePreserves DEF Fails, Create, Recreate, Phases, InProgress, Working
        <3> QED BY <2>2, <3>1, <3>2, <3>3 DEF Create, Recreate
    <2>3. CASE Find(c)
        BY <2>3, FindPreserves
    <2>4. CASE Delete(c)
        BY <2>4, DeletePreserves
    <2>5. CASE ReserveInMemory(c)
        BY <2>5, MemoryPreserves
    <2>6. CASE Release(c)
        BY <2>6, ReleasePreserves
    <2>7. CASE Keep(c)
        BY <2>7, MovePreserves DEF Keep, Phases, InProgress
    <2> QED BY <1>2, <2>1, <2>2, <2>3, <2>4, <2>5, <2>6, <2>7 DEF Step
<1>3. CASE UNCHANGED idemVars
    BY <1>3
    DEF idemVars, IInv, TypeOK, RowsDescribeTheirCall, FoundRowsExpired,
        StartedCallsHaveKeys, PromptInProgress, InProgress, ProtectedByRow, Protects, NewRow
<1> QED BY <1>1, <1>2, <1>3 DEF Next

\* The invariant holds in every reachable state.
THEOREM InvariantHolds == Spec => []IInv
BY InitEstablishes, NextPreserves, PTL DEF Spec

\* As long as requests end within the time to live, no key has two holders.
THEOREM Exclusive == Spec => []ExclusiveReservation
<1>1. IInv => ExclusiveReservation
    <2> SUFFICES ASSUME IInv, PromptHolders, NEW c \in Calls, NEW d \in Calls,
                        c # d, keyOf[c] = keyOf[d], Protects(c), Protects(d),
                        keyOf[c] \notin dropped
                 PROVE  FALSE
        BY DEF ExclusiveReservation
    <2>1. NewRow(c) = NewRow(d)
        BY DEF IInv, ProtectedByRow
    <2> QED BY <2>1 DEF NewRow
<1> QED BY <1>1, InvariantHolds, PTL

\* A reserving call only ever replaces an expired row, however slow the calls are.
THEOREM RemovalsAreExpired == Spec => ReplacesOnlyExpired
<1>1. IInv /\ [Next]_idemVars => [RemovesOnlyExpired]_idemVars
    <2> SUFFICES ASSUME IInv, Next, NEW k \in Keys, keyRows[k] # None,
                        keyRows'[k] # keyRows[k]
                 PROVE  \/ Expired(keyRows[k])
                        \/ \E c \in Calls : idemPc[c] = "held" /\ idemPc'[c] = "released"
                        \/ k \in dropped'
        BY DEF idemVars, RemovesOnlyExpired
    <2>1. TypeOK
        BY DEF IInv
    <2>2. PICK c \in Calls : \/ Create(c) \/ Recreate(c) \/ Delete(c)
                             \/ ReserveInMemory(c) \/ Release(c)
        BY DEF Next, Tick, Step, Begin, Find, Keep
    <2>3. CASE Create(c) \/ Recreate(c)
        BY <2>1, <2>3 DEF Create, Recreate, Insert, Fails, TypeOK
    <2>4. CASE Delete(c)
        <3>1. keyOf[c] = k /\ IsFoundRow(c) /\ idemPc[c] = "delete"
            BY <2>1, <2>4 DEF Delete, Fails, TypeOK
        <3>2. keyRows[k].expiresAt = expiresAt[found[c]]
            BY <3>1 DEF IInv, RowsDescribeTheirCall, IsFoundRow
        <3> QED BY <3>1, <3>2 DEF IInv, FoundRowsExpired, Expired
    <2>5. CASE Release(c)
        BY <2>1, <2>5 DEF Release, Goto, TypeOK
    <2>6. CASE ReserveInMemory(c)
        <3> DEFINE rows == [keyRows EXCEPT ![keyOf[c]] = NewRow(c)]
        <3>1. CASE keyRows' = rows
            <4>1. keyOf[c] = k
                BY <3>1, <2>1 DEF TypeOK
            <4> QED BY <4>1, <2>6 DEF ReserveInMemory
        <3>2. CASE dropped' = dropped \cup {j \in Keys : rows[j] # None}
            <4>1. NewRow(c) # None
                BY <2>1 DEF NewRow, Row, TypeOK
            <4>2. rows[k] # None
                BY <4>1, <2>1 DEF TypeOK
            <4> QED BY <4>2, <3>2
        <3> QED BY <3>1, <3>2, <2>6 DEF ReserveInMemory
    <2> QED BY <2>2, <2>3, <2>4, <2>5, <2>6
<1> QED BY <1>1, InvariantHolds, PTL DEF Spec, ReplacesOnlyExpired

=============================================================================

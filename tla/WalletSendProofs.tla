-------------------------- MODULE WalletSendProofs --------------------------
(***************************************************************************)
(* WalletSend implements AtMostOnce with PostgreSQL, for any number of     *)
(* requests, keys and traces, and any timing: the argument does not use    *)
(* the idempotency rows at all, only the unique index of the intents.      *)
(* Then: the route uses its two services as their modules say, an intent   *)
(* owns its nonce, and a refused request leaves open at most the rows that *)
(* its own lost or failed calls account for.                               *)
(***************************************************************************)
EXTENDS WalletSend, TLAPS

\* What the handler's steps outside the idempotency service and the creation of
\* the intent leave alone.
Frame ==
    /\ UNCHANGED <<queued, keyOf, backend>>
    /\ reqPc' \in [Requests -> Pcs]
    /\ idemPc' \in [Requests -> Idem!Phases]
    /\ \A r \in Requests : idemPc[r] # "idle" => idemPc'[r] # "idle"
    /\ \A r \in Requests : idemPc'[r] # "idle" => idemPc[r] # "idle"
    /\ \A r \in Requests : reqPc'[r] \in PastKey => reqPc[r] \in PastKey

\* A step within the frame keeps the part of the invariant about keys.
LEMMA FrameKeeps == KeyIInv /\ Frame => KeyIInv'
BY DEF KeyIInv, Frame

\* A step within the frame accepts nothing.
LEMMA FrameAccepted == Frame => Accepted' = Accepted
BY DEF Frame, Accepted

\* The checks of the route and the steps up to the intent stay within the frame.
LEMMA CheckFrames ==
    ASSUME KeyIInv, NEW r \in Requests,
           \/ EvaluatePolicies(r)
           \/ Build(r)
           \/ LimitExceeded(r)
           \/ AssessRisk(r)
           \/ RecordTransfer(r)
           \/ MarkPending(r)
    PROVE  Frame
BY DEF KeyIInv, Frame, PastKey, Pcs, Ended, EvaluatePolicies, Build, LimitExceeded,
       AssessRisk, RecordTransfer, MarkPending, Continue, Throw, RecordAttempt, UpdateLog,
       Refuse, Goto, LeavesServices, keyVars, nonceVars

\* So does reserving the nonce.
LEMMA NonceFrames ==
    ASSUME KeyIInv, NEW r \in Requests, ReserveNonce(r)
    PROVE  Frame
<1>1. backend' = backend
    BY DEF ReserveNonce, Nonce!ReadChainPendingNonce,
           Nonce!ReadChainPendingNonceFails, Nonce!ReserveInPg,
           Nonce!ReserveInMemory, Nonce!Return
<1> QED
    BY <1>1 DEF KeyIInv, Frame, PastKey, Pcs, Ended, ReserveNonce, Continue,
                Throw, ThrowLosing, Goto, keyVars, handlerVars

\* So do the three steps of the cleanup and a crash.
LEMMA CleanupFrames ==
    ASSUME KeyIInv, NEW r \in Requests,
           ReleaseNonce(r) \/ FailLog(r) \/ ReleaseKey(r) \/ Crash(r)
    PROVE  Frame
BY DEF KeyIInv, Frame, PastKey, Pcs, Ended, ReleaseNonce, FailLog, ReleaseKey,
       Crash, AfterNonce, GivesKeyBack, Continue, Swallow, UpdateLog, Goto,
       LeavesServices, keyVars, nonceVars, Idem!Release, Idem!Goto,
       Idem!Phases, Nonce!ReleaseNonceReservation, Nonce!UpdateById

\* So do the passing of time and the moves of the chain.
LEMMA EnvironmentFrames ==
    ASSUME KeyIInv, Tick \/ ChainMoves
    PROVE  Frame
BY DEF KeyIInv, Frame, Tick, Idem!Tick, ChainMoves, Nonce!ChainMoves, handlerVars,
       nonceVars, keyVars

\* So does a step that changes nothing.
LEMMA StutterFrames ==
    ASSUME KeyIInv, UNCHANGED vars
    PROVE  Frame
BY DEF KeyIInv, Frame, vars, keyVars, nonceVars, handlerVars

\* Reserving the key: only a call that has not begun gets a key, and it is no
\* accepted request.
LEMMA ReserveKeyKeeps ==
    ASSUME KeyIInv, NEW r \in Requests, ReserveKey(r)
    PROVE  KeyIInv' /\ Accepted' = Accepted
<1>1. queued' = queued /\ backend' = backend
    BY DEF ReserveKey, Continue, Throw, ThrowLosing, handlerVars, nonceVars
<1>2. \/ \E k \in Keys : /\ idemPc[r] = "idle"
                         /\ keyOf' = [keyOf EXCEPT ![r] = k]
                         /\ idemPc' = [idemPc EXCEPT ![r] = "create"]
      \/ /\ idemPc[r] # "idle"
         /\ keyOf' = keyOf
         /\ \E phase \in Idem!Phases \ {"idle"} :
               idemPc' = [idemPc EXCEPT ![r] = phase]
    <2>1. CASE \E k \in Keys : Idem!Begin(r, k)
        BY <2>1 DEF Idem!Begin, Idem!Goto
    <2>2. CASE Idem!Create(r) \/ Idem!Find(r) \/ Idem!Delete(r)
        BY <2>2 DEF Idem!Create, Idem!Find, Idem!Delete, Idem!Insert, Idem!Fails,
                    Idem!Goto, Idem!Phases, Idem!Working
    <2>3. CASE Idem!Recreate(r) \/ Idem!ReserveInMemory(r)
        BY <2>3 DEF Idem!Recreate, Idem!ReserveInMemory, Idem!Insert, Idem!Fails,
                    Idem!Goto, Idem!Phases, Idem!Working
    <2> QED BY <2>1, <2>2, <2>3 DEF ReserveKey
<1>3. \/ reqPc' = reqPc
      \/ reqPc' = [reqPc EXCEPT ![r] = "nonce"] /\ idemPc'[r] = "held"
      \/ reqPc' = [reqPc EXCEPT ![r] = "releaseNonce"]
    BY DEF ReserveKey, Continue, Throw, ThrowLosing, Goto, handlerVars
<1>4. KeyIInv'
    BY <1>1, <1>2, <1>3
    DEF KeyIInv, PastKey, Pcs, Ended, Idem!Phases, Idem!Working
<1>5. \A s \in queued : keyOf'[s] = keyOf[s]
    BY <1>2 DEF KeyIInv
<1> QED BY <1>1, <1>4, <1>5 DEF Accepted

\* Creating the intent: a step of AtMostOnce, or none.
LEMMA CreateIntentAccepts ==
    ASSUME KeyIInv, NEW r \in Requests, CreateIntent(r)
    PROVE  KeyIInv' /\ (Promise!Next \/ Accepted' = Accepted)
<1>1. reqPc[r] = "intent" /\ idemPc[r] # "idle" /\ keyOf[r] \in Keys
    BY DEF CreateIntent, KeyIInv, PastKey
<1>2. \/ /\ UNCHANGED <<queued, keyOf, idemPc>>
         /\ reqPc' = [reqPc EXCEPT ![r] = "releaseNonce"]
      \/ /\ ~IntentExists(keyOf[r])
         /\ queued' = queued \cup {r}
         /\ keyOf' = keyOf
         /\ idemPc' = idemPc \/ idemPc' = [idemPc EXCEPT ![r] = "kept"]
         /\ \/ reqPc' = [reqPc EXCEPT ![r] = "accepted"]
            \/ reqPc' = [reqPc EXCEPT ![r] = "releaseNonce"]
    BY DEF CreateIntent, Throw, ThrowLosing, Goto, Idem!Keep, Idem!Goto, keyVars
<1>3. KeyIInv' /\ backend' = backend
    BY <1>1, <1>2
    DEF CreateIntent, nonceVars, KeyIInv, PastKey, Pcs, Ended, Idem!Phases
<1>4. CASE UNCHANGED <<queued, keyOf>> \/ backend # "pg"
    BY <1>3, <1>4 DEF Accepted
<1>5. CASE /\ ~IntentExists(keyOf[r])
           /\ queued' = queued \cup {r}
           /\ keyOf' = keyOf
           /\ backend = "pg"
    <2>1. Accepted[keyOf[r]] = {}
        BY <1>1, <1>5 DEF Accepted, IntentExists
    <2>2. Accepted' = [Accepted EXCEPT ![keyOf[r]] = {r}]
        BY <1>1, <1>3, <1>5, <2>1 DEF Accepted, KeyIInv
    <2>3. Promise!Accept(keyOf[r], r)
        BY <2>1, <2>2 DEF Promise!Accept
    <2> QED BY <1>1, <1>3, <2>3 DEF Promise!Next
<1> QED BY <1>2, <1>4, <1>5

\* The invariant about keys holds initially.
LEMMA KeyInit == Init => KeyIInv
BY DEF Init, KeyIInv, PastKey, Pcs, Ended, Idem!Init, Idem!Phases, Idem!Working

\* Every step keeps the invariant and is a step of AtMostOnce or a stutter.
LEMMA NextAccepts ==
    ASSUME KeyIInv, [Next]_vars
    PROVE  KeyIInv' /\ (Promise!Next \/ Accepted' = Accepted)
<1>2. ASSUME Frame PROVE KeyIInv' /\ Accepted' = Accepted
    BY <1>2, FrameKeeps, FrameAccepted
<1>3. CASE UNCHANGED vars
    BY <1>2, <1>3, StutterFrames
<1>4. CASE Tick \/ ChainMoves
    BY <1>2, <1>4, EnvironmentFrames
<1>5. ASSUME NEW r \in Requests, Handler(r) \/ Crash(r)
      PROVE  KeyIInv' /\ (Promise!Next \/ Accepted' = Accepted)
    <2>1. CASE ReserveKey(r)
        BY <2>1, ReserveKeyKeeps
    <2>2. CASE CreateIntent(r)
        BY <2>2, CreateIntentAccepts
    <2>3. CASE ReserveNonce(r)
        BY <1>2, <2>3, NonceFrames
    <2>4. CASE ReleaseNonce(r) \/ FailLog(r) \/ ReleaseKey(r) \/ Crash(r)
        BY <1>2, <2>4, CleanupFrames
    <2>5. CASE \/ EvaluatePolicies(r) \/ Build(r) \/ LimitExceeded(r)
               \/ AssessRisk(r) \/ RecordTransfer(r) \/ MarkPending(r)
        BY <1>2, <2>5, CheckFrames
    <2> QED BY <1>5, <2>1, <2>2, <2>3, <2>4, <2>5 DEF Handler
<1> QED BY <1>3, <1>4, <1>5 DEF Next

\* With PostgreSQL the send route implements AtMostOnce: expired keys, keys deleted
\* by a slow holder and lost answers never make a second signing intent.
THEOREM SendImplementsAtMostOnce == Spec => AcceptsAtMostOnce
<1>1. Init => KeyIInv
    BY KeyInit
<1>2. Init => Promise!Init
    BY DEF Init, Promise!Init, Accepted
<1>3. KeyIInv /\ [Next]_vars => KeyIInv' /\ [Promise!Next]_Accepted
    BY NextAccepts
<1> QED BY <1>1, <1>2, <1>3, PTL DEF Spec, AcceptsAtMostOnce, Promise!Spec

(***************************************************************************)
(* The services the route uses.  Their proofs are instantiated: what they  *)
(* show of any calls holds of the calls the requests make.                 *)
(***************************************************************************)
NonceP == INSTANCE NonceReservationProofs WITH Calls <- Requests, ActionIds <- Traces

IdemP == INSTANCE IdempotencyKeyProofs WITH Calls <- Requests

\* The constants are as the services assume.
LEMMA NonceAssumed ==
    /\ None \notin Requests \cup Traces \cup TxHashes \cup Nat \cup NonceP!Errors
    /\ None \notin NonceP!Reservation \cup NonceP!Args
    /\ Requests \cap NonceP!Errors = {}
    /\ MaxNonce \in Nat
BY ServicesAssumption DEF NonceP!Errors, NonceP!Reservation, NonceP!Args, NonceP!Statuses,
   Nonce!Errors, Nonce!Reservation, Nonce!Args, Nonce!Statuses

\* The instance that has the proofs is the instance of the route.
LEMMA NonceInvariants == NonceP!IInv <=> Nonce!IInv
BY DEF NonceP!IInv, NonceP!TypeOK, NonceP!NextNonceAboveReserved,
   NonceP!NonceConflictUnreachable, NonceP!NoUnexplainedGap, NonceP!PendingReadsCovered,
   NonceP!RowsBelongToTheirCall, NonceP!OneRowPerAction, NonceP!OutcomesNameRows,
   NonceP!Rows, NonceP!RowsOfNonce, NonceP!Args, NonceP!Errors, NonceP!Reservation,
   NonceP!Statuses,
   Nonce!IInv, Nonce!TypeOK, Nonce!NextNonceAboveReserved,
   Nonce!NonceConflictUnreachable, Nonce!NoUnexplainedGap, Nonce!PendingReadsCovered,
   Nonce!RowsBelongToTheirCall, Nonce!OneRowPerAction, Nonce!OutcomesNameRows,
   Nonce!Rows, Nonce!RowsOfNonce, Nonce!Args, Nonce!Errors, Nonce!Reservation,
   Nonce!Statuses

LEMMA NonceSpecs == (NonceP!Init <=> Nonce!Init) /\ (NonceP!Next <=> Nonce!Next)
<1> USE DEF NonceP!Rows, NonceP!RowsOfAction, NonceP!RowsOfNonce, NonceP!Larger,
            NonceP!RollBack, NonceP!Return, NonceP!Holders,
            Nonce!Rows, Nonce!RowsOfAction, Nonce!RowsOfNonce, Nonce!Larger,
            Nonce!RollBack, Nonce!Return, Nonce!Holders
<1>1. NonceP!Init <=> Nonce!Init
    BY DEF NonceP!Init, Nonce!Init
<1>2. ASSUME NEW c \in Requests
      PROVE  /\ NonceP!ReserveInPg(c) <=> Nonce!ReserveInPg(c)
             /\ NonceP!ReserveInMemory(c) <=> Nonce!ReserveInMemory(c)
    <2> USE DEF NonceP!TooLow, NonceP!IsActionTaken, NonceP!NonceFor,
                NonceP!EffectiveNextNonce, NonceP!StoreReservation, NonceP!CounterAfter,
                Nonce!TooLow, Nonce!IsActionTaken, Nonce!NonceFor,
                Nonce!EffectiveNextNonce, Nonce!StoreReservation, Nonce!CounterAfter
    <2>1. NonceP!ReserveInPg(c) <=> Nonce!ReserveInPg(c)
        BY DEF NonceP!ReserveInPg, Nonce!ReserveInPg
    <2>2. NonceP!ReserveInMemory(c) <=> Nonce!ReserveInMemory(c)
        BY DEF NonceP!ReserveInMemory, Nonce!ReserveInMemory
    <2> QED BY <2>1, <2>2
<1>3. ASSUME NEW c \in Requests
      PROVE  /\ NonceP!ReadChainPendingNonceFails(c) <=> Nonce!ReadChainPendingNonceFails(c)
             /\ \A a, n, answer : NonceP!ReadChainPendingNonce(c, a, n, answer)
                                     <=> Nonce!ReadChainPendingNonce(c, a, n, answer)
    BY DEF NonceP!ReadChainPendingNonce, NonceP!AssertNonce,
           NonceP!ReadChainPendingNonceFails,
           Nonce!ReadChainPendingNonce, Nonce!AssertNonce,
           Nonce!ReadChainPendingNonceFails
<1>4. \A id, status, hash : NonceP!UpdateById(id, status, hash)
                               <=> Nonce!UpdateById(id, status, hash)
    BY DEF NonceP!UpdateById, NonceP!Updated, Nonce!UpdateById, Nonce!Updated
<1>5. \A hash, status : NonceP!UpdateByTxHash(hash, status)
                           <=> Nonce!UpdateByTxHash(hash, status)
    BY DEF NonceP!UpdateByTxHash, NonceP!Updated, Nonce!UpdateByTxHash, Nonce!Updated
<1>6. \A id \in Requests :
        /\ NonceP!Holders(id) = Nonce!Holders(id)
        /\ NonceP!ReleaseNonceReservation(id) <=> Nonce!ReleaseNonceReservation(id)
        /\ \A h \in TxHashes : NonceP!MarkNonceReservationSubmitted(id, h)
                                  <=> Nonce!MarkNonceReservationSubmitted(id, h)
        /\ NonceP!MarkNonceReservationFailed(id) <=> Nonce!MarkNonceReservationFailed(id)
    BY <1>4
    DEF NonceP!ReleaseNonceReservation, NonceP!MarkNonceReservationSubmitted,
        NonceP!MarkNonceReservationFailed, Nonce!ReleaseNonceReservation,
        Nonce!MarkNonceReservationSubmitted, Nonce!MarkNonceReservationFailed
<1>7. NonceP!ChainMoves <=> Nonce!ChainMoves
    BY DEF NonceP!ChainMoves, Nonce!ChainMoves
<1> HIDE DEF NonceP!Holders, Nonce!Holders
<1>8. NonceP!Next <=> Nonce!Next
    BY <1>2, <1>3, <1>5, <1>6, <1>7 DEF NonceP!Next, Nonce!Next
<1> QED BY <1>1, <1>8

\* So a step of the nonce service keeps its invariant.
LEMMA NonceKeeps == Nonce!IInv /\ [Nonce!Next]_nonceVars => Nonce!IInv'
<1>1. NonceP!IInv /\ [NonceP!Next]_nonceVars => NonceP!IInv'
    BY NonceP!NextPreserves, NonceAssumed DEF NonceP!nonceVars, nonceVars
<1>2. NonceP!IInv' <=> Nonce!IInv'
    BY NonceInvariants, PTL
<1> QED BY <1>1, <1>2, NonceInvariants, NonceSpecs

\* The same of the idempotency service.
LEMMA IdemAssumed ==
    /\ None \notin Requests \cup Keys \cup IdemP!Row
    /\ TTL \in Nat \ {0} /\ MaxTime \in Nat /\ MemoryCapacity \in Nat
    /\ PromptHolders \in BOOLEAN
BY ServicesAssumption DEF IdemP!Row, Idem!Row

LEMMA IdemSpecs ==
    /\ IdemP!Init <=> Idem!Init
    /\ IdemP!Next <=> Idem!Next
    /\ IdemP!IInv => Idem!TypeOK /\ Idem!RowsDescribeTheirCall
<1> USE DEF IdemP!Goto, Idem!Goto, IdemP!NewRow, Idem!NewRow, IdemP!Expired, Idem!Expired
<1>1. IdemP!Init <=> Idem!Init
    BY DEF IdemP!Init, Idem!Init
<1>2. IdemP!Tick <=> Idem!Tick
    BY DEF IdemP!Tick, Idem!Tick, IdemP!InProgress, Idem!InProgress,
           IdemP!Working, Idem!Working
<1>3. ASSUME NEW c \in Requests
      PROVE  IdemP!Step(c) <=> Idem!Step(c)
    <2>1. \A k \in Keys : IdemP!Begin(c, k) <=> Idem!Begin(c, k)
        BY DEF IdemP!Begin, Idem!Begin
    <2>2. IdemP!Create(c) <=> Idem!Create(c)
        BY DEF IdemP!Create, IdemP!Insert, IdemP!Fails, Idem!Create, Idem!Insert, Idem!Fails
    <2>3. IdemP!Find(c) <=> Idem!Find(c)
        BY DEF IdemP!Find, Idem!Find
    <2>4. IdemP!Delete(c) <=> Idem!Delete(c)
        BY DEF IdemP!Delete, IdemP!Fails, IdemP!IsFoundRow, Idem!Delete, Idem!Fails,
               Idem!IsFoundRow
    <2>5. IdemP!Recreate(c) <=> Idem!Recreate(c)
        BY DEF IdemP!Recreate, IdemP!Insert, IdemP!Fails, Idem!Recreate, Idem!Insert,
               Idem!Fails
    <2>6. IdemP!ReserveInMemory(c) <=> Idem!ReserveInMemory(c)
        BY DEF IdemP!ReserveInMemory, IdemP!Cardinality, Idem!ReserveInMemory,
               Idem!Cardinality
    <2>7. (IdemP!Release(c) <=> Idem!Release(c)) /\ (IdemP!Keep(c) <=> Idem!Keep(c))
        BY DEF IdemP!Release, Idem!Release, IdemP!Keep, Idem!Keep
    <2> QED BY <2>1, <2>2, <2>3, <2>4, <2>5, <2>6, <2>7 DEF IdemP!Step, Idem!Step
<1>4. IdemP!Next <=> Idem!Next
    BY <1>2, <1>3 DEF IdemP!Next, Idem!Next
<1>5. IdemP!IInv => Idem!TypeOK /\ Idem!RowsDescribeTheirCall
    BY DEF IdemP!IInv, IdemP!TypeOK, IdemP!Row, IdemP!Phases, IdemP!Working,
           IdemP!RowsDescribeTheirCall, Idem!TypeOK, Idem!Row, Idem!Phases, Idem!Working,
           Idem!RowsDescribeTheirCall
<1> QED BY <1>1, <1>4, <1>5

\* A step of the route is a step of each service, or leaves it alone.
LEMMA ServiceSteps ==
    ASSUME [Next]_vars
    PROVE  [Idem!Next]_keyVars /\ [Nonce!Next]_nonceVars
<1>1. CASE UNCHANGED vars
    BY <1>1 DEF vars
<1>2. CASE Tick \/ ChainMoves
    BY <1>2 DEF Tick, ChainMoves, Idem!Next, Nonce!Next
<1>3. ASSUME NEW r \in Requests, ReserveKey(r)
      PROVE  Idem!Next /\ UNCHANGED nonceVars
    BY <1>3 DEF ReserveKey, Idem!Next, Idem!Step
<1>4. ASSUME NEW r \in Requests, ReserveNonce(r)
      PROVE  UNCHANGED keyVars /\ Nonce!Next
    BY <1>4 DEF ReserveNonce, Nonce!Next, ActionId
<1>5. ASSUME NEW r \in Requests, CreateIntent(r)
      PROVE  [Idem!Next]_keyVars /\ UNCHANGED nonceVars
    BY <1>5 DEF CreateIntent, Idem!Next, Idem!Step
<1>6. ASSUME NEW r \in Requests, ReleaseNonce(r)
      PROVE  UNCHANGED keyVars /\ [Nonce!Next]_nonceVars
    BY <1>6 DEF ReleaseNonce, HasNonce, Nonce!Next, Nonce!Holders
<1>7. ASSUME NEW r \in Requests, ReleaseKey(r)
      PROVE  [Idem!Next]_keyVars /\ UNCHANGED nonceVars
    BY <1>7 DEF ReleaseKey, Idem!Next, Idem!Step
<1>8. ASSUME NEW r \in Requests,
             \/ EvaluatePolicies(r) \/ Build(r) \/ LimitExceeded(r) \/ AssessRisk(r)
             \/ RecordTransfer(r) \/ MarkPending(r) \/ FailLog(r) \/ Crash(r)
      PROVE  UNCHANGED <<keyVars, nonceVars>>
    BY <1>8 DEF EvaluatePolicies, Build, LimitExceeded, AssessRisk, RecordTransfer,
                MarkPending, FailLog, Crash, LeavesServices
<1> QED BY <1>1, <1>2, <1>3, <1>4, <1>5, <1>6, <1>7, <1>8 DEF Next, Handler

\* The route uses both services the way their modules say: what is proved of the
\* services by themselves holds of them in the route.
THEOREM SendUsesServices == Spec => Idem!Spec /\ Nonce!Spec
<1>1. Init => Idem!Init /\ Nonce!Init
    BY DEF Init
<1>2. [Next]_vars => [Idem!Next]_keyVars /\ [Nonce!Next]_nonceVars
    BY ServiceSteps
<1>3. Idem!idemVars = keyVars /\ Nonce!nonceVars = nonceVars
    BY DEF Idem!idemVars, keyVars, Nonce!nonceVars, nonceVars
<1>4. [Next]_vars => [Idem!Next]_Idem!idemVars /\ [Nonce!Next]_Nonce!nonceVars
    BY <1>2, <1>3 DEF Idem!idemVars, keyVars, Nonce!nonceVars, nonceVars
<1> QED BY <1>1, <1>4, PTL DEF Spec, Idem!Spec, Nonce!Spec

\* The steps that neither service sees.
LocalStep(r) ==
    \/ EvaluatePolicies(r) \/ Build(r) \/ LimitExceeded(r) \/ AssessRisk(r)
    \/ RecordTransfer(r) \/ MarkPending(r) \/ FailLog(r) \/ Crash(r)

\* What the handler does in each of its steps keeps the types.
LEMMA HandlerTypes ==
    ASSUME TypeOK, NEW r \in Requests, Handler(r) \/ Crash(r)
    PROVE  /\ reqPc' \in [Requests -> Pcs]
           /\ failure' \in [Requests -> Failures \cup {None}]
           /\ transferLog' \in [Requests -> LogStatuses \cup {None}]
           /\ queued' \subseteq Requests
           /\ spentToday' \in Nat
           /\ lost' \in [Requests -> SUBSET Resources]
<1> USE DEF TypeOK, Pcs, Ended, Failures, LogStatuses, Goto, Throw, ThrowLosing, Losing,
            Resources, Continue, RecordAttempt, UpdateLog, Refuse, Swallow, AfterNonce
<1>1. CASE LocalStep(r)
    BY <1>1 DEF LocalStep, EvaluatePolicies, Build, LimitExceeded, AssessRisk,
                RecordTransfer, MarkPending, FailLog, Crash
<1>2. CASE ReserveKey(r) \/ ReserveNonce(r)
    BY <1>2 DEF ReserveKey, ReserveNonce, handlerVars
<1>3. CASE CreateIntent(r) \/ ReleaseNonce(r) \/ ReleaseKey(r)
    BY <1>3 DEF CreateIntent, ReleaseNonce, ReleaseKey
<1> QED BY <1>1, <1>2, <1>3 DEF Handler, LocalStep

\* What the invariant says of each request.
Stages == KeyStage /\ NonceStage /\ LogStage /\ QueuedStage /\ OwnedIsReserved

\* What a step of the handler alone does: it concerns one request, loses at most the
\* answer of a log write, and ends as refused or cleaned up only without a log row.
LEMMA LocalEffect ==
    ASSUME TypeOK, LogStage, NEW r \in Requests, LocalStep(r)
    PROVE  /\ UNCHANGED <<keyVars, nonceVars, queued>>
           /\ \A s \in Requests : s # r =>
                 /\ reqPc'[s] = reqPc[s] /\ failure'[s] = failure[s]
                 /\ transferLog'[s] = transferLog[s] /\ lost'[s] = lost[s]
           /\ lost'[r] = lost[r] \/ lost'[r] = lost[r] \cup {"log"}
           /\ reqPc[r] # "accepted" /\ reqPc[r] # "refused"
           /\ reqPc'[r] \notin {"new", "nonce", "build", "accepted", "failLog"}
           /\ reqPc'[r] \in {"key", "refused"} => reqPc[r] = "new"
           /\ reqPc'[r] = "releaseKey" => reqPc[r] = "failLog"
           /\ reqPc'[r] \in Owning => reqPc[r] \in Owning
           /\ reqPc'[r] \in {"key", "limit", "risk", "record"} =>
                 reqPc[r] \in {"new", "build", "risk"} /\ transferLog'[r] = transferLog[r]
           /\ \/ reqPc'[r] \in {"refused", "releaseKey"}
              \/ reqPc'[r] = "releaseNonce" /\ failure'[r] = "denied"
              => transferLog'[r] \notin {"created", "pending_broadcast"} \/ "log" \in lost'[r]
<1>a. reqPc[r] \in {"new", "limit", "risk"} => transferLog[r] = None
    BY DEF LogStage, Unreserved
<1>b. None \notin {"created", "pending_broadcast"}
    BY ServicesAssumption DEF LogStatuses
<1> USE DEF TypeOK, Goto, Throw, Continue, Losing, RecordAttempt, LeavesServices, Owning
<1>1. CASE EvaluatePolicies(r) \/ Build(r)
    BY <1>1, <1>a, <1>b DEF EvaluatePolicies, Build, keyVars, nonceVars
<1>2. CASE LimitExceeded(r) \/ AssessRisk(r)
    BY <1>2, <1>a, <1>b DEF LimitExceeded, AssessRisk, Refuse, keyVars, nonceVars
<1>3. CASE RecordTransfer(r)
    BY <1>3 DEF RecordTransfer, keyVars, nonceVars
<1>4. CASE MarkPending(r)
    BY <1>4 DEF MarkPending, UpdateLog, keyVars, nonceVars
<1>5. CASE FailLog(r)
    BY <1>5 DEF FailLog, UpdateLog, Swallow, HasLog, keyVars, nonceVars
<1>6. CASE Crash(r)
    BY <1>6 DEF Crash, Ended, keyVars, nonceVars
<1> QED BY <1>1, <1>2, <1>3, <1>4, <1>5, <1>6 DEF LocalStep

\* The steps of the handler alone.
LEMMA LocalStages ==
    ASSUME SendIInv, NEW r \in Requests, LocalStep(r)
    PROVE  Stages'
<1> USE LocalEffect DEF SendIInv
<1>1. KeyStage'
    BY DEF KeyStage, Idem!Working, keyVars
<1>2. NonceStage'
    BY ServicesAssumption
    DEF NonceStage, HasNonce, Unreserved, Owning, nonceVars, Nonce!Rows
<1>3. LogStage'
    BY DEF LogStage, HasLog, Unreserved
<1>4. QueuedStage'
    BY DEF TypeOK, QueuedStage, HasNonce, nonceVars
<1>5. OwnedIsReserved'
    BY DEF OwnedIsReserved, Owning, nonceVars
<1> QED BY <1>1, <1>2, <1>3, <1>4, <1>5 DEF Stages

\* Reserving the key and giving it back.
LEMMA KeyStages ==
    ASSUME SendIInv, NEW r \in Requests, ReserveKey(r) \/ ReleaseKey(r)
    PROVE  Stages'
<1>1. CASE ReserveKey(r)
    <2>1. /\ reqPc[r] = "key" /\ UNCHANGED nonceVars
          /\ UNCHANGED <<transferLog, queued, spentToday>>
          /\ \A s \in Requests : s # r =>
                /\ reqPc'[s] = reqPc[s] /\ idemPc'[s] = idemPc[s]
                /\ failure'[s] = failure[s] /\ lost'[s] = lost[s]
          /\ lost'[r] = lost[r] \/ lost'[r] = lost[r] \cup {"key"}
          /\ idemPc'[r] # "kept" /\ (idemPc'[r] = "lost" => "key" \in lost'[r])
          /\ \/ reqPc'[r] = "key" /\ failure'[r] = failure[r]
             \/ reqPc'[r] = "nonce" /\ failure'[r] = failure[r]
             \/ reqPc'[r] = "releaseNonce" /\ failure'[r] \in {"replay", "error"}
          /\ reqPc'[r] = "key" => idemPc'[r] \in Idem!Working
        <3>1. idemPc'[r] \in Idem!Working \cup {"held", "lost", "replay", "error"}
              /\ \A s \in Requests : s # r => idemPc'[s] = idemPc[s]
            BY <1>1
            DEF SendIInv, TypeOK, Idem!TypeOK, ReserveKey, Idem!Begin, Idem!Create,
                Idem!Find, Idem!Delete, Idem!Recreate, Idem!ReserveInMemory,
                Idem!Insert, Idem!Fails, Idem!Goto, Idem!Working
        <3> QED
            BY <1>1, <3>1
            DEF SendIInv, TypeOK, ReserveKey, Continue, Throw, ThrowLosing, Losing, Goto,
                handlerVars, Idem!Working
    <2>2. KeyStage'
        BY <2>1 DEF SendIInv, KeyStage, Idem!Working
    <2>3. NonceStage'
        BY <2>1, ServicesAssumption
        DEF SendIInv, NonceStage, HasNonce, Nonce!Rows, Unreserved, Owning, nonceVars
    <2>4. LogStage'
        BY <2>1 DEF SendIInv, LogStage, HasLog, Unreserved
    <2>5. QueuedStage'
        BY <2>1 DEF SendIInv, TypeOK, QueuedStage, HasNonce, nonceVars
    <2>6. OwnedIsReserved'
        BY <2>1 DEF SendIInv, OwnedIsReserved, Owning, nonceVars
    <2> QED BY <2>2, <2>3, <2>4, <2>5, <2>6 DEF Stages
<1>2. CASE ReleaseKey(r)
    <2>1. /\ reqPc[r] = "releaseKey" /\ reqPc'[r] = "refused"
          /\ UNCHANGED <<nonceVars, failure, transferLog, queued>>
          /\ \A s \in Requests : s # r =>
                /\ reqPc'[s] = reqPc[s] /\ idemPc'[s] = idemPc[s] /\ lost'[s] = lost[s]
          /\ lost'[r] = lost[r] \/ lost'[r] = lost[r] \cup {"key"}
          /\ \/ idemPc'[r] = "released"
             \/ idemPc'[r] = idemPc[r] /\ (GivesKeyBack(r) => "key" \in lost'[r])
        BY <1>2 DEF SendIInv, TypeOK, Idem!TypeOK, ReleaseKey, Continue, Swallow, Losing,
                    Goto, Idem!Release, Idem!Goto, keyVars
    <2>2. KeyStage'
        BY <2>1 DEF SendIInv, KeyStage, GivesKeyBack, Idem!Working
    <2>3. NonceStage'
        BY <2>1 DEF SendIInv, NonceStage, HasNonce, Nonce!Rows, Unreserved, Owning, nonceVars
    <2>4. LogStage'
        BY <2>1 DEF SendIInv, LogStage, HasLog, Unreserved
    <2>5. QueuedStage'
        BY <2>1 DEF SendIInv, TypeOK, QueuedStage, HasNonce, nonceVars
    <2>6. OwnedIsReserved'
        BY <2>1 DEF SendIInv, OwnedIsReserved, Owning, nonceVars
    <2> QED BY <2>2, <2>3, <2>4, <2>5, <2>6 DEF Stages
<1> QED BY <1>1, <1>2

\* What reserving a nonce does: no row changes, a new one has a nonce of its own, and
\* it is reserved when nobody else has the trace.
NonceEffect(r) ==
    /\ \A s \in Requests : s # r => /\ outcome'[s] = outcome[s]
                                    /\ reservations'[s] = reservations[s]
    /\ \A c \in Nonce!Rows : reservations'[c] = reservations[c]
    /\ OneRowPerNonce' /\ TracesDiffer'
    /\ outcome'[r] \in Requests \cup Nonce!Errors \cup {None}
    /\ DistinctTraces /\ outcome'[r] \in Requests
          => reservations'[outcome'[r]].status = "RESERVED"

\* A call that returns an error, or the row of an earlier call of its trace.
LEMMA ReturnEffect ==
    ASSUME SendIInv, NEW r \in Requests, NEW result \in Requests \cup Nonce!Errors,
           Nonce!RollBack, Nonce!Return(r, result), DistinctTraces => result \notin Requests
    PROVE  NonceEffect(r)
BY DEF NonceEffect, Nonce!RollBack, Nonce!Return, SendIInv, OneRowPerNonce, Nonce!Rows,
       TracesDiffer, TypeOK, Nonce!TypeOK

\* The reading of the pending nonce.
LEMMA ReadEffect ==
    ASSUME SendIInv, NEW r \in Requests, reqPc[r] = "nonce", NEW t \in Traces,
           NEW n \in (0..MaxNonce) \cup {None}, FreshTrace(r, t),
           Nonce!ReadChainPendingNonce(r, t, n, chainPending)
    PROVE  NonceEffect(r)
<1>1. /\ UNCHANGED <<reservations, outcome>>
      /\ args' = [args EXCEPT ![r] = [actionId |-> t, requestedNonce |-> n]]
    BY DEF Nonce!ReadChainPendingNonce
<1>2. OneRowPerNonce'
    BY <1>1 DEF SendIInv, OneRowPerNonce, Nonce!Rows
<1>3. TracesDiffer'
    BY <1>1 DEF SendIInv, TypeOK, TracesDiffer, FreshTrace, Nonce!TypeOK
<1>4. outcome[r] = None
    BY DEF SendIInv, NonceStage, Unreserved
<1> QED BY <1>1, <1>2, <1>3, <1>4, ServicesAssumption DEF NonceEffect

\* The transaction that creates a row.
LEMMA StoreEffect ==
    ASSUME SendIInv, NEW r \in Requests, r \notin Nonce!Rows,
           Nonce!RowsOfNonce(Nonce!NonceFor(r)) = {},
           NEW result \in {r, "DATABASE_ERROR"},
           Nonce!StoreReservation(r), Nonce!Return(r, result)
    PROVE  NonceEffect(r)
<1> DEFINE n == Nonce!NonceFor(r)
           row == [nonce |-> n, actionId |-> args[r].actionId,
                   status |-> "RESERVED", txHash |-> None]
<1>1. reservations' = [reservations EXCEPT ![r] = row]
    BY DEF Nonce!StoreReservation
<1>2. /\ outcome' = [outcome EXCEPT ![r] = result] /\ args' = args
      /\ result \in Requests \cup Nonce!Errors
      /\ result \in Requests => result = r
    BY ServicesAssumption DEF Nonce!Return, Nonce!Errors
<1>3. \A c \in Nonce!Rows : reservations[c].nonce # n
    BY DEF Nonce!RowsOfNonce
<1>4. row.nonce = n /\ row.status = "RESERVED"
    OBVIOUS
<1> HIDE DEF row, n
<1>5. Nonce!TypeOK
    BY DEF SendIInv, TypeOK
<1>6. /\ Nonce!Rows' \subseteq Nonce!Rows \cup {r}
      /\ \A c \in Requests : c # r => reservations'[c] = reservations[c]
      /\ \A c \in Nonce!Rows : reservations'[c] = reservations[c]
      /\ reservations'[r] = row
    BY <1>1, <1>5 DEF Nonce!Rows, Nonce!TypeOK
<1>7. OneRowPerNonce'
    BY <1>3, <1>4, <1>6 DEF SendIInv, OneRowPerNonce
<1>8. TracesDiffer'
    BY <1>2 DEF SendIInv, TracesDiffer
<1> QED BY <1>2, <1>4, <1>5, <1>6, <1>7, <1>8 DEF NonceEffect, Nonce!TypeOK

\* Every way to reserve a nonce.
LEMMA ReserveNonceEffect ==
    ASSUME SendIInv, NEW r \in Requests, ReserveNonce(r)
    PROVE  NonceEffect(r)
<1>1. reqPc[r] = "nonce"
    BY DEF ReserveNonce
<1>2. CASE \E t \in Traces, n \in (0..MaxNonce) \cup {None} :
             /\ FreshTrace(r, t)
             /\ Nonce!ReadChainPendingNonce(r, ActionId(r, t), n, chainPending)
    BY <1>1, <1>2, ReadEffect DEF ActionId
<1>3. \A error \in Nonce!Errors :
          Nonce!RollBack /\ Nonce!Return(r, error) => NonceEffect(r)
    BY ReturnEffect, ServicesAssumption
<1>4. CASE Nonce!ReadChainPendingNonceFails(r)
    BY <1>3, <1>4 DEF Nonce!ReadChainPendingNonceFails, Nonce!RollBack, Nonce!Errors
<1>5. CASE Nonce!ReserveInPg(r) \/ Nonce!ReserveInMemory(r)
    <2>1. callPc[r] = "read"
        BY <1>5 DEF Nonce!ReserveInPg, Nonce!ReserveInMemory
    <2>2. r \notin Nonce!Rows /\ args[r] # None
        BY <2>1, ServicesAssumption
        DEF SendIInv, Nonce!IInv, Nonce!RowsBelongToTheirCall, Nonce!TypeOK
    <2>3. ASSUME NEW existing \in Nonce!RowsOfAction(args[r].actionId),
                 Nonce!RollBack, Nonce!Return(r, existing)
          PROVE  NonceEffect(r)
        <3>1. existing \in Nonce!Rows /\ existing # r
              /\ reservations[existing].actionId = args[r].actionId
            BY <2>2 DEF Nonce!RowsOfAction
        <3>2. args[existing] # None /\ args[existing].actionId = args[r].actionId
              /\ existing \in Requests
            BY <3>1, ServicesAssumption
            DEF SendIInv, Nonce!IInv, Nonce!RowsBelongToTheirCall, Nonce!Rows
        <3>3. ~DistinctTraces
            BY <2>2, <3>1, <3>2 DEF SendIInv, TracesDiffer
        <3> QED BY <2>3, <3>2, <3>3, ReturnEffect
    <2>4. CASE /\ Nonce!RowsOfNonce(Nonce!NonceFor(r)) = {}
               /\ Nonce!StoreReservation(r)
               /\ Nonce!Return(r, r) \/ Nonce!Return(r, "DATABASE_ERROR")
        BY <2>2, <2>4, StoreEffect
    <2>5. CASE /\ Nonce!RollBack
               /\ \/ Nonce!Return(r, "NONCE_TOO_LOW")
                  \/ Nonce!Return(r, "NONCE_ALREADY_RESERVED")
                  \/ Nonce!Return(r, "DATABASE_ERROR")
        BY <1>3, <2>5 DEF Nonce!Errors
    <2> QED BY <1>5, <2>3, <2>4, <2>5 DEF Nonce!ReserveInPg, Nonce!ReserveInMemory
<1> QED BY <1>2, <1>4, <1>5 DEF ReserveNonce

\* So the handler goes on with a reserved row, or into its cleanup.
LEMMA NonceStages ==
    ASSUME SendIInv, Nonce!IInv', NEW r \in Requests, ReserveNonce(r)
    PROVE  Stages' /\ OneRowPerNonce' /\ TracesDiffer'
<1>1. NonceEffect(r)
    BY ReserveNonceEffect
<1>2. reqPc[r] = "nonce" /\ UNCHANGED keyVars
      /\ UNCHANGED <<transferLog, queued, spentToday>>
    BY DEF ReserveNonce, Continue, Throw, ThrowLosing, handlerVars
<1>3. /\ \A s \in Requests : s # r => /\ reqPc'[s] = reqPc[s] /\ failure'[s] = failure[s]
                                      /\ lost'[s] = lost[s]
      /\ \/ lost'[r] = lost[r]
            /\ (outcome'[r] \in Requests \/ outcome'[r] = None \/ reservations'[r] = None)
         \/ lost'[r] = lost[r] \cup {"nonce"}
      /\ \/ reqPc'[r] = "nonce" /\ outcome'[r] = None
         \/ reqPc'[r] = "build" /\ outcome'[r] \in Requests
         \/ reqPc'[r] = "releaseNonce" /\ failure'[r] = "error"
    BY DEF ReserveNonce, Continue, Throw, ThrowLosing, Losing, Goto, handlerVars,
           SendIInv, TypeOK
<1>4. \A s \in Requests : s # r /\ HasNonce(s) =>
          reservations'[outcome'[s]] = reservations[outcome[s]]
    BY <1>1 DEF NonceEffect, SendIInv, Nonce!IInv, Nonce!OutcomesNameRows, HasNonce
<1>5. KeyStage'
    BY <1>2, <1>3 DEF SendIInv, KeyStage, keyVars
<1>6. NonceStage'
    <2>1. r \in Nonce!Rows' => outcome'[r] # None
        BY ServicesAssumption DEF Nonce!IInv, Nonce!RowsBelongToTheirCall, Nonce!Errors
    <2>2. (r \in Nonce!Rows /\ ~HasNonce(r) => "nonce" \in lost[r])'
        BY <2>1, <1>3 DEF HasNonce, Nonce!Rows
    <2>3. \A s \in Requests : s # r =>
              (s \in Nonce!Rows /\ ~HasNonce(s) => "nonce" \in lost[s])'
        BY <1>1, <1>3 DEF SendIInv, NonceStage, NonceEffect, HasNonce, Nonce!Rows
    <2> QED
        BY <2>2, <2>3, <1>1, <1>2, <1>3, <1>4, ServicesAssumption
        DEF SendIInv, NonceStage, HasNonce, Unreserved, Owning, NonceEffect
<1>7. LogStage'
    BY <1>2, <1>3 DEF SendIInv, LogStage, HasLog, Unreserved
<1>8. QueuedStage'
    BY <1>1, <1>2, <1>3, ServicesAssumption
    DEF SendIInv, TypeOK, QueuedStage, HasNonce, NonceEffect, NonceStage, Unreserved
<1>9. OwnedIsReserved'
    BY <1>1, <1>2, <1>3, <1>4
    DEF SendIInv, OwnedIsReserved, Owning, NonceEffect, NonceStage
<1> QED BY <1>1, <1>5, <1>6, <1>7, <1>8, <1>9 DEF Stages, NonceEffect

\* Creating the intent: a request that is queued has its nonce, and goes on only
\* when it does not know.
LEMMA IntentStages ==
    ASSUME SendIInv, NEW r \in Requests, CreateIntent(r)
    PROVE  Stages'
<1>1. /\ reqPc[r] = "intent" /\ UNCHANGED <<nonceVars, transferLog>>
      /\ \A s \in Requests : s # r => /\ reqPc'[s] = reqPc[s] /\ failure'[s] = failure[s]
                                      /\ idemPc'[s] = idemPc[s] /\ lost'[s] = lost[s]
      /\ idemPc'[r] = idemPc[r] \/ (idemPc'[r] = "kept" /\ reqPc'[r] = "accepted")
      /\ \/ /\ reqPc'[r] = "accepted" /\ queued' = queued \cup {r} /\ lost' = lost
         \/ /\ reqPc'[r] = "releaseNonce" /\ failure'[r] \in {"replay", "error"}
            /\ \/ queued' = queued /\ lost' = lost
               \/ queued' = queued \cup {r} /\ lost'[r] = lost[r] \cup {"intent"}
    BY DEF CreateIntent, Throw, ThrowLosing, Losing, Goto, Idem!Keep, Idem!Goto, SendIInv, TypeOK,
           Idem!TypeOK, keyVars
<1>2. HasNonce(r)
    BY <1>1 DEF SendIInv, NonceStage, Owning
<1>3. KeyStage'
    BY <1>1 DEF SendIInv, KeyStage
<1>4. NonceStage' /\ OwnedIsReserved'
    BY <1>1, <1>2
    DEF SendIInv, NonceStage, OwnedIsReserved, HasNonce, Nonce!Rows, Unreserved, Owning,
        nonceVars
<1>5. LogStage'
    BY <1>1 DEF SendIInv, LogStage, HasLog, Unreserved
<1>6. QueuedStage'
    BY <1>1, <1>2 DEF SendIInv, TypeOK, QueuedStage, HasNonce, nonceVars
<1> QED BY <1>3, <1>4, <1>5, <1>6 DEF Stages

\* Releasing the nonce: without shared traces it is the row of nobody else.
LEMMA ReleaseStages ==
    ASSUME SendIInv, NEW r \in Requests, ReleaseNonce(r)
    PROVE  Stages' /\ OneRowPerNonce' /\ TracesDiffer'
<1>1. /\ reqPc[r] = "releaseNonce"
      /\ UNCHANGED <<keyVars, outcome, args, failure, transferLog, queued>>
      /\ \A s \in Requests : s # r => reqPc'[s] = reqPc[s] /\ lost'[s] = lost[s]
      /\ reqPc'[r] = (IF failure[r] = "denied" THEN "releaseKey" ELSE "failLog")
      /\ lost'[r] = lost[r] \/ lost'[r] = lost[r] \cup {"nonce"}
    BY DEF ReleaseNonce, Continue, Swallow, Losing, Goto, AfterNonce, nonceVars,
           SendIInv, TypeOK, Nonce!ReleaseNonceReservation, Nonce!UpdateById
<1>2. \A s \in Requests : HasNonce(s) => reservations[outcome[s]] \in Nonce!Reservation
    BY DEF SendIInv, TypeOK, Nonce!TypeOK, Nonce!IInv, Nonce!OutcomesNameRows,
           Nonce!Rows, HasNonce
<1>3. \/ UNCHANGED reservations /\ (HasNonce(r) => "nonce" \in lost'[r])
      \/ /\ HasNonce(r)
         /\ reservations' = [reservations EXCEPT ![outcome[r]] =
                                Nonce!Updated(reservations[outcome[r]], "RELEASED", None)]
    BY DEF ReleaseNonce, Continue, Swallow, Losing, SendIInv, TypeOK, nonceVars,
           Nonce!ReleaseNonceReservation, Nonce!UpdateById
<1>4. /\ \A c \in Requests : c \in Nonce!Rows <=> c \in Nonce!Rows'
      /\ \A c \in Nonce!Rows : reservations'[c].nonce = reservations[c].nonce
      /\ \A c \in Requests :
            \/ reservations'[c] = reservations[c]
            \/ c = outcome[r] /\ HasNonce(r) /\ reservations'[c].status = "RELEASED"
      /\ HasNonce(r) => \/ reservations'[outcome[r]].status = "RELEASED"
                        \/ "nonce" \in lost'[r]
    <2> DEFINE row == Nonce!Updated(reservations[outcome[r]], "RELEASED", None)
    <2>1. HasNonce(r) => /\ row.status = "RELEASED"
                         /\ row.nonce = reservations[outcome[r]].nonce
                         /\ row # None /\ outcome[r] \in Nonce!Rows
        <3>1. HasNonce(r) => row \in Nonce!Reservation
            BY <1>2 DEF Nonce!Updated, Nonce!Reservation, Nonce!Statuses
        <3> QED
            BY <3>1, <1>2, ServicesAssumption
            DEF Nonce!Updated, SendIInv, Nonce!IInv, Nonce!OutcomesNameRows, HasNonce
    <2>2. \/ UNCHANGED reservations /\ (HasNonce(r) => "nonce" \in lost'[r])
          \/ HasNonce(r) /\ reservations' = [reservations EXCEPT ![outcome[r]] = row]
        BY <1>3
    <2> HIDE DEF row
    <2> QED BY <2>1, <2>2 DEF SendIInv, TypeOK, Nonce!TypeOK, Nonce!Rows, HasNonce
<1>5. KeyStage'
    BY <1>1 DEF SendIInv, TypeOK, KeyStage, keyVars
<1>6. NonceStage'
    BY <1>1, <1>4 DEF SendIInv, TypeOK, NonceStage, HasNonce, Unreserved, Owning
<1>7. LogStage'
    BY <1>1 DEF SendIInv, TypeOK, LogStage, HasLog, Unreserved
<1>8. QueuedStage'
    BY <1>1 DEF SendIInv, TypeOK, QueuedStage, HasNonce
<1>9. OwnedIsReserved'
    <2> SUFFICES ASSUME DistinctTraces, NEW s \in Requests, reqPc'[s] \in Owning
                 PROVE  reservations'[outcome[s]].status = "RESERVED"
        BY <1>1 DEF OwnedIsReserved
    <2>1. s # r /\ reqPc[s] \in Owning /\ HasNonce(s)
        BY <1>1 DEF SendIInv, TypeOK, Owning, NonceStage
    <2>2. HasNonce(r) => outcome[s] # outcome[r]
        BY <2>1, ServicesAssumption
        DEF SendIInv, Nonce!IInv, Nonce!OutcomesNameRows, HasNonce, TracesDiffer
    <2> QED BY <1>4, <2>1, <2>2 DEF SendIInv, OwnedIsReserved, HasNonce
<1>10. OneRowPerNonce'
    BY <1>4 DEF SendIInv, OneRowPerNonce, Nonce!Rows
<1>11. TracesDiffer'
    BY <1>1 DEF SendIInv, TracesDiffer
<1> QED BY <1>5, <1>6, <1>7, <1>8, <1>9, <1>10, <1>11 DEF Stages

\* The invariant holds initially, when nothing was asked of the services.
LEMMA SendInit == Init => SendIInv
<1> SUFFICES ASSUME Init PROVE SendIInv
    OBVIOUS
<1>1. Nonce!IInv
    BY NonceP!InitEstablishes, NonceAssumed, NonceInvariants, NonceSpecs DEF Init
<1>2. TypeOK
    BY <1>1, SendAssumption, IdemP!InitEstablishes, IdemAssumed, IdemSpecs
    DEF Init, TypeOK, Nonce!IInv, Pcs
<1>3. KeyStage /\ NonceStage /\ LogStage /\ QueuedStage
    BY SendAssumption
    DEF Init, KeyStage, NonceStage, LogStage, QueuedStage, HasLog, Unreserved, Owning,
        Idem!Init, Nonce!Init, Nonce!Rows, Idem!Working
<1>4. OneRowPerNonce /\ TracesDiffer /\ OwnedIsReserved
    BY DEF Init, OneRowPerNonce, TracesDiffer, OwnedIsReserved, Owning, Nonce!Init,
           Nonce!Rows
<1> QED BY <1>1, <1>2, <1>3, <1>4 DEF SendIInv

\* Every step keeps it: a service keeps its own invariant, and a step of a request
\* keeps what holds of the others.
LEMMA SendNext == SendIInv /\ Idem!TypeOK' /\ [Next]_vars => SendIInv'
<1> SUFFICES ASSUME SendIInv, Idem!TypeOK', [Next]_vars PROVE SendIInv'
    OBVIOUS
<1>1. Nonce!IInv' /\ Nonce!TypeOK'
    <2>1. Nonce!IInv'
        BY ServiceSteps, NonceKeeps DEF SendIInv
    <2> QED BY <2>1 DEF Nonce!IInv
<1>2. SUFFICES /\ OneRowPerNonce' /\ TracesDiffer' /\ Stages'
               /\ reqPc' \in [Requests -> Pcs]
               /\ failure' \in [Requests -> Failures \cup {None}]
               /\ transferLog' \in [Requests -> LogStatuses \cup {None}]
               /\ queued' \subseteq Requests
               /\ spentToday' \in Nat
               /\ lost' \in [Requests -> SUBSET Resources]
    BY <1>1 DEF SendIInv, TypeOK, Stages
<1>3. ASSUME UNCHANGED nonceVars PROVE OneRowPerNonce' /\ TracesDiffer'
    BY <1>3 DEF SendIInv, OneRowPerNonce, TracesDiffer, Nonce!Rows, nonceVars
<1>4. ASSUME NEW r \in Requests, Handler(r) \/ Crash(r)
      PROVE  OneRowPerNonce' /\ TracesDiffer' /\ Stages'
    <2>1. CASE LocalStep(r)
        BY <1>3, <2>1, LocalStages
        DEF LocalStep, EvaluatePolicies, Build, LimitExceeded, AssessRisk,
            RecordTransfer, MarkPending, FailLog, Crash, LeavesServices
    <2>2. CASE ReserveKey(r) \/ ReleaseKey(r)
        BY <1>3, <2>2, KeyStages DEF ReserveKey, ReleaseKey
    <2>3. CASE ReserveNonce(r)
        BY <2>3, <1>1, NonceStages
    <2>4. CASE CreateIntent(r)
        BY <1>3, <2>4, IntentStages DEF CreateIntent
    <2>5. CASE ReleaseNonce(r)
        BY <2>5, ReleaseStages
    <2> QED BY <1>4, <2>1, <2>2, <2>3, <2>4, <2>5 DEF Handler, LocalStep
<1>5. CASE UNCHANGED vars \/ Tick \/ ChainMoves
    <2>1. UNCHANGED <<reservations, outcome, args, handlerVars, idemPc>>
        BY <1>5 DEF Tick, Idem!Tick, ChainMoves, Nonce!ChainMoves, vars, keyVars, nonceVars
    <2>2. Stages'
        BY <2>1 DEF SendIInv, Stages, KeyStage, NonceStage, LogStage, QueuedStage,
                    OwnedIsReserved, HasNonce, HasLog, Nonce!Rows, handlerVars
    <2>3. OneRowPerNonce' /\ TracesDiffer'
        BY <2>1 DEF SendIInv, OneRowPerNonce, TracesDiffer, Nonce!Rows
    <2> QED BY <2>1, <2>2, <2>3 DEF SendIInv, TypeOK, handlerVars
<1> QED BY <1>4, <1>5, HandlerTypes DEF Next, SendIInv

\* What is proved of the idempotency service, of the keys of the route.
LEMMA KeysDescribed == Spec => [](Idem!TypeOK /\ Idem!RowsDescribeTheirCall)
<1>1. IdemP!Init /\ [][IdemP!Next]_(IdemP!idemVars) => []IdemP!IInv
    BY IdemP!InvariantHolds, IdemAssumed DEF IdemP!Spec
<1>2. [Idem!Next]_(Idem!idemVars) => [IdemP!Next]_(IdemP!idemVars)
    BY IdemSpecs DEF Idem!idemVars, IdemP!idemVars
<1> QED BY <1>1, <1>2, IdemSpecs, SendUsesServices, PTL DEF Idem!Spec

\* The invariant of the route holds in every reachable state.
THEOREM SendInvariantHolds == Spec => []SendIInv
<1>1. SendIInv /\ Idem!TypeOK' /\ [Next]_vars => SendIInv'
    BY SendNext
<1> QED BY <1>1, SendInit, KeysDescribed, PTL DEF Spec

\* Every variable keeps its type.
THEOREM TypeCorrect == Spec => []TypeOK
<1>1. SendIInv => TypeOK
    BY DEF SendIInv
<1> QED BY <1>1, SendInvariantHolds, PTL

\* A queued intent signs with a reserved nonce of its own when no two clients
\* send one trace: the cleanup of a request never touches the nonce of another.
THEOREM NoncesAreOwned ==
    ASSUME DistinctTraces
    PROVE  Spec => []IntentOwnsItsNonce
<1>1. SendIInv => IntentOwnsItsNonce
    <2> SUFFICES ASSUME SendIInv PROVE IntentOwnsItsNonce
        OBVIOUS
    <2>1. ASSUME NEW r \in queued, "intent" \notin lost[r]
          PROVE  HasNonce(r) /\ reservations[outcome[r]].status = "RESERVED"
        BY <2>1 DEF SendIInv, TypeOK, QueuedStage, OwnedIsReserved, Owning
    <2>2. ASSUME NEW r \in queued, NEW s \in queued, r # s
          PROVE  reservations[outcome[r]].nonce # reservations[outcome[s]].nonce
        <3>1. /\ outcome[r] \in Nonce!Rows /\ outcome[s] \in Nonce!Rows
              /\ outcome[r] # outcome[s]
            BY <2>2, ServicesAssumption
            DEF SendIInv, TypeOK, QueuedStage, HasNonce, Nonce!IInv,
                Nonce!OutcomesNameRows, TracesDiffer
        <3> QED BY <3>1 DEF SendIInv, OneRowPerNonce
    <2> QED BY <2>1, <2>2 DEF IntentOwnsItsNonce
<1> QED BY <1>1, SendInvariantHolds, PTL

\* What a refused request leaves open is at most what its own lost or failed calls
\* account for: of the key, the nonce, the log row and the intent, whatever other
\* requests do, for any number of requests and whichever calls fail.
THEOREM RefusalsCleanUp == Spec => []RefusedLeavesNothing
<1>1. SendIInv /\ Idem!TypeOK /\ Idem!RowsDescribeTheirCall => RefusedLeavesNothing
    <2> SUFFICES ASSUME SendIInv, Idem!TypeOK, Idem!RowsDescribeTheirCall,
                        NEW r \in Requests, reqPc[r] = "refused"
                 PROVE  LeftOpen(r) \subseteq lost[r]
        BY DEF RefusedLeavesNothing
    <2>1. KeyRowOf(r) /\ failure[r] # "replay" => "key" \in lost[r]
        BY DEF SendIInv, KeyStage, KeyRowOf, Idem!RowsDescribeTheirCall
    <2>2. ASSUME NEW c \in {r, outcome[r]} \cap Nonce!Rows,
                 reservations[c].status # "RELEASED"
          PROVE  "nonce" \in lost[r]
        <3>1. CASE c = outcome[r]
            BY <2>2, <3>1 DEF SendIInv, NonceStage, HasNonce, Nonce!Rows
        <3>2. CASE c = r /\ c # outcome[r]
            BY <2>2, <3>2, ServicesAssumption
            DEF SendIInv, NonceStage, HasNonce, Nonce!IInv, Nonce!RowsBelongToTheirCall,
                Nonce!Errors
        <3> QED BY <2>2, <3>1, <3>2
    <2>3. transferLog[r] \in {"created", "pending_broadcast"} => "log" \in lost[r]
        BY DEF SendIInv, LogStage, HasLog
    <2>4. r \in queued => "intent" \in lost[r]
        BY DEF SendIInv, QueuedStage
    <2> QED BY <2>1, <2>2, <2>3, <2>4 DEF LeftOpen
<1> QED BY <1>1, SendInvariantHolds, KeysDescribed, PTL
=============================================================================

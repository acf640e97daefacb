--------------------------- MODULE XrplIssuerProofs ---------------------------
(***************************************************************************)
(* Proofs about XrplIssuer, for any number of requests, holders and keys,  *)
(* any of the routes and any sharing of their accounts: no repetition      *)
(* applies a transaction twice, what the tables call validated was         *)
(* applied, and while no key expires its requests are an AtMostOnce.       *)
(***************************************************************************)
EXTENDS XrplIssuer, FiniteSetTheorems, TLAPS

Unprepared == {"new", "distribution", "risk", "reserve", "prepare"}

Unreserving == Unprepared \ {"prepare"}

Recording == {"recordAction", "recordTx", "recordDist", "markHolder", "activate"}

Steps == Unprepared \cup Recording \cup {"submit", "wait", "done"}

RequestType ==
    [step : Steps, kind : Kinds, to : Holders, key : XrplKeys \cup {NoKey}, seq : Nat,
     attempts : Nat, result : {"none", "tes", "tec"}]

AppliedType == [by : Requests, seq : Nat, result : {"tes", "tec"}]

Statuses == {"none", "queued", "denied", "review", "failed", "validated"}

\* The applied transactions of an account.
LedgerOf(account) == {t \in ledger : AccountOf(req[t.by].kind) = account}

\* The types the other parts rest on.
TypesHold ==
    /\ req \in [Requests -> RequestType]
    /\ reservedBy \in [XrplKeys -> SUBSET Requests]
    /\ pool \subseteq Requests
    /\ ledger \subseteq AppliedType /\ IsFiniteSet(ledger)
    /\ action \in [Requests -> Statuses]
    /\ dist \in [Requests -> Statuses]
    /\ txRow \in [Requests -> Statuses]
    /\ limitBy \subseteq Requests

\* Nothing is submitted before it is prepared.
UnpreparedIsUnknown ==
    \A r \in Requests : req[r].step \in Unprepared =>
        r \notin pool /\ \A t \in ledger : t.by # r

\* The ledger has applied what a request was prepared with, and its account's
\* next sequence is beyond it.
LedgerIsBehind ==
    \A t \in ledger :
        /\ t.seq = req[t.by].seq
        /\ t.seq <= Cardinality(LedgerOf(AccountOf(req[t.by].kind)))

AppliedOnce == \A t, u \in ledger : t.by = u.by => t = u

\* One request holds a key for a kind, from when it reserved it.
HolderIsAlone ==
    \A k \in XrplKeys :
        /\ \A r \in reservedBy[k] : req[r].step \notin Unreserving
        /\ \A r, q \in reservedBy[k] : req[r].kind = req[q].kind => r = q

\* A request records what the ledger has applied.
RecordingWasApplied ==
    \A r \in Requests : req[r].step \in Recording => \E t \in ledger : t.by = r

XrplInv ==
    /\ TypesHold /\ UnpreparedIsUnknown /\ LedgerIsBehind /\ AppliedOnce
    /\ HolderIsAlone /\ RecordingWasApplied /\ ValidatedWasApplied

---------------------------------------------------------------------------
\* Where a route goes first and last.
LEMMA RouteType ==
    ASSUME NEW kind \in Kinds
    PROVE  /\ Routes[kind].first \in {"risk", "distribution"}
           /\ Routes[kind].last \in {"done", "markHolder", "recordDist", "activate"}
  BY XrplKinds DEF Routes, Plain, AccountSet, AuthorizeTrustline, IssuerPayment, TrustlineSet,
     SwapPayment, OfferCreate, OfferCancel, NftMint, NftOfferCreate, NftOfferAccept,
     NftOfferCancel

\* The initial states satisfy the invariant.
LEMMA InitEstablishes == XrplInit => XrplInv
<1> SUFFICES ASSUME XrplInit PROVE XrplInv
  OBVIOUS
<1>1. NewRequest \in RequestType
  BY XrplBounds, XrplKinds DEF NewRequest, RequestType, Steps, Unprepared
<1>2. req \in [Requests -> RequestType]
  BY <1>1 DEF XrplInit
<1>3. /\ reservedBy \in [XrplKeys -> SUBSET Requests]
      /\ pool \subseteq Requests /\ ledger \subseteq AppliedType
  BY DEF XrplInit
<1>4. IsFiniteSet(ledger)
  BY FS_EmptySet DEF XrplInit
<1>5. /\ action \in [Requests -> Statuses] /\ dist \in [Requests -> Statuses]
      /\ txRow \in [Requests -> Statuses] /\ limitBy \subseteq Requests
  BY DEF XrplInit, Statuses
<1>6. TypesHold
  BY <1>2, <1>3, <1>4, <1>5 DEF TypesHold
<1>7. UnpreparedIsUnknown /\ LedgerIsBehind /\ AppliedOnce
  BY DEF XrplInit, UnpreparedIsUnknown, LedgerIsBehind, AppliedOnce
<1>8. HolderIsAlone
  BY DEF XrplInit, HolderIsAlone
<1>9. RecordingWasApplied
  BY DEF XrplInit, RecordingWasApplied, NewRequest, Recording
<1>10. ValidatedWasApplied
  BY DEF XrplInit, ValidatedWasApplied
<1> QED
  BY <1>6, <1>7, <1>8, <1>9, <1>10 DEF XrplInv

\* What a write leaves of a table of statuses.
LEMMA WriteKeeps ==
    ASSUME NEW rows \in [Requests -> Statuses], NEW r \in Requests, NEW status \in Statuses,
           NEW next \in Write(rows, r, status)
    PROVE  /\ next \in [Requests -> Statuses]
           /\ \A q \in Requests : next[q] = rows[q] \/ (q = r /\ next[q] = status)
  BY DEF Write

\* The part of a step that moves a request on and leaves the ledger and the keys
\* alone: what it must not do for the invariant to go on.
Moves(r) ==
    /\ req' \in [Requests -> RequestType]
    /\ \A q \in Requests : q # r => req'[q] = req[q]
    /\ req'[r].kind = req[r].kind /\ req'[r].seq = req[r].seq
    /\ req[r].step \notin Unprepared => req'[r].step \notin Unprepared
    /\ req[r].step \notin Unreserving => req'[r].step \notin Unreserving
    /\ req'[r].step \in Recording => \E t \in ledger : t.by = r

\* A step that moves a request on and may write the rows of that request.
LEMMA MoveKeeps ==
    ASSUME XrplInv, NEW r \in Requests, Moves(r), UNCHANGED <<reservedBy, ledger>>,
           \A q \in pool' : q \in pool \/ (q = r /\ req'[r].step \notin Unprepared),
           action' \in [Requests -> Statuses], dist' \in [Requests -> Statuses],
           txRow' \in [Requests -> Statuses],
           \/ limitBy' = limitBy
           \/ limitBy' \subseteq limitBy \cup {r} /\ req[r].step \in Recording,
           \A q \in Requests : q # r => /\ action'[q] = action[q] /\ dist'[q] = dist[q]
                                        /\ txRow'[q] = txRow[q],
           "validated" \in {action'[r], dist'[r], txRow'[r]}
               => \/ req[r].step \in Recording
                  \/ "validated" \in {action[r], dist[r], txRow[r]}
    PROVE  XrplInv'
<1> USE DEF XrplInv, TypesHold
<1>1. /\ req' \in [Requests -> RequestType]
      /\ \A q \in Requests : q # r => req'[q] = req[q]
      /\ req'[r].kind = req[r].kind /\ req'[r].seq = req[r].seq
  BY DEF Moves
<1>2. TypesHold'
  BY <1>1
<1>3. UnpreparedIsUnknown'
  BY <1>1 DEF UnpreparedIsUnknown, Moves
<1>4. \A t \in ledger : req'[t.by].kind = req[t.by].kind /\ req'[t.by].seq = req[t.by].seq
  BY <1>1 DEF AppliedType
<1>5. \A account : LedgerOf(account)' = LedgerOf(account)
  BY <1>4 DEF LedgerOf, AccountOf
<1>6. LedgerIsBehind'
  BY <1>4, <1>5 DEF LedgerIsBehind, AccountOf
<1>7. AppliedOnce'
  BY DEF AppliedOnce
<1>8. HolderIsAlone'
  BY <1>1 DEF HolderIsAlone, Moves
<1>9. RecordingWasApplied'
  BY <1>1 DEF RecordingWasApplied, Moves
<1>10. ValidatedWasApplied'
  BY DEF ValidatedWasApplied, RecordingWasApplied
<1> QED
  BY <1>2, <1>3, <1>6, <1>7, <1>8, <1>9, <1>10

---------------------------------------------------------------------------
\* A record with another step is a request.
LEMMA GotoMoves ==
    ASSUME XrplInv, NEW r \in Requests, NEW step \in Steps, RequestGoto(r, step),
           req[r].step \notin Unprepared => step \notin Unprepared,
           req[r].step \notin Unreserving => step \notin Unreserving,
           step \in Recording => req[r].step \in Recording
    PROVE  Moves(r) /\ req'[r].step = step
<1> DEFINE moved == [req[r] EXCEPT !.step = step]
<1>a. req \in [Requests -> RequestType] /\ req[r] \in RequestType
  BY DEF XrplInv, TypesHold
<1>b. /\ moved \in RequestType /\ moved.step = step
      /\ moved.kind = req[r].kind /\ moved.seq = req[r].seq
  BY <1>a DEF RequestType
<1>c. req' = [req EXCEPT ![r] = moved]
  BY <1>a DEF RequestGoto
<1> HIDE DEF moved
<1>1. /\ req' \in [Requests -> RequestType] /\ req'[r].step = step
      /\ \A q \in Requests : q # r => req'[q] = req[q]
      /\ req'[r].kind = req[r].kind /\ req'[r].seq = req[r].seq
  BY <1>a, <1>b, <1>c
<1> QED
  BY <1>1 DEF Moves, XrplInv, RecordingWasApplied

\* The catch of a route.
LEMMA FailKeeps ==
    ASSUME XrplInv, NEW r \in Requests, req[r].step # "done", Fail(r),
           UNCHANGED <<reservedBy, chainVars, recordVars>>
    PROVE  XrplInv'
<1>1. "done" \in Steps \ (Unprepared \cup Recording)
  BY DEF Steps, Unprepared, Recording
<1>2. Moves(r)
  BY <1>1, GotoMoves DEF Fail, Unreserving
<1>3. /\ action' \in [Requests -> Statuses] /\ dist' \in [Requests -> Statuses]
      /\ txRow' \in [Requests -> Statuses]
      /\ \A q \in Requests : q # r => /\ action'[q] = action[q] /\ dist'[q] = dist[q]
                                      /\ txRow'[q] = txRow[q]
      /\ action'[r] \in {action[r], "failed"} /\ dist'[r] \in {dist[r], "failed"}
      /\ txRow'[r] = txRow[r]
  BY WriteKeeps DEF Fail, XrplInv, TypesHold, Statuses, recordVars
<1> QED
  BY <1>2, <1>3, MoveKeeps DEF chainVars, recordVars

\* A request whose transaction is not prepared yet changes its own record and may
\* write its own rows.
LEMMA SetupKeeps ==
    ASSUME XrplInv, NEW r \in Requests, req[r].step \in Unprepared,
           req' \in [Requests -> RequestType], \A q \in Requests : q # r => req'[q] = req[q],
           req'[r].step \notin Recording,
           req[r].step \notin Unreserving
               => req'[r].step \notin Unreserving /\ req'[r].kind = req[r].kind,
           UNCHANGED <<reservedBy, pool, ledger, limitBy>>,
           action' \in [Requests -> Statuses], dist' \in [Requests -> Statuses],
           txRow' \in [Requests -> Statuses],
           \A q \in Requests :
               "validated" \in {action'[q], dist'[q], txRow'[q]}
                   => "validated" \in {action[q], dist[q], txRow[q]}
    PROVE  XrplInv'
<1> USE DEF XrplInv, TypesHold
<1>1. TypesHold'
  OBVIOUS
<1>2. \A t \in ledger : t.by \in Requests /\ t.by # r /\ req'[t.by] = req[t.by]
  BY DEF UnpreparedIsUnknown, AppliedType
<1>3. UnpreparedIsUnknown'
  BY <1>2 DEF UnpreparedIsUnknown
<1>4. \A account : LedgerOf(account)' = LedgerOf(account)
  BY <1>2 DEF LedgerOf
<1>5. LedgerIsBehind'
  BY <1>2, <1>4 DEF LedgerIsBehind
<1>6. AppliedOnce'
  BY DEF AppliedOnce
<1>7. HolderIsAlone'
  BY DEF HolderIsAlone
<1>8. RecordingWasApplied'
  BY DEF RecordingWasApplied
<1>9. ValidatedWasApplied'
  BY DEF ValidatedWasApplied
<1> QED
  BY <1>1, <1>3, <1>5, <1>6, <1>7, <1>8, <1>9

---------------------------------------------------------------------------
\* One lemma for each action, up to the reservation of the key.
LEMMA ArriveKeeps ==
    ASSUME XrplInv, NEW r \in Requests, NEW kind \in Kinds, NEW h \in Holders,
           NEW k \in XrplKeys, Arrive(r, kind, h, k)
    PROVE  XrplInv'
<1> DEFINE step == Routes[kind].first
<1>1. NewRequest \in RequestType
  BY XrplBounds, XrplKinds DEF NewRequest, RequestType, Steps, Unprepared
<1>2. [NewRequest EXCEPT !.kind = kind, !.to = h, !.key = k, !.step = step] \in RequestType
  BY <1>1, RouteType DEF RequestType, Steps, Unprepared
<1>3. /\ req' \in [Requests -> RequestType] /\ req'[r].step = step
      /\ \A q \in Requests : q # r => req'[q] = req[q]
  BY <1>1, <1>2 DEF Arrive, XrplInv, TypesHold, RequestType
<1>4. /\ action' \in [Requests -> Statuses] /\ dist' = dist /\ txRow' = txRow
      /\ \A q \in Requests : action'[q] \in {action[q], "queued", "none"}
  BY DEF Arrive, XrplInv, TypesHold, Statuses, recordVars
<1>5. req[r].step = "new" /\ UNCHANGED <<reservedBy, pool, ledger, limitBy>>
  BY DEF Arrive, keyVars, chainVars, recordVars
<1>6. step \notin Recording /\ "new" \in Unreserving /\ "new" \in Unprepared
  BY RouteType DEF Recording, Unreserving, Unprepared
<1> HIDE DEF step
<1> QED
  BY <1>3, <1>4, <1>5, <1>6, SetupKeeps DEF XrplInv, TypesHold

LEMMA CreateDistributionKeeps ==
    ASSUME XrplInv, NEW r \in Requests, CreateDistribution(r)
    PROVE  XrplInv'
<1>1. CASE Fail(r)
  BY <1>1, FailKeeps DEF CreateDistribution, keyVars
<1>2. CASE RequestGoto(r, "risk") /\ dist' = [dist EXCEPT ![r] = "queued"] /\ UNCHANGED action
  <2>1. Moves(r) /\ req'[r].step = "risk"
    BY <1>2, GotoMoves DEF CreateDistribution, Steps, Unprepared, Unreserving, Recording
  <2>2. /\ action' = action /\ dist' \in [Requests -> Statuses] /\ txRow' = txRow
        /\ \A q \in Requests : q # r => dist'[q] = dist[q]
        /\ dist'[r] = "queued"
    BY <1>2 DEF CreateDistribution, XrplInv, TypesHold, Statuses, recordVars
  <2> QED
    BY <2>1, <2>2, MoveKeeps DEF CreateDistribution, keyVars, chainVars, recordVars, XrplInv, TypesHold
<1> QED
  BY <1>1, <1>2 DEF CreateDistribution

LEMMA AssessRiskKeeps ==
    ASSUME XrplInv, NEW r \in Requests, AssessRisk(r)
    PROVE  XrplInv'
<1>1. CASE Fail(r)
  BY <1>1, FailKeeps DEF AssessRisk, keyVars
<1>2. CASE RequestGoto(r, "reserve") /\ UNCHANGED <<action, dist>>
  <2>1. Moves(r)
    BY <1>2, GotoMoves DEF AssessRisk, Steps, Unprepared, Unreserving, Recording
  <2> QED
    BY <1>2, <2>1, MoveKeeps DEF AssessRisk, keyVars, chainVars, recordVars, XrplInv, TypesHold
<1>3. ASSUME NEW decision \in {"denied", "review"}, action' \in Write(action, r, decision),
             dist' \in Write(dist, r, "failed"), RequestGoto(r, "done")
      PROVE  XrplInv'
  <2>1. Moves(r)
    BY <1>3, GotoMoves DEF AssessRisk, Steps, Unprepared, Unreserving, Recording
  <2>2. decision \in Statuses /\ "failed" \in Statuses
    BY DEF Statuses
  <2>3. /\ action' \in [Requests -> Statuses]
        /\ \A q \in Requests : action'[q] = action[q] \/ (q = r /\ action'[q] = decision)
    BY <1>3, <2>2, WriteKeeps DEF XrplInv, TypesHold
  <2>4. /\ dist' \in [Requests -> Statuses]
        /\ \A q \in Requests : dist'[q] = dist[q] \/ (q = r /\ dist'[q] = "failed")
    BY <1>3, <2>2, WriteKeeps DEF XrplInv, TypesHold
  <2> QED
    BY <2>1, <2>3, <2>4, MoveKeeps DEF AssessRisk, keyVars, chainVars, recordVars, XrplInv, TypesHold
<1> QED
  BY <1>1, <1>2, <1>3 DEF AssessRisk

LEMMA ReserveKeyKeeps ==
    ASSUME XrplInv, NEW r \in Requests, ReserveKey(r)
    PROVE  XrplInv'
<1>1. CASE Fail(r) /\ UNCHANGED reservedBy
  BY <1>1, FailKeeps DEF ReserveKey
<1>2. CASE /\ Holding(req[r].key, req[r].kind) = {}
           /\ reservedBy' = [reservedBy EXCEPT ![req[r].key] = @ \cup {r}]
           /\ \/ RequestGoto(r, "prepare") /\ UNCHANGED <<action, dist>>
              \/ Fail(r)
  <2>1. /\ req[r].step = "reserve" /\ UNCHANGED <<pool, ledger, txRow, limitBy>>
        /\ Moves(r) /\ req'[r].step \in {"prepare", "done"}
    BY <1>2, GotoMoves
    DEF ReserveKey, Fail, Steps, Unprepared, Unreserving, Recording, chainVars, recordVars
  <2>2. /\ \A q \in Requests : req'[q].kind = req[q].kind /\ req'[q].seq = req[q].seq
        /\ \A q \in Requests : q # r => req'[q] = req[q]
    BY <2>1 DEF Moves
  <2>a. /\ action' \in [Requests -> Statuses] /\ dist' \in [Requests -> Statuses]
        /\ \A q \in Requests : /\ action'[q] \in {action[q], "failed"}
                               /\ dist'[q] \in {dist[q], "failed"}
    BY <1>2, WriteKeeps DEF Fail, XrplInv, TypesHold, Statuses
  <2>3. TypesHold'
    BY <1>2, <2>1, <2>2, <2>a DEF Moves, XrplInv, TypesHold
  <2>4. /\ "reserve" \in Unprepared
        /\ \A step \in {"prepare", "done"} : step \notin Unreserving \cup Recording
    BY DEF Unprepared, Unreserving, Recording
  <2>5. UnpreparedIsUnknown'
    BY <2>1, <2>2, <2>4 DEF UnpreparedIsUnknown, XrplInv
  <2>6. \A account : LedgerOf(account)' = LedgerOf(account)
    BY <2>1, <2>2 DEF LedgerOf, AccountOf, XrplInv, TypesHold, AppliedType
  <2>7. LedgerIsBehind'
    BY <2>1, <2>2, <2>6 DEF LedgerIsBehind, AccountOf, XrplInv, TypesHold, AppliedType
  <2>8. AppliedOnce' /\ ValidatedWasApplied'
    BY <2>1, <2>a DEF AppliedOnce, ValidatedWasApplied, XrplInv
  <2>9. HolderIsAlone'
    <3>1. ASSUME NEW k \in XrplKeys, NEW q \in reservedBy'[k]
          PROVE  q \in Requests /\ (q \in reservedBy[k] \/ (q = r /\ k = req[r].key))
      BY <1>2 DEF XrplInv, TypesHold
    <3>2. \A k \in XrplKeys : \A q \in reservedBy'[k] : req'[q].step \notin Unreserving
      BY <2>1, <2>2, <2>4, <3>1 DEF HolderIsAlone, XrplInv
    <3>3. \A q \in reservedBy[req[r].key] : req[q].kind # req[r].kind
      BY <1>2 DEF Holding
    <3>4. \A k \in XrplKeys : \A p, q \in reservedBy'[k] : req'[p].kind = req'[q].kind => p = q
      BY <2>2, <3>1, <3>3 DEF HolderIsAlone, XrplInv
    <3> QED
      BY <3>2, <3>4 DEF HolderIsAlone
  <2>10. RecordingWasApplied'
    BY <2>1, <2>2, <2>4 DEF RecordingWasApplied, XrplInv
  <2> QED
    BY <2>3, <2>5, <2>7, <2>8, <2>9, <2>10 DEF XrplInv
<1> QED
  BY <1>1, <1>2 DEF ReserveKey

---------------------------------------------------------------------------
\* From the prepared transaction to its answer.
LEMMA PrepareKeeps ==
    ASSUME XrplInv, NEW r \in Requests, Prepare(r)
    PROVE  XrplInv'
<1>1. CASE Fail(r)
  BY <1>1, FailKeeps DEF Prepare, keyVars
<1>2. CASE /\ req' = [req EXCEPT ![r].step = "submit", ![r].seq = NextSequence(AccountOf(req[r].kind))]
           /\ UNCHANGED <<action, dist>>
  <2>1. LedgerOf(AccountOf(req[r].kind)) \subseteq ledger /\ IsFiniteSet(ledger)
    BY DEF LedgerOf, XrplInv, TypesHold
  <2>2. Cardinality(LedgerOf(AccountOf(req[r].kind))) \in Nat
    BY <2>1, FS_Subset, FS_CardinalityType
  <2>3. NextSequence(AccountOf(req[r].kind)) = Cardinality(LedgerOf(AccountOf(req[r].kind))) + 1
    BY DEF NextSequence, LedgerOf
  <2>4. NextSequence(AccountOf(req[r].kind)) \in Nat
    BY <2>2, <2>3
  <2>5. /\ req' \in [Requests -> RequestType] /\ req'[r].step = "submit"
        /\ req'[r].kind = req[r].kind /\ \A q \in Requests : q # r => req'[q] = req[q]
    <3>1. req[r] \in RequestType /\ "submit" \in Steps
      BY DEF XrplInv, TypesHold, Steps
    <3>2. [req[r] EXCEPT !.step = "submit", !.seq = NextSequence(AccountOf(req[r].kind))] \in RequestType
      BY <2>4, <3>1 DEF RequestType
    <3> QED
      BY <1>2, <3>1, <3>2 DEF XrplInv, TypesHold, RequestType
  <2>6. /\ req[r].step = "prepare" /\ "prepare" \in Unprepared
        /\ "submit" \notin Recording /\ "submit" \notin Unreserving
    BY DEF Prepare, Unprepared, Unreserving, Recording
  <2> QED
    BY <1>2, <2>5, <2>6, SetupKeeps DEF Prepare, keyVars, chainVars, recordVars, XrplInv, TypesHold
<1> QED
  BY <1>1, <1>2 DEF Prepare

LEMMA SubmitKeeps ==
    ASSUME XrplInv, NEW r \in Requests, Submit(r)
    PROVE  XrplInv'
<1>1. /\ req' \in [Requests -> RequestType] /\ req'[r].step = "wait"
      /\ req'[r].kind = req[r].kind /\ req'[r].seq = req[r].seq
      /\ \A q \in Requests : q # r => req'[q] = req[q]
  BY DEF Submit, Attempt, XrplInv, TypesHold, RequestType, Steps
<1>2. "wait" \notin Unprepared /\ "wait" \notin Unreserving /\ "wait" \notin Recording
  BY DEF Unprepared, Unreserving, Recording
<1>3. Moves(r)
  BY <1>1, <1>2 DEF Moves
<1>4. pool' \subseteq Requests /\ \A q \in pool' : q \in pool \/ q = r
  BY DEF Submit, XrplInv, TypesHold
<1> QED
  BY <1>1, <1>2, <1>3, <1>4, MoveKeeps DEF Submit, keyVars, rowVars, XrplInv, TypesHold

LEMMA AwaitAnswerKeeps ==
    ASSUME XrplInv, NEW r \in Requests, AwaitAnswer(r)
    PROVE  XrplInv'
<1>1. CASE Fail(r)
  BY <1>1, FailKeeps DEF AwaitAnswer, keyVars
<1>2. CASE RequestGoto(r, "submit") /\ UNCHANGED <<action, dist>>
  <2>1. Moves(r)
    BY <1>2, GotoMoves DEF AwaitAnswer, Steps, Unprepared, Unreserving, Recording
  <2> QED
    BY <1>2, <2>1, MoveKeeps DEF AwaitAnswer, keyVars, chainVars, recordVars, XrplInv, TypesHold
<1>3. ASSUME NEW t \in Applied(r), UNCHANGED <<action, dist>>,
             req' = [req EXCEPT ![r].step = "recordAction", ![r].result = t.result]
      PROVE  XrplInv'
  <2>1. t \in ledger /\ t.by = r /\ t.result \in {"none", "tes", "tec"}
    BY DEF Applied, XrplInv, TypesHold, AppliedType
  <2>2. /\ req' \in [Requests -> RequestType] /\ req'[r].step = "recordAction"
        /\ req'[r].kind = req[r].kind /\ req'[r].seq = req[r].seq
        /\ \A q \in Requests : q # r => req'[q] = req[q]
    <3>1. req[r] \in RequestType /\ "recordAction" \in Steps
      BY DEF XrplInv, TypesHold, Steps, Recording
    <3>2. [req[r] EXCEPT !.step = "recordAction", !.result = t.result] \in RequestType
      BY <2>1, <3>1 DEF RequestType
    <3> QED
      BY <1>3, <3>1, <3>2 DEF XrplInv, TypesHold, RequestType
  <2>3. "recordAction" \notin Unprepared /\ "recordAction" \notin Unreserving
    BY DEF Unprepared, Unreserving
  <2>4. Moves(r)
    BY <2>1, <2>2, <2>3 DEF Moves
  <2>5. UNCHANGED <<reservedBy, pool, ledger, action, dist, txRow, limitBy>>
    BY <1>3 DEF AwaitAnswer, keyVars, chainVars, recordVars
  <2> QED
    BY <2>4, <2>5, MoveKeeps DEF XrplInv, TypesHold
<1> QED
  BY <1>1, <1>2, <1>3 DEF AwaitAnswer

---------------------------------------------------------------------------
\* The records, of a request whose answer has come.
LEMMA RecordActionKeeps ==
    ASSUME XrplInv, NEW r \in Requests, RecordAction(r)
    PROVE  XrplInv'
<1>1. req[r].step \in Recording
  BY DEF RecordAction, Recording
<1>2. Moves(r)
  BY <1>1, GotoMoves DEF RecordAction, Steps, Unprepared, Unreserving, Recording
<1>3. /\ action' \in [Requests -> Statuses]
      /\ \A q \in Requests : q # r => action'[q] = action[q]
  BY WriteKeeps DEF RecordAction, XrplInv, TypesHold, Statuses
<1> QED
  BY <1>1, <1>2, <1>3, MoveKeeps DEF RecordAction, keyVars, chainVars, recordVars, XrplInv, TypesHold

LEMMA RecordTransactionKeeps ==
    ASSUME XrplInv, NEW r \in Requests, RecordTransaction(r)
    PROVE  XrplInv'
<1>1. req[r].step \in Recording
  BY DEF RecordTransaction, Recording
<1>2. Moves(r)
  <2>1. req[r].kind \in Kinds
    BY DEF XrplInv, TypesHold, RequestType
  <2>2. Routes[req[r].kind].last \in (Recording \cup {"done"})
    BY <2>1, RouteType DEF Recording
  <2> QED
    BY <1>1, <2>2, GotoMoves DEF RecordTransaction, Steps, Unprepared, Unreserving, Recording
<1>3. /\ txRow' \in [Requests -> Statuses]
      /\ \A q \in Requests : q # r => txRow'[q] = txRow[q]
      /\ limitBy' = limitBy \/ limitBy' \subseteq limitBy \cup {r}
  BY DEF RecordTransaction, XrplInv, TypesHold, Statuses, recordVars
<1> QED
  BY <1>1, <1>2, <1>3, MoveKeeps DEF RecordTransaction, keyVars, chainVars, XrplInv, TypesHold

LEMMA RecordDistributionKeeps ==
    ASSUME XrplInv, NEW r \in Requests, RecordDistribution(r)
    PROVE  XrplInv'
<1>1. req[r].step \in Recording
  BY DEF RecordDistribution, Recording
<1>2. Moves(r)
  BY <1>1, GotoMoves DEF RecordDistribution, Steps, Unprepared, Unreserving, Recording
<1>3. /\ action' \in [Requests -> Statuses] /\ dist' \in [Requests -> Statuses]
      /\ \A q \in Requests : q # r => action'[q] = action[q] /\ dist'[q] = dist[q]
  <2>1. action' \in Write(action, r, "failed") \cup {action}
    BY DEF RecordDistribution
  <2>2. dist' \in Write(dist, r, "failed") \cup {[dist EXCEPT ![r] = "validated"]}
    BY DEF RecordDistribution
  <2> QED
    BY <2>1, <2>2, WriteKeeps DEF XrplInv, TypesHold, Statuses
<1> QED
  BY <1>1, <1>2, <1>3, MoveKeeps DEF RecordDistribution, keyVars, chainVars, recordVars, XrplInv, TypesHold

LEMMA MarkHolderKeeps ==
    ASSUME XrplInv, NEW r \in Requests, MarkHolder(r)
    PROVE  XrplInv'
<1>1. Moves(r)
  BY GotoMoves DEF MarkHolder, Steps, Unprepared, Unreserving, Recording
<1> QED
  BY <1>1, MoveKeeps DEF MarkHolder, keyVars, chainVars, rowVars, XrplInv, TypesHold

LEMMA ActivateKeeps ==
    ASSUME XrplInv, NEW r \in Requests, Activate(r)
    PROVE  XrplInv'
<1>1. Moves(r)
  BY GotoMoves DEF Activate, Steps, Unprepared, Unreserving, Recording
<1> QED
  BY <1>1, MoveKeeps DEF Activate, keyVars, chainVars, rowVars, XrplInv, TypesHold

LEMMA RequestDiesKeeps ==
    ASSUME XrplInv, NEW r \in Requests, RequestDies(r)
    PROVE  XrplInv'
<1>1. Moves(r)
  BY GotoMoves DEF RequestDies, Steps, Unprepared, Unreserving, Recording
<1> QED
  BY <1>1, MoveKeeps DEF RequestDies, keyVars, chainVars, rowVars, XrplInv, TypesHold

---------------------------------------------------------------------------
\* The network, the reviews and the expiry of keys.
LEMMA CardinalityOfLedger ==
    ASSUME XrplInv, NEW account
    PROVE  IsFiniteSet(LedgerOf(account)) /\ Cardinality(LedgerOf(account)) \in Nat
<1>1. LedgerOf(account) \subseteq ledger /\ IsFiniteSet(ledger)
  BY DEF LedgerOf, XrplInv, TypesHold
<1> QED
  BY <1>1, FS_Subset, FS_CardinalityType

LEMMA LedgerAppliesKeeps ==
    ASSUME XrplInv, NEW r \in Requests, LedgerApplies(r)
    PROVE  XrplInv'
<1>1. PICK result \in {"tes", "tec"} :
          ledger' = ledger \cup {[by |-> r, seq |-> req[r].seq, result |-> result]}
  BY DEF LedgerApplies
<1> DEFINE new == [by |-> r, seq |-> req[r].seq, result |-> result]
           account == AccountOf(req[r].kind)
<1>2. /\ ledger' = ledger \cup {new} /\ new \in AppliedType
      /\ new.by = r /\ new.seq = req[r].seq
  BY <1>1 DEF AppliedType, XrplInv, TypesHold, RequestType
<1> HIDE DEF new
<1>3. UNCHANGED <<req, reservedBy, action, dist, txRow, limitBy>> /\ pool' = pool \ {r} /\ r \in pool
  BY DEF LedgerApplies, keyVars, rowVars
<1>4. req[r].step \notin Unprepared
  BY <1>3 DEF UnpreparedIsUnknown, XrplInv
<1>5. req[r].seq = Cardinality(LedgerOf(account)) + 1
  BY DEF LedgerApplies, NextSequence, LedgerOf
<1>6. \A t \in ledger : t.by # r
  <2>1. SUFFICES ASSUME NEW t \in ledger, t.by = r PROVE FALSE
    OBVIOUS
  <2>2. t.seq = req[r].seq /\ t.seq <= Cardinality(LedgerOf(account))
    BY <2>1 DEF LedgerIsBehind, XrplInv
  <2> QED
    BY <1>5, <2>2, CardinalityOfLedger
<1>7. IsFiniteSet(ledger')
  BY <1>2, FS_AddElement DEF XrplInv, TypesHold
<1>8. TypesHold'
  BY <1>2, <1>3, <1>7 DEF TypesHold, XrplInv
<1>9. UnpreparedIsUnknown'
  BY <1>2, <1>3, <1>4 DEF UnpreparedIsUnknown, XrplInv
<1>10. LedgerIsBehind'
  <2> DEFINE Before(k) == {t \in ledger : AccountOf(req[t.by].kind) = k}
             After(k) == {t \in ledger' : AccountOf(req[t.by].kind) = k}
  <2>1. \A k : Before(k) = LedgerOf(k)
    BY DEF LedgerOf
  <2>2. ASSUME NEW k
        PROVE  /\ Cardinality(Before(k)) \in Nat /\ Cardinality(After(k)) \in Nat
               /\ Cardinality(Before(k)) <= Cardinality(After(k))
    <3>1. After(k) \subseteq ledger' /\ Before(k) \subseteq After(k)
      BY <1>2
    <3>2. IsFiniteSet(After(k)) /\ IsFiniteSet(Before(k))
      BY <1>7, <3>1, FS_Subset
    <3> QED
      BY <3>1, <3>2, FS_Subset, FS_CardinalityType
  <2>3. Cardinality(After(account)) = Cardinality(Before(account)) + 1
    <3>1. After(account) = Before(account) \cup {new} /\ new \notin Before(account)
      BY <1>2, <1>6
    <3>2. IsFiniteSet(Before(account))
      BY <2>1, CardinalityOfLedger
    <3> HIDE DEF Before, After, account
    <3> QED
      BY <3>1, <3>2, FS_AddElement
  <2>4. ASSUME NEW t \in ledger'
        PROVE  t.seq = req[t.by].seq /\ t.seq <= Cardinality(After(AccountOf(req[t.by].kind)))
    <3> HIDE DEF Before, After
    <3>1. CASE t = new
      <4>1. t.by = r /\ t.seq = req[r].seq /\ AccountOf(req[t.by].kind) = account
        BY <1>2, <3>1
      <4>2. t.seq = Cardinality(After(account))
        BY <1>5, <2>1, <2>3, <4>1
      <4> QED
        BY <2>2, <4>1, <4>2
    <3>2. CASE t \in ledger
      <4>1. t.seq = req[t.by].seq /\ t.seq <= Cardinality(Before(AccountOf(req[t.by].kind))) /\ t.seq \in Nat
        BY <2>1, <3>2 DEF LedgerIsBehind, XrplInv, TypesHold, AppliedType
      <4> QED
        BY <2>2, <4>1
    <3> QED
      BY <1>2, <3>1, <3>2
  <2>5. \A t \in ledger' : LedgerOf(AccountOf(req[t.by].kind))' = After(AccountOf(req[t.by].kind))
    BY <1>3 DEF LedgerOf, AccountOf
  <2> HIDE DEF After
  <2> QED
    BY <1>3, <2>4, <2>5 DEF LedgerIsBehind, AccountOf
<1>11. AppliedOnce'
  BY <1>2, <1>6 DEF AppliedOnce, XrplInv
<1>12. HolderIsAlone'
  BY <1>3 DEF HolderIsAlone, XrplInv
<1>13. RecordingWasApplied' /\ ValidatedWasApplied'
  BY <1>2, <1>3 DEF RecordingWasApplied, ValidatedWasApplied, XrplInv
<1> QED
  BY <1>8, <1>9, <1>10, <1>11, <1>12, <1>13 DEF XrplInv

LEMMA PoolExpiresKeeps ==
    ASSUME XrplInv, NEW r \in Requests, PoolExpires(r)
    PROVE  XrplInv'
<1>1. Moves(r)
  BY DEF PoolExpires, Moves, XrplInv, TypesHold, RecordingWasApplied
<1> QED
  BY <1>1, MoveKeeps DEF PoolExpires, keyVars, rowVars, XrplInv, TypesHold

\* A step that only changes what the invariant does not look at, or frees keys.
LEMMA OthersKeep ==
    ASSUME XrplInv, UNCHANGED <<chainVars, req, rowVars>>,
           reservedBy' \in [XrplKeys -> SUBSET Requests],
           \A k \in XrplKeys : reservedBy'[k] \subseteq reservedBy[k]
    PROVE  XrplInv'
<1>1. UNCHANGED <<pool, ledger, req, action, dist, txRow, limitBy>>
  BY DEF chainVars, rowVars
<1>2. TypesHold'
  BY <1>1 DEF XrplInv, TypesHold
<1>3. UnpreparedIsUnknown' /\ LedgerIsBehind' /\ AppliedOnce'
  <2>1. \A account : LedgerOf(account)' = LedgerOf(account)
    BY <1>1 DEF LedgerOf, AccountOf
  <2>2. LedgerIsBehind'
    BY <1>1, <2>1 DEF XrplInv, LedgerIsBehind, AccountOf
  <2> QED
    BY <1>1, <2>2 DEF XrplInv, UnpreparedIsUnknown, AppliedOnce
<1>4. HolderIsAlone'
  BY <1>1 DEF XrplInv, HolderIsAlone
<1>5. RecordingWasApplied' /\ ValidatedWasApplied'
  BY <1>1 DEF XrplInv, RecordingWasApplied, ValidatedWasApplied
<1> QED
  BY <1>2, <1>3, <1>4, <1>5 DEF XrplInv

LEMMA ReviewKeeps ==
    ASSUME XrplInv, NEW h \in Holders, NEW status \in Decisions, Review(h, status)
    PROVE  XrplInv'
BY OthersKeep DEF Review, keyVars, XrplInv, TypesHold

LEMMA ChangePolicyKeeps ==
    ASSUME XrplInv, NEW settings \in Policies, ChangePolicy(settings)
    PROVE  XrplInv'
BY OthersKeep DEF ChangePolicy, keyVars, XrplInv, TypesHold

LEMMA KeyExpiresKeeps ==
    ASSUME XrplInv, NEW k \in XrplKeys, KeyExpires(k)
    PROVE  XrplInv'
BY OthersKeep DEF KeyExpires, XrplInv, TypesHold

---------------------------------------------------------------------------
\* Every step keeps the invariant.
LEMMA NextKeeps == XrplInv /\ [XrplNext]_xrplVars => XrplInv'
<1> SUFFICES ASSUME XrplInv, [XrplNext]_xrplVars PROVE XrplInv'
  OBVIOUS
<1>1. ASSUME NEW r \in Requests, RequestStep(r) PROVE XrplInv'
  BY <1>1, CreateDistributionKeeps, AssessRiskKeeps, ReserveKeyKeeps, PrepareKeeps, SubmitKeeps,
     AwaitAnswerKeeps, RecordActionKeeps, RecordTransactionKeeps, RecordDistributionKeeps,
     MarkHolderKeeps, ActivateKeeps
     DEF RequestStep
<1>2. ASSUME NEW r \in Requests,
             \/ \E kind \in Kinds, h \in Holders, k \in XrplKeys : Arrive(r, kind, h, k)
             \/ RequestDies(r) \/ LedgerApplies(r) \/ PoolExpires(r)
      PROVE  XrplInv'
  BY <1>2, ArriveKeeps, RequestDiesKeeps, LedgerAppliesKeeps, PoolExpiresKeeps
<1>3. CASE \E h \in Holders, status \in Decisions : Review(h, status)
  BY <1>3, ReviewKeeps
<1>4. CASE \E k \in XrplKeys : KeyExpires(k)
  BY <1>4, KeyExpiresKeeps
<1>5. CASE \E settings \in Policies : ChangePolicy(settings)
  BY <1>5, ChangePolicyKeeps
<1>6. CASE UNCHANGED xrplVars
  BY <1>6, OthersKeep DEF xrplVars, chainVars, rowVars, XrplInv, TypesHold
<1> QED
  BY <1>1, <1>2, <1>3, <1>4, <1>5, <1>6 DEF XrplNext

\* The invariant holds in every state the issuer routes reach.
THEOREM InvariantHolds == XrplSpec => []XrplInv
<1> QED
  BY InitEstablishes, NextKeeps, PTL DEF XrplSpec

\* However often a transaction is submitted and a key is sent again, the ledger
\* applies one transaction of a request and of the scope of a key.
THEOREM KeyAppliesOnce == XrplSpec => []AppliedOncePerKey
<1>1. XrplInv => AppliedOncePerKey
  BY DEF XrplInv, AppliedOncePerKey, AppliedOnce, HolderIsAlone
<1> QED
  BY <1>1, InvariantHolds, PTL

\* No retry, lost write or error makes a row validated that the ledger did not apply.
THEOREM ValidatedIsReal == XrplSpec => []ValidatedWasApplied
<1>1. XrplInv => ValidatedWasApplied
  BY DEF XrplInv
<1> QED
  BY <1>1, InvariantHolds, PTL

(***************************************************************************)
(* A key that has not expired, as the abstract promise to a client         *)
(***************************************************************************)
\* The scope of a request's key: the key and the route (submit.service.ts,
\* the call of reserveIdempotencyKey).
Scope(r) == <<req[r].key, req[r].kind>>

IsApplied(r) == \E t \in ledger : t.by = r

\* Of each scope, the requests the ledger has applied.
AppliedFor == [s \in XrplKeys \X Kinds |-> {r \in Requests : IsApplied(r) /\ Scope(r) = s}]

Promise == INSTANCE AtMostOnce WITH Keys <- XrplKeys \X Kinds, accepted <- AppliedFor

AppliesAtMostOnce == Promise!Spec

Keyless == {"distribution", "risk", "reserve"}

Working == {"prepare", "submit", "wait"} \cup Recording

Reserving(r) == req[r].step \in Working \/ r \in pool \/ IsApplied(r)

\* While no key has expired, whoever was given one is known by it.
KeyInv ==
    /\ \A r \in Requests : req[r].step \in Keyless => req[r].key \in XrplKeys
    /\ expiries = 0 =>
        \A r \in Requests : Reserving(r) =>
            req[r].key \in XrplKeys /\ r \in reservedBy[req[r].key]

\* A step that moves a request on: the keys stay, and it does not begin to work.
KeepsScopes(r) ==
    /\ \A q \in Requests : req'[q].key = req[q].key /\ req'[q].kind = req[q].kind
    /\ \A q \in Requests : q # r => req'[q].step = req[q].step
    /\ req'[r].step \in Keyless => req[r].step \in Keyless
    /\ req'[r].step \in Working => req[r].step \in Working

\* Such a step, which applies nothing, keeps the invariant and what was applied.
LEMMA ScopesKeep ==
    ASSUME XrplInv, KeyInv, NEW r \in Requests, KeepsScopes(r),
           UNCHANGED <<reservedBy, expiries, ledger>>,
           \A q \in pool' : q \in pool \/ (q = r /\ req[r].step \in Working)
    PROVE  KeyInv' /\ AppliedFor' = AppliedFor
<1>1. \A q \in Requests : req'[q].step \in Keyless => req[q].step \in Keyless
  BY DEF KeepsScopes
<1>2. \A q \in Requests : Reserving(q)' => Reserving(q)
  BY DEF KeepsScopes, Reserving, IsApplied
<1>3. KeyInv'
  BY <1>1, <1>2 DEF KeyInv, KeepsScopes
<1>4. \A q \in Requests : Scope(q)' = Scope(q) /\ (IsApplied(q)' <=> IsApplied(q))
  BY DEF KeepsScopes, Scope, IsApplied
<1>5. AppliedFor' = AppliedFor
  BY <1>4 DEF AppliedFor
<1> QED
  BY <1>3, <1>5

LEMMA GotoKeepsScopes ==
    ASSUME XrplInv, NEW r \in Requests, NEW step, RequestGoto(r, step),
           step \in Keyless => req[r].step \in Keyless,
           step \in Working => req[r].step \in Working
    PROVE  KeepsScopes(r)
<1>1. req \in [Requests -> RequestType] /\ req[r] \in RequestType
  BY DEF XrplInv, TypesHold
<1>2. req' = [req EXCEPT ![r] = [req[r] EXCEPT !.step = step]]
  BY <1>1 DEF RequestGoto
<1>3. /\ req'[r].step = step /\ req'[r].key = req[r].key /\ req'[r].kind = req[r].kind
      /\ \A q \in Requests : q # r => req'[q] = req[q]
  BY <1>1, <1>2 DEF RequestType
<1> QED
  BY <1>3 DEF KeepsScopes

LEMMA FailKeepsScopes ==
    ASSUME XrplInv, NEW r \in Requests, Fail(r)
    PROVE  KeepsScopes(r)
  BY GotoKeepsScopes DEF Fail, Keyless, Working, Recording

\* The steps of a request that has its key, or gets none.
LEMMA StepKeepsScopes ==
    ASSUME XrplInv, NEW r \in Requests, RequestStep(r) \/ RequestDies(r), ~ReserveKey(r)
    PROVE  /\ KeepsScopes(r) /\ UNCHANGED <<reservedBy, expiries, ledger>>
           /\ \A q \in pool' : q \in pool \/ (q = r /\ req[r].step \in Working)
<1> USE DEF Keyless, Working, Recording
<1>1. CASE CreateDistribution(r) \/ AssessRisk(r)
  BY <1>1, GotoKeepsScopes, FailKeepsScopes DEF CreateDistribution, AssessRisk, keyVars, chainVars
<1>2. CASE Prepare(r)
  <2>1. CASE Fail(r)
    BY <1>2, <2>1, FailKeepsScopes DEF Prepare, keyVars, chainVars
  <2>2. CASE req' = [req EXCEPT ![r].step = "submit", ![r].seq = NextSequence(AccountOf(req[r].kind))]
    <3>1. req \in [Requests -> RequestType] /\ req[r] \in RequestType
      BY DEF XrplInv, TypesHold
    <3>2. KeepsScopes(r)
      BY <1>2, <2>2, <3>1 DEF KeepsScopes, RequestType, Prepare
    <3> QED
      BY <1>2, <3>2 DEF Prepare, keyVars, chainVars
  <2> QED
    BY <1>2, <2>1, <2>2 DEF Prepare
<1>3. CASE Submit(r)
  <2>1. req \in [Requests -> RequestType] /\ req[r] \in RequestType
    BY DEF XrplInv, TypesHold
  <2>2. KeepsScopes(r)
    BY <1>3, <2>1 DEF KeepsScopes, RequestType, Submit, Attempt
  <2> QED
    BY <1>3, <2>2 DEF Submit, keyVars
<1>4. CASE AwaitAnswer(r)
  <2>1. CASE Fail(r) \/ RequestGoto(r, "submit")
    BY <1>4, <2>1, GotoKeepsScopes, FailKeepsScopes DEF AwaitAnswer, keyVars, chainVars
  <2>2. ASSUME NEW t \in Applied(r),
               req' = [req EXCEPT ![r].step = "recordAction", ![r].result = t.result]
        PROVE  KeepsScopes(r)
    <3>1. req \in [Requests -> RequestType] /\ req[r] \in RequestType
      BY DEF XrplInv, TypesHold
    <3>2. req[r].step = "wait"
      BY <1>4 DEF AwaitAnswer
    <3> QED
      BY <2>2, <3>1, <3>2 DEF KeepsScopes, RequestType
  <2> QED
    BY <1>4, <2>1, <2>2 DEF AwaitAnswer, keyVars, chainVars
<1>5. CASE RecordAction(r) \/ RecordDistribution(r) \/ MarkHolder(r) \/ Activate(r) \/ RequestDies(r)
  BY <1>5, GotoKeepsScopes DEF RecordAction, RecordDistribution, MarkHolder, Activate, RequestDies,
     keyVars, chainVars
<1>6. CASE RecordTransaction(r)
  <2>1. RequestGoto(r, Routes[req[r].kind].last) /\ req[r].step = "recordTx"
    BY <1>6 DEF RecordTransaction
  <2>2. Routes[req[r].kind].last \in {"done", "markHolder", "recordDist", "activate"}
    BY RouteType DEF XrplInv, TypesHold, RequestType
  <2>3. KeepsScopes(r)
    BY <2>1, <2>2, GotoKeepsScopes
  <2> QED
    BY <1>6, <2>3 DEF RecordTransaction, keyVars, chainVars
<1> QED
  BY <1>1, <1>2, <1>3, <1>4, <1>5, <1>6 DEF RequestStep

LEMMA ReserveKeyScopes ==
    ASSUME XrplInv, KeyInv, NEW r \in Requests, ReserveKey(r)
    PROVE  KeyInv' /\ AppliedFor' = AppliedFor
<1>1. req[r].step = "reserve" /\ UNCHANGED <<expiries, pool, ledger>>
  BY DEF ReserveKey, chainVars
<1>2. CASE Fail(r) /\ UNCHANGED reservedBy
  BY <1>1, <1>2, FailKeepsScopes, ScopesKeep
<1>3. CASE /\ reservedBy' = [reservedBy EXCEPT ![req[r].key] = @ \cup {r}]
           /\ RequestGoto(r, "prepare") \/ Fail(r)
  <2>1. req \in [Requests -> RequestType] /\ req[r] \in RequestType
    BY DEF XrplInv, TypesHold
  <2>2. PICK step \in {"prepare", "done"} : req' = [req EXCEPT ![r] = [req[r] EXCEPT !.step = step]]
    BY <1>3, <2>1 DEF RequestGoto, Fail
  <2>3. /\ req'[r].step \in {"prepare", "done"}
        /\ \A q \in Requests : q # r => req'[q] = req[q]
        /\ \A q \in Requests : req'[q].key = req[q].key /\ req'[q].kind = req[q].kind
    BY <2>1, <2>2 DEF RequestType
  <2>4. \A q \in Requests : Scope(q)' = Scope(q) /\ (IsApplied(q)' <=> IsApplied(q))
    BY <1>1, <2>3 DEF Scope, IsApplied
  <2>5. AppliedFor' = AppliedFor
    BY <2>4 DEF AppliedFor
  <2>6. req[r].key \in XrplKeys
    BY <1>1 DEF KeyInv, Keyless
  <2>7. /\ r \in reservedBy'[req[r].key]
        /\ \A k \in XrplKeys : reservedBy[k] \subseteq reservedBy'[k]
    BY <1>3, <2>6 DEF XrplInv, TypesHold
  <2>8. \A q \in Requests : q # r /\ Reserving(q)' => Reserving(q)
    BY <1>1, <2>3, <2>4 DEF Reserving
  <2>9. \A q \in Requests : req'[q].step \in Keyless => req'[q].key \in XrplKeys
    BY <2>3, <2>6 DEF KeyInv
  <2>10. ASSUME expiries = 0, NEW q \in Requests, Reserving(q)'
         PROVE  req'[q].key \in XrplKeys /\ q \in reservedBy'[req'[q].key]
    BY <2>3, <2>6, <2>7, <2>8, <2>10 DEF KeyInv
  <2> QED
    BY <1>1, <2>5, <2>9, <2>10 DEF KeyInv
<1> QED
  BY <1>2, <1>3 DEF ReserveKey

LEMMA ArriveScopes ==
    ASSUME XrplInv, KeyInv, NEW r \in Requests, NEW kind \in Kinds, NEW h \in Holders,
           NEW k \in XrplKeys, Arrive(r, kind, h, k)
    PROVE  KeyInv' /\ AppliedFor' = AppliedFor
<1>1. /\ req[r].step = "new" /\ UNCHANGED <<reservedBy, expiries, pool, ledger>>
      /\ req' = [req EXCEPT ![r] = [NewRequest EXCEPT !.kind = kind, !.to = h, !.key = k,
                                                      !.step = Routes[kind].first]]
  BY DEF Arrive, keyVars, chainVars
<1>2. /\ req'[r].step = Routes[kind].first /\ req'[r].key = k
      /\ \A q \in Requests : q # r => req'[q] = req[q]
  BY <1>1 DEF XrplInv, TypesHold, NewRequest
<1>3. req'[r].step \notin Working
  BY <1>2, RouteType DEF Working, Recording
<1>4. r \notin pool /\ ~IsApplied(r)
  BY <1>1 DEF XrplInv, UnpreparedIsUnknown, Unprepared, IsApplied
<1>5. \A q \in Requests : IsApplied(q)' <=> IsApplied(q)
  BY <1>1 DEF IsApplied
<1>6. \A q \in Requests : Reserving(q)' => q # r /\ Reserving(q)
  BY <1>1, <1>2, <1>3, <1>4, <1>5 DEF Reserving
<1>7. KeyInv'
  BY <1>1, <1>2, <1>6 DEF KeyInv
<1>8. \A q \in Requests : IsApplied(q) => Scope(q)' = Scope(q)
  BY <1>2, <1>4 DEF Scope
<1>9. AppliedFor' = AppliedFor
  BY <1>5, <1>8 DEF AppliedFor
<1> QED
  BY <1>7, <1>9

\* The ledger applies the only transaction of its scope: the holders of a key are
\* alone on their route.
LEMMA LedgerAppliesScopes ==
    ASSUME XrplInv, KeyInv, expiries = 0, NEW r \in Requests, LedgerApplies(r)
    PROVE  KeyInv' /\ [Promise!Next]_AppliedFor
<1>1. /\ r \in pool /\ pool' = pool \ {r} /\ UNCHANGED <<req, reservedBy, expiries>>
      /\ \E result \in {"tes", "tec"} :
            ledger' = ledger \cup {[by |-> r, seq |-> req[r].seq, result |-> result]}
  BY DEF LedgerApplies, keyVars
<1>2. \A q \in Requests : IsApplied(q)' <=> IsApplied(q) \/ q = r
  <2>1. PICK result \in {"tes", "tec"} :
            ledger' = ledger \cup {[by |-> r, seq |-> req[r].seq, result |-> result]}
    BY <1>1
  <2> DEFINE new == [by |-> r, seq |-> req[r].seq, result |-> result]
  <2>2. ledger' = ledger \cup {new} /\ new.by = r
    BY <2>1
  <2> HIDE DEF new
  <2> QED
    BY <2>2 DEF IsApplied
<1>3. \A q \in Requests : Reserving(q)' => Reserving(q)
  BY <1>1, <1>2 DEF Reserving
<1>4. KeyInv'
  BY <1>1, <1>3 DEF KeyInv
<1>5. req[r].key \in XrplKeys /\ r \in reservedBy[req[r].key] /\ req[r].kind \in Kinds
  BY <1>1 DEF KeyInv, Reserving, XrplInv, TypesHold, RequestType
<1> DEFINE s == Scope(r)
<1>6. s \in XrplKeys \X Kinds
  BY <1>5 DEF Scope
<1>7. \A q \in Requests : Scope(q)' = Scope(q)
  BY <1>1 DEF Scope
<1>8. CASE IsApplied(r)
  <2>1. AppliedFor' = AppliedFor
    BY <1>2, <1>7, <1>8 DEF AppliedFor
  <2> QED
    BY <1>4, <2>1
<1>9. CASE ~IsApplied(r)
  <2>1. ASSUME NEW q \in Requests, IsApplied(q), Scope(q) = s PROVE FALSE
    <3>1. req[q].key = req[r].key /\ req[q].kind = req[r].kind
      BY <2>1 DEF Scope
    <3>2. q \in reservedBy[req[r].key]
      BY <2>1, <3>1 DEF KeyInv, Reserving
    <3>3. q = r
      BY <1>5, <3>1, <3>2 DEF XrplInv, HolderIsAlone
    <3> QED
      BY <1>9, <2>1, <3>3
  <2>2. AppliedFor[s] = {}
    BY <1>6, <2>1 DEF AppliedFor
  <2>3. ASSUME NEW p \in XrplKeys \X Kinds
        PROVE  AppliedFor'[p] = IF p = s THEN {r} ELSE AppliedFor[p]
    <3>1. AppliedFor'[p] = {q \in Requests : (IsApplied(q) \/ q = r) /\ Scope(q) = p}
      BY <1>2, <1>7 DEF AppliedFor
    <3>2. AppliedFor[p] = {q \in Requests : IsApplied(q) /\ Scope(q) = p}
      BY DEF AppliedFor
    <3> QED
      BY <2>1, <3>1, <3>2
  <2>4. AppliedFor' = [AppliedFor EXCEPT ![s] = {r}]
    BY <1>6, <2>3 DEF AppliedFor
  <2>5. Promise!Accept(s, r)
    BY <2>2, <2>4 DEF Promise!Accept
  <2> QED
    BY <1>4, <1>6, <2>5 DEF Promise!Next
<1> QED
  BY <1>8, <1>9

\* Reviews and changes of the policy concern no key, and an expired one is counted.
LEMMA OthersKeepScopes ==
    ASSUME XrplInv, KeyInv,
           \/ \E h \in Holders, status \in Decisions : Review(h, status)
           \/ \E settings \in Policies : ChangePolicy(settings)
           \/ \E k \in XrplKeys : KeyExpires(k)
           \/ UNCHANGED xrplVars
    PROVE  (expiries' = 0 /\ expiries \in Nat => KeyInv') /\ AppliedFor' = AppliedFor
<1>1. UNCHANGED <<req, pool, ledger>>
  BY DEF Review, ChangePolicy, KeyExpires, chainVars, xrplVars
<1>2. UNCHANGED <<reservedBy, expiries>> \/ expiries' = expiries + 1
  BY DEF Review, ChangePolicy, KeyExpires, keyVars, xrplVars
<1>3. AppliedFor' = AppliedFor
  BY <1>1 DEF AppliedFor, IsApplied, Scope
<1>4. \A q \in Requests : Reserving(q)' <=> Reserving(q)
  BY <1>1 DEF Reserving, IsApplied
<1>5. (expiries' = 0 /\ expiries \in Nat) => UNCHANGED <<reservedBy, expiries>>
  BY <1>2
<1>6. expiries' = 0 /\ expiries \in Nat => KeyInv'
  BY <1>1, <1>4, <1>5 DEF KeyInv
<1> QED
  BY <1>3, <1>6

\* Every step, while no key has expired.
LEMMA NextApplies ==
    ASSUME XrplInv, KeyInv, expiries = 0, expiries' = 0, [XrplNext]_xrplVars
    PROVE  KeyInv' /\ [Promise!Next]_AppliedFor
<1>1. ASSUME NEW r \in Requests, RequestStep(r) \/ RequestDies(r)
      PROVE  KeyInv' /\ AppliedFor' = AppliedFor
  <2>1. CASE ReserveKey(r)
    BY <2>1, ReserveKeyScopes
  <2>2. CASE ~ReserveKey(r)
    <3>1. /\ KeepsScopes(r) /\ UNCHANGED <<reservedBy, expiries, ledger>>
          /\ \A q \in pool' : q \in pool \/ (q = r /\ req[r].step \in Working)
      BY <1>1, <2>2, StepKeepsScopes
    <3> QED
      BY <3>1, ScopesKeep
  <2> QED
    BY <2>1, <2>2
<1>2. ASSUME NEW r \in Requests, NEW kind \in Kinds, NEW h \in Holders, NEW k \in XrplKeys,
             Arrive(r, kind, h, k)
      PROVE  KeyInv' /\ AppliedFor' = AppliedFor
  BY <1>2, ArriveScopes
<1>3. ASSUME NEW r \in Requests, LedgerApplies(r)
      PROVE  KeyInv' /\ [Promise!Next]_AppliedFor
  BY <1>3, LedgerAppliesScopes
<1>4. ASSUME NEW r \in Requests, PoolExpires(r)
      PROVE  KeyInv' /\ AppliedFor' = AppliedFor
  <2>1. KeepsScopes(r) /\ UNCHANGED <<reservedBy, expiries, ledger>> /\ pool' \subseteq pool
    BY <1>4 DEF PoolExpires, KeepsScopes, keyVars
  <2> QED
    BY <2>1, ScopesKeep
<1>5. CASE \/ \E h \in Holders, status \in Decisions : Review(h, status)
           \/ \E settings \in Policies : ChangePolicy(settings)
           \/ \E k \in XrplKeys : KeyExpires(k)
           \/ UNCHANGED xrplVars
  BY <1>5, OthersKeepScopes
<1> QED
  BY <1>1, <1>2, <1>3, <1>4, <1>5 DEF XrplNext

\* As long as no key expires, the routes keep the promise of AtMostOnce for every
\* key and route: the ledger applies one transaction of all the requests that carry
\* the key, whatever is submitted again, answered late or cut off, and never takes it
\* back (submit.service.ts).
THEOREM SubmitImplementsAtMostOnce == XrplSpec /\ [](expiries = 0) => AppliesAtMostOnce
<1>1. XrplInit => KeyInv /\ Promise!Init
  <2>1. ASSUME XrplInit PROVE \A r \in Requests : ~Reserving(r) /\ req[r].step \notin Keyless
    BY <2>1 DEF XrplInit, NewRequest, Reserving, IsApplied, Working, Recording, Keyless
  <2>2. ASSUME XrplInit PROVE AppliedFor = [s \in XrplKeys \X Kinds |-> {}]
    BY <2>2 DEF XrplInit, AppliedFor, IsApplied
  <2> QED
    BY <2>1, <2>2 DEF KeyInv, Promise!Init
<1>2. XrplInv /\ KeyInv /\ expiries = 0 /\ (expiries = 0)' /\ [XrplNext]_xrplVars
          => KeyInv' /\ [Promise!Next]_AppliedFor
  BY NextApplies
<1> QED
  BY <1>1, <1>2, InvariantHolds, PTL DEF XrplSpec, AppliesAtMostOnce, Promise!Spec
=============================================================================

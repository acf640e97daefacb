----------------------------- MODULE ServiceProofs -----------------------------
(***************************************************************************)
(* Proofs about six of the small services, for any number of calls, keys,  *)
(* requests, members of the staff, workers and processes and any limits:   *)
(* PqcAnchor, which anchors PQC bindings, PrivacyRequest, the history of   *)
(* privacy requests, Accounts, which creates wallets in two databases,     *)
(* RateLimit, of which no window lets more calls through than the limit,   *)
(* AlertDedup, which holds back no alert that was never announced, and     *)
(* SecurityAnomaly, whose rules overlook no burst and no new country; and  *)
(* about the functions of EvmFinality, as FinalityCalls calls them.        *)
(***************************************************************************)
EXTENDS PqcAnchor, PrivacyRequest, Accounts, RateLimit, AlertDedup,
        SecurityAnomaly, FinalityCalls, FiniteSetTheorems, TLAPS

\* A call that has its key and is not over.
KeyedSteps ==
    {"provider", "nonce", "sign", "send", "mark", "record", "chain", "undo", "undoSent"}

UnsentSteps == {"publish", "key", "provider", "nonce", "sign", "send", "undo"}

AnchorSteps == {"publish", "key", "over"} \cup KeyedSteps

AnchorStatuses == {Unreserved, "RESERVED", "SUBMITTED", "FAILED", "RELEASED"}

AnchorTypes ==
    /\ published \in BOOLEAN
    /\ heldKeys \subseteq AnchorKeys /\ expiredKeys \subseteq AnchorKeys
    /\ anchorNonce \in [AnchorKeys -> AnchorStatuses]
    /\ anchorAt \in [AnchorRequests -> AnchorSteps]
    /\ anchorsSent \subseteq AnchorRequests /\ committed \subseteq anchorsSent

\* Whatever goes on was published first.
PublishedFirst ==
    /\ \A r \in AnchorRequests : anchorAt[r] \notin {"publish", "over"} => published
    /\ anchorsSent # {} => published

UnsentIsUnsent == \A r \in AnchorRequests : anchorAt[r] \in UnsentSteps => r \notin anchorsSent

\* The calls that may have a nonce, as long as nothing repeats them.
Active(r) == anchorAt[r] \in KeyedSteps \/ r \in anchorsSent

OneActive ==
    \A r, q \in AnchorRequests :
        Active(r) /\ Active(q) /\ AnchorKeyOf[r] = AnchorKeyOf[q]
            /\ AnchorKeyOf[r] \notin expiredKeys => r = q

KeyOfActive == \A r \in AnchorRequests : Active(r) => AnchorKeyOf[r] \in heldKeys \cup expiredKeys

\* A nonce is not released before its call could have sent it.
UnreleasedYet ==
    /\ \A k \in AnchorKeys \ (heldKeys \cup expiredKeys) : anchorNonce[k] = Unreserved
    /\ \A r \in AnchorRequests :
        anchorAt[r] \in {"provider", "nonce", "sign", "send"} /\ AnchorKeyOf[r] \notin expiredKeys
            => anchorNonce[AnchorKeyOf[r]] # "RELEASED"

AnchorInv ==
    /\ AnchorTypes /\ PublishedFirst /\ UnsentIsUnsent /\ OneActive /\ KeyOfActive
    /\ UnreleasedYet /\ ReleasedAnchorNonceNeverSent

LEMMA AnchorInitEstablishes == AnchorInit => AnchorInv
BY AnchorAssumption
   DEF AnchorInit, AnchorInv, AnchorTypes, PublishedFirst, UnsentIsUnsent, OneActive,
       KeyOfActive, UnreleasedYet, ReleasedAnchorNonceNeverSent, Active, KeyedSteps,
       UnsentSteps, AnchorSteps, AnchorStatuses, Unreserved

\* A call that goes on with the key it has, or ends, and changes nothing else.
LEMMA AnchorMoveKeeps ==
    ASSUME AnchorInv, NEW r \in AnchorRequests, NEW s \in AnchorSteps,
           anchorAt' = [anchorAt EXCEPT ![r] = s],
           s \in KeyedSteps => anchorAt[r] \in KeyedSteps,
           s \in UnsentSteps => anchorAt[r] \in UnsentSteps,
           s \in {"provider", "nonce", "sign", "send"}
               => anchorAt[r] \in {"provider", "nonce", "sign", "send"},
           s \notin {"publish", "over"} => anchorAt[r] \notin {"publish", "over"},
           UNCHANGED <<published, keysOfAnchors, anchorNonce, chainOfAnchors>>
    PROVE  AnchorInv'
<1>1. UNCHANGED <<published, heldKeys, expiredKeys, anchorNonce, anchorsSent, committed>>
  BY DEF keysOfAnchors, chainOfAnchors
<1>2. anchorAt \in [AnchorRequests -> AnchorSteps]
  BY DEF AnchorInv, AnchorTypes
<1>3. \A q \in AnchorRequests : anchorAt'[q] = IF q = r THEN s ELSE anchorAt[q]
  BY <1>2
<1>4. \A q \in AnchorRequests : Active(q)' => Active(q)
  BY <1>1, <1>3 DEF Active
<1>5. AnchorTypes'
  BY <1>1 DEF AnchorInv, AnchorTypes
<1>6. PublishedFirst' /\ UnsentIsUnsent'
  BY <1>1, <1>3 DEF AnchorInv, PublishedFirst, UnsentIsUnsent
<1>7. OneActive' /\ KeyOfActive'
  BY <1>1, <1>4 DEF AnchorInv, OneActive, KeyOfActive
<1>8. UnreleasedYet' /\ ReleasedAnchorNonceNeverSent'
  BY <1>1, <1>3 DEF AnchorInv, UnreleasedYet, ReleasedAnchorNonceNeverSent
<1> QED
  BY <1>5, <1>6, <1>7, <1>8 DEF AnchorInv

\* The steps that change nothing of the wallet, the key, the nonce or the chain.
LEMMA AnchorOverKeeps ==
    ASSUME AnchorInv, NEW r \in AnchorRequests, AnchorGoto(r, {"over"}),
           UNCHANGED <<published, keysOfAnchors, anchorNonce, chainOfAnchors>>
    PROVE  AnchorInv'
<1>1. "over" \in AnchorSteps /\ "over" \notin KeyedSteps /\ "over" \notin UnsentSteps
  BY DEF AnchorSteps, KeyedSteps, UnsentSteps
<1> QED
  BY <1>1, AnchorMoveKeeps DEF AnchorGoto

LEMMA AnchorQuietKeeps ==
    ASSUME AnchorInv, NEW r \in AnchorRequests,
           GetAnchorProvider(r) \/ Sign(r) \/ RecordAnchor(r) \/ RecordAnchorChain(r) \/ AnchorDies(r)
    PROVE  AnchorInv'
<1> USE AnchorMoveKeeps DEF AnchorGoto, AnchorSteps, KeyedSteps, UnsentSteps, chainOfAnchors
<1>1. CASE GetAnchorProvider(r)
  BY <1>1 DEF GetAnchorProvider
<1>2. CASE Sign(r)
  BY <1>2 DEF Sign
<1>3. CASE RecordAnchor(r)
  BY <1>3 DEF RecordAnchor
<1>4. CASE RecordAnchorChain(r)
  BY <1>4 DEF RecordAnchorChain
<1>5. CASE AnchorDies(r)
  BY <1>5 DEF AnchorDies
<1> QED
  BY <1>1, <1>2, <1>3, <1>4, <1>5

LEMMA PublishKeeps ==
    ASSUME AnchorInv, NEW r \in AnchorRequests, Publish(r)
    PROVE  AnchorInv'
<1>1. PICK s \in {"key", "over"} :
          /\ anchorAt' = [anchorAt EXCEPT ![r] = s]
          /\ published => published'
          /\ s = "key" => published'
          /\ published' \in BOOLEAN
  BY DEF Publish, AnchorGoto, AnchorInv, AnchorTypes
<1>2. UNCHANGED <<heldKeys, expiredKeys, anchorNonce, anchorsSent, committed>> /\ anchorAt[r] = "publish"
  BY DEF Publish, keysOfAnchors, chainOfAnchors
<1>3. anchorAt' \in [AnchorRequests -> AnchorSteps]
  BY <1>1 DEF AnchorInv, AnchorTypes, AnchorSteps
<1>4. \A q \in AnchorRequests : anchorAt'[q] = IF q = r THEN s ELSE anchorAt[q]
  BY <1>1 DEF AnchorInv, AnchorTypes
<1>5. s \notin KeyedSteps /\ "publish" \in UnsentSteps
  BY DEF KeyedSteps, UnsentSteps
<1>6. \A q \in AnchorRequests : Active(q)' => Active(q)
  BY <1>2, <1>4, <1>5 DEF Active
<1>7. AnchorTypes'
  BY <1>1, <1>2, <1>3 DEF AnchorInv, AnchorTypes
<1>8. PublishedFirst'
  BY <1>1, <1>2, <1>4 DEF AnchorInv, PublishedFirst
<1>9. UnsentIsUnsent'
  BY <1>2, <1>4, <1>5 DEF AnchorInv, UnsentIsUnsent
<1>10. OneActive' /\ KeyOfActive'
  BY <1>2, <1>6 DEF AnchorInv, OneActive, KeyOfActive
<1>11. UnreleasedYet' /\ ReleasedAnchorNonceNeverSent'
  BY <1>2, <1>4 DEF AnchorInv, UnreleasedYet, ReleasedAnchorNonceNeverSent
<1> QED
  BY <1>7, <1>8, <1>9, <1>10, <1>11 DEF AnchorInv

LEMMA ReserveAnchorKeyKeeps ==
    ASSUME AnchorInv, NEW r \in AnchorRequests, ReserveAnchorKey(r)
    PROVE  AnchorInv'
<1> DEFINE k == AnchorKeyOf[r]
<1>1. CASE heldKeys' = heldKeys /\ AnchorGoto(r, {"over"})
  BY <1>1, AnchorOverKeeps DEF ReserveAnchorKey, keysOfAnchors
<1>2. ASSUME k \notin heldKeys, heldKeys' = heldKeys \cup {k}, NEW s \in {"provider", "over"},
             anchorAt' = [anchorAt EXCEPT ![r] = s]
      PROVE  AnchorInv'
  <2>1. /\ UNCHANGED <<published, expiredKeys, anchorNonce, anchorsSent, committed>>
        /\ anchorAt[r] = "key" /\ k \in AnchorKeys
    BY AnchorAssumption DEF ReserveAnchorKey, chainOfAnchors
  <2>2. anchorAt' \in [AnchorRequests -> AnchorSteps]
    BY <1>2 DEF AnchorInv, AnchorTypes, AnchorSteps, KeyedSteps
  <2>3. \A q \in AnchorRequests : anchorAt'[q] = IF q = r THEN s ELSE anchorAt[q]
    BY <1>2 DEF AnchorInv, AnchorTypes
  <2>4. "key" \in UnsentSteps
    BY DEF UnsentSteps
  <2>5. \A q \in AnchorRequests : Active(q)' => Active(q) \/ q = r
    BY <2>1, <2>3 DEF Active
  <2>6. AnchorTypes' /\ PublishedFirst' /\ UnsentIsUnsent'
    BY <1>2, <2>1, <2>2, <2>3, <2>4 DEF AnchorInv, AnchorTypes, PublishedFirst, UnsentIsUnsent
  <2>7. OneActive' /\ KeyOfActive'
    BY <1>2, <2>1, <2>5 DEF AnchorInv, OneActive, KeyOfActive
  <2>8. k \notin expiredKeys => anchorNonce[k] = Unreserved
    BY <1>2, <2>1 DEF AnchorInv, UnreleasedYet
  <2>9. UnreleasedYet' /\ ReleasedAnchorNonceNeverSent'
    BY <1>2, <2>1, <2>3, <2>8 DEF AnchorInv, UnreleasedYet, ReleasedAnchorNonceNeverSent, Unreserved
  <2> QED
    BY <2>6, <2>7, <2>9 DEF AnchorInv
<1> QED
  BY <1>1, <1>2 DEF ReserveAnchorKey, AnchorGoto

LEMMA AnchorKeyExpiresKeeps ==
    ASSUME AnchorInv, NEW k \in AnchorKeys, AnchorKeyExpires(k)
    PROVE  AnchorInv'
<1>1. /\ UNCHANGED <<published, anchorNonce, anchorsSent, committed, anchorAt>>
      /\ heldKeys' = heldKeys \ {k} /\ expiredKeys' = expiredKeys \cup {k}
  BY DEF AnchorKeyExpires, chainOfAnchors
<1>2. \A q \in AnchorRequests : Active(q)' <=> Active(q)
  BY <1>1 DEF Active
<1>3. AnchorTypes' /\ PublishedFirst' /\ UnsentIsUnsent'
  BY <1>1 DEF AnchorInv, AnchorTypes, PublishedFirst, UnsentIsUnsent
<1>4. OneActive' /\ KeyOfActive'
  BY <1>1, <1>2 DEF AnchorInv, OneActive, KeyOfActive
<1>5. UnreleasedYet' /\ ReleasedAnchorNonceNeverSent'
  BY <1>1 DEF AnchorInv, UnreleasedYet, ReleasedAnchorNonceNeverSent
<1> QED
  BY <1>3, <1>4, <1>5 DEF AnchorInv

\* A call with a key that goes on may write the status of its nonce.
LEMMA AnchorNonceKeeps ==
    ASSUME AnchorInv, NEW r \in AnchorRequests, NEW s \in AnchorSteps, NEW status \in AnchorStatuses,
           anchorAt[r] \in KeyedSteps, anchorAt' = [anchorAt EXCEPT ![r] = s],
           anchorNonce' = [anchorNonce EXCEPT ![AnchorKeyOf[r]] = status],
           status = "RELEASED" => anchorAt[r] \in UnsentSteps \/ anchorNonce[AnchorKeyOf[r]] = status,
           status = "RELEASED" => s \notin {"provider", "nonce", "sign", "send"}
                                    \/ anchorNonce[AnchorKeyOf[r]] = status,
           s \in UnsentSteps => anchorAt[r] \in UnsentSteps, s \notin {"publish", "key"},
           s \in {"provider", "nonce", "sign", "send"}
               => anchorAt[r] \in {"provider", "nonce", "sign", "send"},
           UNCHANGED <<published, keysOfAnchors, chainOfAnchors>>
    PROVE  AnchorInv'
<1> DEFINE k == AnchorKeyOf[r]
<1>1. /\ UNCHANGED <<published, heldKeys, expiredKeys, anchorsSent, committed>>
      /\ k \in AnchorKeys
  BY AnchorAssumption DEF keysOfAnchors, chainOfAnchors
<1>2. \A q \in AnchorRequests : anchorAt'[q] = IF q = r THEN s ELSE anchorAt[q]
  BY DEF AnchorInv, AnchorTypes
<1>3. \A l \in AnchorKeys : anchorNonce'[l] = IF l = k THEN status ELSE anchorNonce[l]
  BY DEF AnchorInv, AnchorTypes
<1>4. Active(r) /\ \A q \in AnchorRequests : Active(q)' => Active(q)
  BY <1>1, <1>2 DEF Active
<1>5. AnchorTypes'
  BY <1>1 DEF AnchorInv, AnchorTypes
<1>6. PublishedFirst' /\ UnsentIsUnsent'
  BY <1>1, <1>2 DEF AnchorInv, PublishedFirst, UnsentIsUnsent, KeyedSteps
<1>7. OneActive' /\ KeyOfActive'
  BY <1>1, <1>4 DEF AnchorInv, OneActive, KeyOfActive
<1>8. \A q \in AnchorRequests :
          AnchorKeyOf[q] = k /\ k \notin expiredKeys /\ Active(q) => q = r
  BY <1>4 DEF AnchorInv, OneActive
<1>9. k \in heldKeys \cup expiredKeys
  BY <1>4 DEF AnchorInv, KeyOfActive
<1>10. UnreleasedYet'
  <2>1. \A l \in AnchorKeys \ (heldKeys \cup expiredKeys) : anchorNonce'[l] = Unreserved
    BY <1>3, <1>9 DEF AnchorInv, UnreleasedYet
  <2>2. ASSUME NEW q \in AnchorRequests, anchorAt'[q] \in {"provider", "nonce", "sign", "send"},
               AnchorKeyOf[q] \notin expiredKeys
        PROVE  anchorNonce'[AnchorKeyOf[q]] # "RELEASED"
    <3>1. AnchorKeyOf[q] \in AnchorKeys
      BY AnchorAssumption
    <3>2. Active(q)'
      BY <2>2 DEF Active, KeyedSteps
    <3> QED
      BY <1>2, <1>3, <1>4, <1>8, <2>2, <3>1, <3>2 DEF AnchorInv, UnreleasedYet
  <2> QED
    BY <1>1, <2>1, <2>2 DEF UnreleasedYet
<1>11. ReleasedAnchorNonceNeverSent'
  <2>1. ASSUME NEW q \in anchorsSent, k \notin expiredKeys, AnchorKeyOf[q] = k, status = "RELEASED",
               anchorNonce[k] # status
        PROVE  FALSE
    <3>1. q \in AnchorRequests /\ Active(q)
      BY <2>1 DEF AnchorInv, AnchorTypes, Active
    <3>2. q = r
      BY <1>8, <2>1, <3>1
    <3> QED
      BY <2>1, <3>2 DEF AnchorInv, UnsentIsUnsent
  <2> QED
    BY <1>1, <1>3, <2>1 DEF AnchorInv, ReleasedAnchorNonceNeverSent
<1> QED
  BY <1>5, <1>6, <1>7, <1>10, <1>11 DEF AnchorInv

LEMMA ReserveAnchorNonceKeeps ==
    ASSUME AnchorInv, NEW r \in AnchorRequests, ReserveAnchorNonce(r)
    PROVE  AnchorInv'
<1>1. CASE anchorNonce' = anchorNonce /\ AnchorGoto(r, {"over"})
  BY <1>1, AnchorOverKeeps DEF ReserveAnchorNonce
<1> DEFINE k == AnchorKeyOf[r]
           status == IF anchorNonce[k] = Unreserved THEN "RESERVED" ELSE anchorNonce[k]
<1>2. ASSUME NEW s \in {"sign", "over"}, anchorAt' = [anchorAt EXCEPT ![r] = s],
             anchorNonce' = [anchorNonce EXCEPT ![k] = status]
      PROVE  AnchorInv'
  <2>1. status \in AnchorStatuses /\ (status = "RELEASED" => anchorNonce[k] = status)
    BY AnchorAssumption DEF AnchorInv, AnchorTypes, AnchorStatuses
  <2> HIDE DEF status
  <2>2. s \in AnchorSteps /\ anchorAt[r] \in KeyedSteps /\ anchorAt[r] = "nonce"
    BY DEF AnchorSteps, KeyedSteps, ReserveAnchorNonce
  <2>3. "nonce" \in UnsentSteps
    BY DEF UnsentSteps
  <2> QED
    BY <1>2, <2>1, <2>2, <2>3, AnchorNonceKeeps DEF ReserveAnchorNonce
<1> QED
  BY <1>1, <1>2 DEF ReserveAnchorNonce, AnchorGoto

LEMMA MarkAnchorNonceKeeps ==
    ASSUME AnchorInv, NEW r \in AnchorRequests, MarkAnchorNonce(r)
    PROVE  AnchorInv'
<1>1. CASE anchorNonce' = anchorNonce /\ AnchorGoto(r, {"undoSent"})
  BY <1>1, AnchorMoveKeeps
     DEF MarkAnchorNonce, AnchorGoto, AnchorSteps, KeyedSteps, UnsentSteps
<1>2. CASE /\ anchorNonce' = [anchorNonce EXCEPT ![AnchorKeyOf[r]] = "SUBMITTED"]
           /\ AnchorGoto(r, {"record", "undoSent"})
  BY <1>2, AnchorNonceKeeps
     DEF MarkAnchorNonce, AnchorGoto, AnchorSteps, KeyedSteps, UnsentSteps, AnchorStatuses
<1> QED
  BY <1>1, <1>2 DEF MarkAnchorNonce

LEMMA UndoAnchorKeeps ==
    ASSUME AnchorInv, NEW r \in AnchorRequests, UndoAnchor(r)
    PROVE  AnchorInv'
<1>1. CASE anchorNonce' = anchorNonce
  BY <1>1, AnchorOverKeeps DEF UndoAnchor
<1>2. CASE anchorNonce' = [anchorNonce EXCEPT ![AnchorKeyOf[r]] = StatusAfterError(r)]
  <2>1. /\ anchorAt[r] \in KeyedSteps /\ StatusAfterError(r) \in AnchorStatuses
        /\ StatusAfterError(r) = "RELEASED" => anchorAt[r] \in UnsentSteps
    BY DEF UndoAnchor, StatusAfterError, KeyedSteps, AnchorStatuses, UnsentSteps
  <2>2. /\ anchorAt' = [anchorAt EXCEPT ![r] = "over"]
        /\ "over" \in AnchorSteps /\ "over" \notin UnsentSteps
    BY DEF UndoAnchor, AnchorGoto, AnchorSteps, UnsentSteps
  <2> QED
    BY <1>2, <2>1, <2>2, AnchorNonceKeeps DEF UndoAnchor
<1> QED
  BY <1>1, <1>2 DEF UndoAnchor

LEMMA SendAnchorKeeps ==
    ASSUME AnchorInv, NEW r \in AnchorRequests, SendAnchor(r)
    PROVE  AnchorInv'
<1>1. CASE anchorsSent' = anchorsSent /\ AnchorGoto(r, {"undoSent"})
  BY <1>1, AnchorMoveKeeps
     DEF SendAnchor, AnchorGoto, AnchorSteps, KeyedSteps, UnsentSteps, chainOfAnchors
<1>2. ASSUME anchorsSent' = anchorsSent \cup {r}, NEW s \in {"mark", "undoSent"},
             anchorAt' = [anchorAt EXCEPT ![r] = s]
      PROVE  AnchorInv'
  <2>1. /\ UNCHANGED <<published, heldKeys, expiredKeys, anchorNonce, committed>>
        /\ anchorAt[r] = "send"
    BY DEF SendAnchor, keysOfAnchors
  <2>2. anchorAt' \in [AnchorRequests -> AnchorSteps]
    BY <1>2 DEF AnchorInv, AnchorTypes, AnchorSteps, KeyedSteps
  <2>3. \A q \in AnchorRequests : anchorAt'[q] = IF q = r THEN s ELSE anchorAt[q]
    BY <1>2 DEF AnchorInv, AnchorTypes
  <2>4. "send" \in KeyedSteps /\ s \notin UnsentSteps
    BY DEF KeyedSteps, UnsentSteps
  <2>5. Active(r) /\ \A q \in AnchorRequests : Active(q)' => Active(q)
    BY <1>2, <2>1, <2>3, <2>4 DEF Active
  <2>6. AnchorTypes'
    BY <1>2, <2>1, <2>2 DEF AnchorInv, AnchorTypes
  <2>7. PublishedFirst' /\ UnsentIsUnsent'
    BY <1>2, <2>1, <2>3, <2>4 DEF AnchorInv, PublishedFirst, UnsentIsUnsent
  <2>8. OneActive' /\ KeyOfActive'
    BY <2>1, <2>5 DEF AnchorInv, OneActive, KeyOfActive
  <2>9. UnreleasedYet'
    BY <2>1, <2>3 DEF AnchorInv, UnreleasedYet
  <2>10. AnchorKeyOf[r] \notin expiredKeys => anchorNonce[AnchorKeyOf[r]] # "RELEASED"
    BY <2>1 DEF AnchorInv, UnreleasedYet
  <2>11. ReleasedAnchorNonceNeverSent'
    BY <1>2, <2>1, <2>10 DEF AnchorInv, ReleasedAnchorNonceNeverSent
  <2> QED
    BY <2>6, <2>7, <2>8, <2>9, <2>11 DEF AnchorInv
<1> QED
  BY <1>1, <1>2 DEF SendAnchor, AnchorGoto

LEMMA CommitBindingKeeps ==
    ASSUME AnchorInv, NEW r \in AnchorRequests, CommitBinding(r)
    PROVE  AnchorInv'
<1>1. /\ UNCHANGED <<published, heldKeys, expiredKeys, anchorNonce, anchorsSent, anchorAt>>
      /\ committed' = committed \cup {r} /\ r \in anchorsSent
  BY DEF CommitBinding, keysOfAnchors
<1> QED
  BY <1>1 DEF AnchorInv, AnchorTypes, PublishedFirst, UnsentIsUnsent, OneActive, KeyOfActive,
              UnreleasedYet, ReleasedAnchorNonceNeverSent, Active

LEMMA AnchorNextKeeps == AnchorInv /\ [AnchorNext]_anchorVars => AnchorInv'
<1> SUFFICES ASSUME AnchorInv, [AnchorNext]_anchorVars PROVE AnchorInv'
  OBVIOUS
<1>1. CASE AnchorNext
  BY <1>1, PublishKeeps, ReserveAnchorKeyKeeps, ReserveAnchorNonceKeeps, AnchorQuietKeeps,
     SendAnchorKeeps, MarkAnchorNonceKeeps, UndoAnchorKeeps, CommitBindingKeeps,
     AnchorKeyExpiresKeeps
     DEF AnchorNext
<1>2. CASE UNCHANGED anchorVars
  BY <1>2 DEF anchorVars, keysOfAnchors, chainOfAnchors, AnchorInv, AnchorTypes, PublishedFirst,
              UnsentIsUnsent, OneActive, KeyOfActive, UnreleasedYet,
              ReleasedAnchorNonceNeverSent, Active
<1> QED
  BY <1>1, <1>2

\* Whatever the registry names can be looked up.
THEOREM CommitmentsResolve == AnchorSpec => []CommittedIsResolvable
<1>1. AnchorInv => CommittedIsResolvable
  BY DEF AnchorInv, AnchorTypes, PublishedFirst, CommittedIsResolvable
<1> QED
  BY <1>1, AnchorInitEstablishes, AnchorNextKeeps, PTL DEF AnchorSpec

\* No nonce that was sent is released, as long as the key of its call holds.
THEOREM SentNonceIsKept == AnchorSpec => []ReleasedAnchorNonceNeverSent
<1>1. AnchorInv => ReleasedAnchorNonceNeverSent
  BY DEF AnchorInv
<1> QED
  BY <1>1, AnchorInitEstablishes, AnchorNextKeeps, PTL DEF AnchorSpec

---------------------------------------------------------------------------
LiveStatuses == {"received", "under_review", "fulfilled", "rejected"}

PrivacyStatuses == LiveStatuses \cup {NoRequest, "deleted"}

StatusEvent == [from : PrivacyStatuses, to : PrivacyStatuses]

PrivacyTypes ==
    /\ privacyStatus \in [PrivacyIds -> PrivacyStatuses]
    /\ privacyEvents \in [PrivacyIds -> Seq(StatusEvent)]
    /\ update \in [Staff -> {NoUpdate} \cup [id : PrivacyIds, status : LiveStatuses]]
    /\ resolvedLong \subseteq PrivacyIds
    /\ selected \in [Purgers -> SUBSET PrivacyIds]

\* What waits for its deletion is resolved, and what a purge has selected still
\* waits or was deleted by another one.
SelectedIsResolved ==
    /\ \A id \in resolvedLong : privacyStatus[id] \in Resolved
    /\ \A p \in Purgers : \A id \in selected[p] :
        id \in resolvedLong \/ privacyStatus[id] = "deleted"

\* A history that leads to a status.
Explains(events, status) ==
    /\ events # << >>
    /\ events[1] = [from |-> NoRequest, to |-> "received"]
    /\ events[Len(events)].to = status
    /\ \A i \in 2..Len(events) : /\ events[i].from = events[i - 1].to
                                 /\ events[i].to \in TransitionsOf(events[i].from)

PrivacyInv ==
    /\ PrivacyTypes /\ SelectedIsResolved
    /\ \A id \in PrivacyIds :
        IF privacyStatus[id] \in {NoRequest, "deleted"} THEN privacyEvents[id] = << >>
        ELSE Explains(privacyEvents[id], privacyStatus[id])

\* A transition of the route leads a history on.
LEMMA AppendExplains ==
    ASSUME NEW events \in Seq(StatusEvent), NEW from \in LiveStatuses, Explains(events, from),
           NEW to \in TransitionsOf(from)
    PROVE  Explains(Append(events, [from |-> from, to |-> to]), to)
<1> DEFINE event == [from |-> from, to |-> to]
           longer == Append(events, event)
<1>1. Len(events) \in Nat /\ Len(events) > 0 /\ Len(longer) = Len(events) + 1
  BY DEF Explains
<1>2. longer[Len(longer)] = event /\ \A i \in 1..Len(events) : longer[i] = events[i]
  BY <1>1
<1> HIDE DEF longer
<1>3. \A i \in 2..Len(longer) : /\ longer[i].from = longer[i - 1].to
                                /\ longer[i].to \in TransitionsOf(longer[i].from)
  <2>1. SUFFICES ASSUME NEW i \in 2..Len(longer)
                 PROVE  /\ longer[i].from = longer[i - 1].to
                        /\ longer[i].to \in TransitionsOf(longer[i].from)
    OBVIOUS
  <2>2. i - 1 \in 1..Len(events)
    BY <1>1, <2>1
  <2>3. CASE i = Len(longer)
    <3>1. longer[i] = event /\ longer[i - 1] = events[Len(events)]
      BY <1>1, <1>2, <2>2, <2>3
    <3> QED
      BY <3>1 DEF Explains
  <2>4. CASE i # Len(longer)
    <3>1. i \in 2..Len(events) /\ longer[i] = events[i] /\ longer[i - 1] = events[i - 1]
      BY <1>1, <1>2, <2>1, <2>2, <2>4
    <3> QED
      BY <3>1 DEF Explains
  <2> QED
    BY <2>3, <2>4
<1>4. longer # << >> /\ longer[1] = events[1] /\ longer[Len(longer)].to = to
  BY <1>1, <1>2
<1> QED
  BY <1>3, <1>4 DEF Explains, longer

LEMMA PrivacyInitEstablishes == PrivacyInit => PrivacyInv
BY DEF PrivacyInit, PrivacyInv, PrivacyTypes, PrivacyStatuses, SelectedIsResolved, NoRequest

\* The steps of updates that are not committed, of the clock and of selections.
LEMMA PrivacyQuietKeeps ==
    ASSUME PrivacyInv, PrivacyTypes', UNCHANGED <<privacyStatus, privacyEvents>>,
           \A id \in resolvedLong' : id \in resolvedLong \/ privacyStatus[id] \in Resolved,
           resolvedLong \subseteq resolvedLong',
           \A p \in Purgers : selected'[p] \subseteq selected[p] \/ selected'[p] \subseteq resolvedLong
    PROVE  PrivacyInv'
BY DEF PrivacyInv, SelectedIsResolved

LEMMA CreatePrivacyRequestKeeps ==
    ASSUME PrivacyInv, NEW id \in PrivacyIds, CreatePrivacyRequest(id)
    PROVE  PrivacyInv'
<1> DEFINE event == [from |-> NoRequest, to |-> "received"]
<1>1. /\ privacyEvents[id] = << >> /\ event \in StatusEvent
      /\ "received" \in PrivacyStatuses \ {NoRequest, "deleted"}
  BY DEF CreatePrivacyRequest, PrivacyInv, StatusEvent, PrivacyStatuses, LiveStatuses, NoRequest
<1>2. /\ privacyStatus' = [privacyStatus EXCEPT ![id] = "received"]
      /\ privacyEvents' = [privacyEvents EXCEPT ![id] = Append(<< >>, event)]
      /\ UNCHANGED <<resolvedLong, update, selected>> /\ privacyStatus[id] = NoRequest
  BY <1>1 DEF CreatePrivacyRequest, AddEvent, PrivacyInv, PrivacyTypes
<1>3. Append(<< >>, event) \in Seq(StatusEvent)
  BY <1>1
<1>4. Explains(Append(<< >>, event), "received")
  BY DEF Explains
<1>5. PrivacyTypes'
  BY <1>1, <1>2, <1>3 DEF PrivacyInv, PrivacyTypes
<1>6. \A q \in PrivacyIds : /\ q # id => /\ privacyStatus'[q] = privacyStatus[q]
                                         /\ privacyEvents'[q] = privacyEvents[q]
                            /\ privacyStatus'[id] = "received"
                            /\ privacyEvents'[id] = Append(<< >>, event)
  BY <1>2 DEF PrivacyInv, PrivacyTypes
<1>7. SelectedIsResolved'
  <2>1. id \notin resolvedLong /\ \A p \in Purgers : id \notin selected[p]
    BY <1>2 DEF PrivacyInv, SelectedIsResolved, Resolved, NoRequest
  <2> QED
    BY <1>2, <1>6, <2>1 DEF PrivacyInv, PrivacyTypes, SelectedIsResolved
<1> HIDE DEF event
<1> QED
  BY <1>1, <1>4, <1>5, <1>6, <1>7 DEF PrivacyInv

LEMMA CommitUpdateKeeps ==
    ASSUME PrivacyInv, NEW s \in Staff, CommitUpdate(s)
    PROVE  PrivacyInv'
<1> DEFINE id == update[s].id
           from == update[s].status
<1>1. id \in PrivacyIds /\ from \in LiveStatuses /\ privacyStatus[id] = from
  BY DEF CommitUpdate, StillAsRead, PrivacyInv, PrivacyTypes
<1>2. PICK to \in TransitionsOf(from) :
          /\ privacyStatus' = [privacyStatus EXCEPT ![id] = to]
          /\ AddEvent(id, from, to)
  BY DEF CommitUpdate
<1>3. to \in LiveStatuses /\ from \notin Resolved
  BY <1>1 DEF TransitionsOf, LiveStatuses, Resolved
<1> DEFINE longer == Append(privacyEvents[id], [from |-> from, to |-> to])
<1>4. Explains(privacyEvents[id], from) /\ privacyEvents[id] \in Seq(StatusEvent)
  BY <1>1 DEF PrivacyInv, PrivacyTypes, LiveStatuses, NoRequest
<1>5. Explains(longer, to)
  BY <1>1, <1>2, <1>4, AppendExplains
<1>6. longer \in Seq(StatusEvent)
  <2>1. [from |-> from, to |-> to] \in StatusEvent
    BY <1>1, <1>3 DEF StatusEvent, PrivacyStatuses
  <2> QED
    BY <1>4, <2>1
<1>7. /\ privacyEvents' = [privacyEvents EXCEPT ![id] = longer]
      /\ update' = [update EXCEPT ![s] = NoUpdate] /\ UNCHANGED <<resolvedLong, selected>>
  BY <1>2 DEF CommitUpdate, AddEvent, PrivacyInv, PrivacyTypes
<1> HIDE DEF id, from, longer
<1>8. PrivacyTypes'
  BY <1>1, <1>2, <1>3, <1>6, <1>7 DEF PrivacyInv, PrivacyTypes, PrivacyStatuses
<1>9. /\ \A q \in PrivacyIds : q # id => /\ privacyStatus'[q] = privacyStatus[q]
                                         /\ privacyEvents'[q] = privacyEvents[q]
      /\ privacyStatus'[id] = to /\ privacyEvents'[id] = longer
  BY <1>1, <1>2, <1>7 DEF PrivacyInv, PrivacyTypes
<1>10. SelectedIsResolved'
  <2>1. id \notin resolvedLong /\ \A p \in Purgers : id \notin selected[p]
    BY <1>1, <1>3 DEF PrivacyInv, SelectedIsResolved, LiveStatuses
  <2> QED
    BY <1>7, <1>9, <2>1 DEF PrivacyInv, PrivacyTypes, SelectedIsResolved
<1>11. to \notin {NoRequest, "deleted"}
  BY <1>3 DEF LiveStatuses, NoRequest
<1> QED
  BY <1>5, <1>8, <1>9, <1>10, <1>11 DEF PrivacyInv

LEMMA DeleteSelectedKeeps ==
    ASSUME PrivacyInv, NEW p \in Purgers, DeleteSelected(p)
    PROVE  PrivacyInv'
<1>1. \A q \in selected[p] : privacyStatus[q] \in Resolved \cup {"deleted"}
  BY DEF PrivacyInv, SelectedIsResolved
<1>2. \A q \in PrivacyIds :
          /\ q \in selected[p] => privacyEvents'[q] = << >> /\ privacyStatus'[q] = "deleted"
          /\ q \notin selected[p] => /\ privacyEvents'[q] = privacyEvents[q]
                                     /\ privacyStatus'[q] = privacyStatus[q]
  BY DEF DeleteSelected, PrivacyInv, PrivacyTypes, SelectedIsResolved
<1>3. /\ resolvedLong' = resolvedLong \ selected[p] /\ update' = update
      /\ selected' = [selected EXCEPT ![p] = {}]
  BY DEF DeleteSelected
<1>4. PrivacyTypes'
  BY <1>3 DEF DeleteSelected, PrivacyInv, PrivacyTypes, PrivacyStatuses
<1>5. SelectedIsResolved'
  BY <1>2, <1>3 DEF PrivacyInv, PrivacyTypes, SelectedIsResolved
<1> QED
  BY <1>2, <1>4, <1>5 DEF PrivacyInv

LEMMA PrivacyOthersKeep ==
    ASSUME PrivacyInv,
           \/ \E s \in Staff, id \in PrivacyIds : ReadPrivacyRequest(s, id)
           \/ \E s \in Staff : AbandonUpdate(s)
           \/ \E id \in PrivacyIds : RetentionPasses(id)
           \/ \E p \in Purgers : SelectResolved(p) \/ AbandonPurge(p)
    PROVE  PrivacyInv'
<1>1. ASSUME NEW s \in Staff, NEW id \in PrivacyIds, ReadPrivacyRequest(s, id) PROVE PrivacyInv'
  <2>1. privacyStatus[id] \in LiveStatuses
    BY <1>1 DEF ReadPrivacyRequest, TransitionsOf, LiveStatuses
  <2>2. PrivacyTypes'
    BY <1>1, <2>1 DEF ReadPrivacyRequest, PrivacyInv, PrivacyTypes
  <2> QED
    BY <1>1, <2>2, PrivacyQuietKeeps DEF ReadPrivacyRequest
<1>2. ASSUME NEW s \in Staff, AbandonUpdate(s) PROVE PrivacyInv'
  <2>1. PrivacyTypes'
    BY <1>2 DEF AbandonUpdate, PrivacyInv, PrivacyTypes
  <2> QED
    BY <1>2, <2>1, PrivacyQuietKeeps DEF AbandonUpdate
<1>3. ASSUME NEW id \in PrivacyIds, RetentionPasses(id) PROVE PrivacyInv'
  <2>1. PrivacyTypes'
    BY <1>3 DEF RetentionPasses, PrivacyInv, PrivacyTypes
  <2> QED
    BY <1>3, <2>1, PrivacyQuietKeeps DEF RetentionPasses
<1>4. ASSUME NEW p \in Purgers, SelectResolved(p) \/ AbandonPurge(p) PROVE PrivacyInv'
  <2>1. PrivacyTypes'
    BY <1>4 DEF SelectResolved, AbandonPurge, PrivacyInv, PrivacyTypes
  <2>2. \A q \in Purgers : selected'[q] \subseteq selected[q] \/ selected'[q] \subseteq resolvedLong
    BY <1>4 DEF SelectResolved, AbandonPurge, PrivacyInv, PrivacyTypes
  <2> QED
    BY <1>4, <2>1, <2>2, PrivacyQuietKeeps DEF SelectResolved, AbandonPurge
<1> QED
  BY <1>1, <1>2, <1>3, <1>4

LEMMA PrivacyNextKeeps == PrivacyInv /\ [PrivacyNext]_privacyVars => PrivacyInv'
<1> SUFFICES ASSUME PrivacyInv, [PrivacyNext]_privacyVars PROVE PrivacyInv'
  OBVIOUS
<1>1. CASE PrivacyNext
  BY <1>1, CreatePrivacyRequestKeeps, CommitUpdateKeeps, DeleteSelectedKeeps, PrivacyOthersKeep
     DEF PrivacyNext
<1>2. CASE UNCHANGED privacyVars
  BY <1>2 DEF privacyVars, PrivacyInv, PrivacyTypes, SelectedIsResolved
<1> QED
  BY <1>1, <1>2

\* Concurrent updates and purges leave each request with the history of its status.
THEOREM HistoriesExplain == PrivacySpec => []HistoryExplainsStatus
<1>1. PrivacyInv => HistoryExplainsStatus
  BY DEF PrivacyInv, Explains, HistoryExplainsStatus
<1> QED
  BY <1>1, PrivacyInitEstablishes, PrivacyNextKeeps, PTL DEF PrivacySpec

CreationSteps == {"start", "persist", "link", "cleanup", "created", "refused"}

AccountsTypes ==
    /\ accounts \subseteq [id : Signups, name : Usernames, email : Emails \cup {NoEmail}]
    /\ form \in [Signups -> Forms]
    /\ order \in [Creations -> {"none"} \cup [account : Signups, seed : Seeds]]
    /\ creationAt \in [Creations -> CreationSteps]

\* What is there at each step of a creation.
CreationStands(c) ==
    /\ creationAt[c] \in {"start", "persist"} => c \notin wallets
    /\ creationAt[c] \in {"link", "created"} => c \in wallets
    /\ creationAt[c] = "created" => <<order[c].account, c>> \in owners
    /\ creationAt[c] # "start" => \E a \in accounts : a.id = order[c].account
    /\ creationAt[c] = "refused" /\ c \in wallets => c \in hit

AccountsInv == AccountsTypes /\ \A c \in Creations : CreationStands(c)

LEMMA AccountsInitEstablishes == AccountsInit => AccountsInv
BY DEF AccountsInit, AccountsInv, AccountsTypes, CreationStands, CreationSteps

\* Registrations only add accounts.
LEMMA SignupKeeps ==
    ASSUME AccountsInv, NEW s \in Signups, FindUsername(s) \/ FindEmail(s) \/ CreateUser(s)
    PROVE  AccountsInv'
<1>1. UNCHANGED <<form, creationVars>>
  BY DEF FindUsername, FindEmail, CreateUser
<1>2. accounts \subseteq accounts'
  BY DEF FindUsername, FindEmail, CreateUser
<1>3. accounts' \subseteq [id : Signups, name : Usernames, email : Emails \cup {NoEmail}]
  BY DEF FindUsername, FindEmail, CreateUser, AccountsInv, AccountsTypes, Forms
<1> QED
  BY <1>1, <1>2, <1>3 DEF AccountsInv, AccountsTypes, CreationStands, creationVars

\* A step of a creation, of which the others see nothing.
LEMMA CreationKeeps ==
    ASSUME AccountsInv, NEW c \in Creations, AccountsTypes', CreationStands(c)',
           UNCHANGED accounts, hit \subseteq hit', owners \subseteq owners',
           \A d \in Creations \ {c} : /\ creationAt'[d] = creationAt[d] /\ order'[d] = order[d]
                                      /\ d \in wallets' <=> d \in wallets
    PROVE  AccountsInv'
BY DEF AccountsInv, CreationStands

LEMMA StartCreationKeeps ==
    ASSUME AccountsInv, NEW c \in Creations, StartCreation(c)
    PROVE  AccountsInv'
<1>1. PICK a \in accounts, seed \in Seeds :
          order' = [order EXCEPT ![c] = [account |-> a.id, seed |-> seed]]
  BY DEF StartCreation
<1>2. a.id \in Signups /\ creationAt' = [creationAt EXCEPT ![c] = "persist"]
      /\ UNCHANGED <<accounts, form, wallets, owners, hit>> /\ creationAt[c] = "start"
  BY DEF StartCreation, CreationGoto, AccountsInv, AccountsTypes, signupVars
<1>3. AccountsTypes'
  BY <1>1, <1>2 DEF AccountsInv, AccountsTypes, CreationSteps
<1>4. CreationStands(c)'
  BY <1>1, <1>2 DEF AccountsInv, AccountsTypes, CreationStands
<1> QED
  BY <1>1, <1>2, <1>3, <1>4, CreationKeeps DEF AccountsInv, AccountsTypes

LEMMA LaterCreationKeeps ==
    ASSUME AccountsInv, NEW c \in Creations,
           PersistWallet(c) \/ LinkWallet(c) \/ CleanUp(c) \/ CreationDies(c)
    PROVE  AccountsInv'
<1>1. /\ UNCHANGED <<accounts, form, order>> /\ creationAt[c] # "start"
      /\ \E step \in CreationSteps \ {"start", "persist"} :
             creationAt' = [creationAt EXCEPT ![c] = step]
      /\ hit \subseteq hit' /\ owners \subseteq owners'
      /\ \A d \in Creations \ {c} : d \in wallets' <=> d \in wallets
  BY DEF PersistWallet, LinkWallet, CleanUp, CreationDies, CreationGoto, CreationSteps, signupVars
<1>2. AccountsTypes'
  BY <1>1 DEF AccountsInv, AccountsTypes, CreationSteps
<1>3. CreationStands(c)'
  <2>1. CASE PersistWallet(c)
    BY <2>1 DEF PersistWallet, CreationGoto, AccountsInv, AccountsTypes, CreationStands, signupVars
  <2>2. CASE LinkWallet(c)
    BY <2>2 DEF LinkWallet, CreationGoto, AccountsInv, AccountsTypes, CreationStands, signupVars
  <2>3. CASE CleanUp(c)
    BY <2>3 DEF CleanUp, CreationGoto, AccountsInv, AccountsTypes, CreationStands, signupVars
  <2>4. CASE CreationDies(c)
    BY <2>4 DEF CreationDies, CreationGoto, AccountsInv, AccountsTypes, CreationStands, signupVars
  <2> QED
    BY <2>1, <2>2, <2>3, <2>4
<1> QED
  BY <1>1, <1>2, <1>3, CreationKeeps DEF AccountsInv, AccountsTypes

LEMMA AccountsNextKeeps == AccountsInv /\ [AccountsNext]_accountsVars => AccountsInv'
<1> SUFFICES ASSUME AccountsInv, [AccountsNext]_accountsVars PROVE AccountsInv'
  OBVIOUS
<1>1. CASE AccountsNext
  BY <1>1, SignupKeeps, StartCreationKeeps, LaterCreationKeeps DEF AccountsNext
<1>2. CASE UNCHANGED accountsVars
  BY <1>2 DEF accountsVars, signupVars, creationVars, AccountsInv, AccountsTypes, CreationStands
<1> QED
  BY <1>1, <1>2

\* A wallet is reported exactly as the two databases have it, as long as the
\* process that creates it lives and can undo what it did.
THEOREM AnswersAreKept == AccountsSpec => []AnswerIsKept
<1>1. AccountsInv => AnswerIsKept
  BY DEF AccountsInv, CreationStands, AnswerIsKept
<1> QED
  BY <1>1, AccountsInitEstablishes, AccountsNextKeeps, PTL DEF AccountsSpec

---------------------------------------------------------------------------
PendingSteps == {"start", "expire", "ttl", "repair"}

RateSteps == PendingSteps \cup {"accepted", "exceeded", "unavailable", "dead"}

CallType ==
    [step : RateSteps, host : Hosts, store : {"none", "redis", "memory"}, count : Nat, window : Nat]

CounterType == [count : Nat, ttl : Int, window : Nat]

BucketType == [remaining : Nat, ttl : Nat, window : Nat]

RateTypes ==
    /\ counter \in CounterType /\ (counter.ttl = NoExpiry \/ counter.ttl > 0)
    /\ bucket \in [Hosts -> BucketType]
    /\ call \in [LimitedCalls -> CallType]

\* A call that has counted in Redis and relies on it.
CountedCall(c) ==
    \/ call[c].step \in {"expire", "ttl", "repair"}
    \/ call[c].step \in {"accepted", "exceeded"} /\ call[c].store = "redis"

\* The counts of a window are handed out once each, and the counter is not behind.
CountsAreUnique ==
    /\ \A c \in LimitedCalls : CountedCall(c) =>
        /\ call[c].count >= 1 /\ call[c].window <= counter.window
        /\ call[c].window = counter.window /\ counter.count > 0 => call[c].count <= counter.count
    /\ \A c, d \in LimitedCalls :
        CountedCall(c) /\ CountedCall(d) /\ call[c].window = call[d].window
            /\ call[c].count = call[d].count => c = d

AcceptedWithinLimit ==
    \A c \in LimitedCalls :
        call[c].step = "accepted" /\ call[c].store = "redis" => call[c].count <= Limit

CounterInv == CountsAreUnique /\ AcceptedWithinLimit /\ WindowEnds

\* The calls a window of the memory of a process has let through.
MemoryThrough(h, window) ==
    {c \in LimitedCalls : /\ call[c].step = "accepted" /\ call[c].store = "memory"
                          /\ call[c].host = h /\ call[c].window = window}

MemoryInv ==
    /\ \A h \in Hosts :
        /\ \A window \in Nat : /\ window > bucket[h].window => MemoryThrough(h, window) = {}
                               /\ Cardinality(MemoryThrough(h, window)) <= Limit
        /\ Cardinality(MemoryThrough(h, bucket[h].window)) + bucket[h].remaining <= Limit
    /\ mode = "distributed" => \A c \in LimitedCalls : call[c].store # "memory"

RateInv == RateTypes /\ CounterInv /\ MemoryInv

LEMMA RateInitEstablishes == RateInit => RateInv
<1> SUFFICES ASSUME RateInit PROVE RateInv
  OBVIOUS
<1>1. /\ counter = [count |-> 0, ttl |-> NoExpiry, window |-> 0]
      /\ bucket = [h \in Hosts |-> [remaining |-> 0, ttl |-> 0, window |-> 0]]
      /\ \A c \in LimitedCalls : /\ call[c].step = "start" /\ call[c].store = "none"
                                 /\ call[c] \in CallType
      /\ call \in [LimitedCalls -> CallType]
  BY DEF RateInit, CallType, RateSteps, PendingSteps
<1>2. RateTypes
  BY <1>1 DEF RateTypes, CounterType, BucketType, NoExpiry
<1>3. CounterInv
  BY <1>1 DEF CounterInv, CountsAreUnique, CountedCall, AcceptedWithinLimit, WindowEnds
<1>4. \A h, window : MemoryThrough(h, window) = {}
  BY <1>1 DEF MemoryThrough
<1>5. Limit \in Nat /\ Cardinality({}) = 0
  BY RateBounds, FS_EmptySet
<1>6. \A h \in Hosts : bucket[h].remaining = 0
  BY <1>1
<1>7. ASSUME NEW h \in Hosts, NEW window \in Nat
      PROVE  /\ MemoryThrough(h, window) = {}
             /\ Cardinality(MemoryThrough(h, window)) <= Limit
  BY <1>4, <1>5
<1>8. ASSUME NEW h \in Hosts
      PROVE  Cardinality(MemoryThrough(h, bucket[h].window)) + bucket[h].remaining <= Limit
  <2>1. MemoryThrough(h, bucket[h].window) = {}
    BY <1>4
  <2> QED
    BY <1>5, <1>6, <2>1
<1>9. \A c \in LimitedCalls : call[c].store # "memory"
  BY <1>1
<1>10. MemoryInv
  BY <1>7, <1>8, <1>9 DEF MemoryInv
<1> QED
  BY <1>2, <1>3, <1>10 DEF RateInv

---------------------------------------------------------------------------
\* A call that is left without an answer of Redis, and what its command may leave.
LEMMA CounterInvKept ==
    ASSUME RateInv, RateTypes', NEW c \in LimitedCalls,
           \A d \in LimitedCalls : d # c => call'[d] = call[d], ~CountedCall(c)',
           counter' \in {counter, Incremented, Expiring}
    PROVE  CounterInv'
<1>1. /\ counter'.window >= counter.window /\ counter'.window \in Nat /\ counter.window \in Nat
      /\ counter'.count \in Nat /\ counter.count \in Nat
      /\ counter'.window = counter.window => counter'.count >= counter.count
      /\ counter'.window = counter.window /\ counter'.count > 0 => counter.count > 0
      /\ counter'.count > 0 /\ counter'.ttl = NoExpiry =>
            counter'.window # counter.window \/ (counter.count > 0 /\ counter.ttl = NoExpiry)
  BY RateBounds DEF RateInv, RateTypes, CounterType, Incremented, Expiring, NoExpiry
<1>2. \A d \in LimitedCalls : CountedCall(d)' => CountedCall(d) /\ d # c /\ call'[d] = call[d]
  BY DEF CountedCall
<1>3. \A d \in LimitedCalls : call[d].window \in Nat /\ call[d].count \in Nat
  BY DEF RateInv, RateTypes, CallType
<1>4. CountsAreUnique'
  BY <1>1, <1>2, <1>3 DEF RateInv, CounterInv, CountsAreUnique
<1>5. \A d \in LimitedCalls : call'[d].step \in {"accepted", "exceeded"} /\ call'[d].store = "redis"
          => CountedCall(d)'
  BY DEF CountedCall
<1>6. AcceptedWithinLimit'
  BY <1>2, <1>5 DEF RateInv, CounterInv, AcceptedWithinLimit
<1>7. WindowEnds'
  <2>1. \A d \in LimitedCalls : CountedCall(d) => call[d].window <= counter.window
    BY DEF RateInv, CounterInv, CountsAreUnique
  <2> QED
    BY <1>1, <1>2, <1>3, <1>5, <2>1 DEF RateInv, CounterInv, WindowEnds
<1> QED
  BY <1>4, <1>6, <1>7 DEF CounterInv

\* A step that lets no call through in a memory.
LEMMA MemoryInvKept ==
    ASSUME RateInv, RateTypes', NEW c \in LimitedCalls,
           \A d \in LimitedCalls : d # c => call'[d] = call[d],
           call[c].step = "accepted" => call'[c] = call[c],
           call'[c].step = "accepted" => call'[c].store # "memory" \/ call'[c] = call[c],
           call'[c].store = "memory" => mode # "distributed",
           \A h \in Hosts : /\ bucket'[h].window = bucket[h].window
                            /\ bucket'[h].remaining = bucket[h].remaining,
           UNCHANGED mode
    PROVE  MemoryInv'
<1>1. \A h, window : MemoryThrough(h, window)' = MemoryThrough(h, window)
  BY DEF MemoryThrough
<1> QED
  BY <1>1 DEF RateInv, MemoryInv

\* What an answer makes of a call.
LEMMA AnswerOf ==
    ASSUME call \in [LimitedCalls -> CallType], NEW c \in LimitedCalls,
           NEW kind \in {"redis", "memory"}, NEW window \in Nat, NEW ok \in BOOLEAN,
           call' = Answered(c, kind, window, ok)
    PROVE  /\ call' \in [LimitedCalls -> CallType]
           /\ call'[c].step = IF ok THEN "accepted" ELSE "exceeded"
           /\ call'[c].store = kind /\ call'[c].window = window
           /\ call'[c].host = call[c].host /\ call'[c].count = call[c].count
           /\ \A d \in LimitedCalls : d # c => call'[d] = call[d]
<1> DEFINE step == IF ok THEN "accepted" ELSE "exceeded"
           answered == [call[c] EXCEPT !.step = step, !.store = kind, !.window = window]
<1>1. step \in RateSteps
  BY DEF RateSteps
<1> HIDE DEF step
<1>2. /\ answered \in CallType /\ answered.step = step /\ answered.store = kind
      /\ answered.window = window /\ answered.host = call[c].host
      /\ answered.count = call[c].count
  BY <1>1 DEF CallType
<1>3. call' = [call EXCEPT ![c] = answered]
  BY DEF Answered, CallType, step
<1> HIDE DEF answered
<1> QED
  BY <1>2, <1>3 DEF step

\* A call that is answered from the memory of its process.
LEMMA InMemoryKeeps ==
    ASSUME RateInv, NEW c \in LimitedCalls, call[c].step \in PendingSteps, InMemory(c),
           mode # "distributed", UNCHANGED mode
    PROVE  /\ bucket' \in [Hosts -> BucketType] /\ call' \in [LimitedCalls -> CallType]
           /\ \A d \in LimitedCalls : d # c => call'[d] = call[d]
           /\ ~CountedCall(c)' /\ MemoryInv'
<1> SUFFICES ASSUME NEW h, h = call[c].host, NEW b, b = CurrentBucket(h)
             PROVE  /\ bucket' \in [Hosts -> BucketType] /\ call' \in [LimitedCalls -> CallType]
                    /\ \A d \in LimitedCalls : d # c => call'[d] = call[d]
                    /\ ~CountedCall(c)' /\ MemoryInv'
  OBVIOUS
<1> DEFINE taken == [b EXCEPT !.remaining = @ - 1]
<1>1. /\ h \in Hosts /\ b \in BucketType
      /\ b.window >= bucket[h].window
      /\ b.remaining + Cardinality(MemoryThrough(h, b.window)) <= Limit
  <2>1. h \in Hosts /\ bucket[h] \in BucketType
    BY DEF RateInv, RateTypes, CallType
  <2>2. CASE bucket[h].ttl = 0
    <3>1. /\ b = [remaining |-> Limit, ttl |-> Window, window |-> bucket[h].window + 1]
          /\ b \in BucketType
      BY <2>1, <2>2, RateBounds DEF CurrentBucket, BucketType
    <3>2. bucket[h].window \in Nat /\ b.window = bucket[h].window + 1 /\ b.remaining = Limit
      BY <2>1, <3>1 DEF BucketType
    <3>3. MemoryThrough(h, b.window) = {}
      BY <2>1, <3>2 DEF RateInv, MemoryInv
    <3>4. Cardinality(MemoryThrough(h, b.window)) = 0
      BY <3>3, FS_EmptySet
    <3> QED
      BY <2>1, <3>1, <3>2, <3>4, RateBounds
  <2>3. CASE bucket[h].ttl # 0
    <3>1. b = bucket[h]
      BY <2>3 DEF CurrentBucket
    <3>2. /\ Cardinality(MemoryThrough(h, bucket[h].window)) \in Nat
      <4>1. MemoryThrough(h, bucket[h].window) \subseteq LimitedCalls
        BY DEF MemoryThrough
      <4> QED
        BY <4>1, RateBounds, FS_Subset, FS_CardinalityType
    <3> QED
      BY <2>1, <3>1, <3>2 DEF RateInv, MemoryInv, BucketType
  <2> QED
    BY <2>2, <2>3
<1>2. call \in [LimitedCalls -> CallType] /\ "accepted" \in RateSteps /\ "exceeded" \in RateSteps
  BY DEF RateInv, RateTypes, RateSteps
<1>3. \A l, w : IsFiniteSet(MemoryThrough(l, w)) /\ Cardinality(MemoryThrough(l, w)) \in Nat
  <2>1. \A l, w : MemoryThrough(l, w) \subseteq LimitedCalls
    BY DEF MemoryThrough
  <2> QED
    BY <2>1, RateBounds, FS_Subset, FS_CardinalityType
<1>4. \A w \in Nat : w > b.window => MemoryThrough(h, w) = {}
  BY <1>1 DEF RateInv, RateTypes, MemoryInv, BucketType
<1>5. CASE /\ bucket' = [bucket EXCEPT ![h] = b]
           /\ call' = Answered(c, "memory", b.window, FALSE)
  <2>1. bucket' \in [Hosts -> BucketType] /\ bucket'[h] = b
        /\ \A l \in Hosts : l # h => bucket'[l] = bucket[l]
    BY <1>1, <1>5 DEF RateInv, RateTypes
  <2>2. /\ call' \in [LimitedCalls -> CallType] /\ call'[c].step = "exceeded"
        /\ call'[c].store = "memory" /\ \A d \in LimitedCalls : d # c => call'[d] = call[d]
    BY <1>1, <1>2, <1>5, AnswerOf DEF BucketType
  <2>3. \A l, w : MemoryThrough(l, w)' = MemoryThrough(l, w)
    BY <2>2 DEF MemoryThrough, PendingSteps
  <2>4. \A l \in Hosts :
          /\ \A w \in Nat : /\ w > bucket'[l].window => MemoryThrough(l, w) = {}
                            /\ Cardinality(MemoryThrough(l, w)) <= Limit
          /\ Cardinality(MemoryThrough(l, bucket'[l].window)) + bucket'[l].remaining <= Limit
    <3>1. Cardinality(MemoryThrough(h, b.window)) + b.remaining <= Limit
      BY <1>1, <1>3, RateBounds DEF BucketType
    <3> QED
      BY <1>1, <1>4, <2>1, <3>1 DEF RateInv, MemoryInv
  <2>5. MemoryInv'
    BY <2>3, <2>4 DEF MemoryInv
  <2> QED
    BY <2>1, <2>2, <2>5 DEF CountedCall
<1>6. CASE /\ b.remaining > 0 /\ call' = Answered(c, "memory", b.window, TRUE)
           /\ bucket' \in {[bucket EXCEPT ![h] = taken],
                           [bucket EXCEPT ![h] = [taken EXCEPT !.ttl = 0]]}
  <2>1. /\ bucket' \in [Hosts -> BucketType]
        /\ bucket'[h].window = b.window /\ bucket'[h].remaining = b.remaining - 1
        /\ \A l \in Hosts : l # h => bucket'[l] = bucket[l]
    <3>1. taken = [remaining |-> b.remaining - 1, ttl |-> b.ttl, window |-> b.window]
      <4>1. b = [remaining |-> b.remaining, ttl |-> b.ttl, window |-> b.window]
        BY <1>1 DEF BucketType
      <4> QED
        BY <4>1
    <3> HIDE DEF taken
    <3>2. [taken EXCEPT !.ttl = 0] = [remaining |-> b.remaining - 1, ttl |-> 0, window |-> b.window]
      BY <3>1
    <3>3. b.remaining - 1 \in Nat /\ b.ttl \in Nat /\ b.window \in Nat
      BY <1>1, <1>6 DEF BucketType
    <3>4. taken \in BucketType /\ [taken EXCEPT !.ttl = 0] \in BucketType
      BY <3>1, <3>2, <3>3 DEF BucketType
    <3>5. bucket'[h] \in {taken, [taken EXCEPT !.ttl = 0]}
      BY <1>1, <1>6 DEF RateInv, RateTypes
    <3>6. \A l \in Hosts : l # h => bucket'[l] = bucket[l]
      BY <1>6 DEF RateInv, RateTypes
    <3>7. bucket' \in [Hosts -> BucketType]
      BY <1>1, <1>6, <3>4 DEF RateInv, RateTypes
    <3> QED
      BY <3>1, <3>2, <3>5, <3>6, <3>7
  <2>2. /\ call' \in [LimitedCalls -> CallType] /\ call'[c].step = "accepted"
        /\ call'[c].store = "memory" /\ call'[c].window = b.window /\ call'[c].host = h
        /\ \A d \in LimitedCalls : d # c => call'[d] = call[d]
    BY <1>1, <1>2, <1>6, AnswerOf DEF BucketType
  <2>3. /\ MemoryThrough(h, b.window)' = MemoryThrough(h, b.window) \cup {c}
        /\ c \notin MemoryThrough(h, b.window)
    BY <2>2 DEF MemoryThrough, PendingSteps
  <2>4. \A l, w : l # h \/ w # b.window => MemoryThrough(l, w)' = MemoryThrough(l, w)
    BY <2>2 DEF MemoryThrough, PendingSteps
  <2>5. Cardinality(MemoryThrough(h, b.window)') = Cardinality(MemoryThrough(h, b.window)) + 1
    <3> DEFINE before == MemoryThrough(h, b.window)
    <3>1. IsFiniteSet(before) /\ c \notin before
      BY <1>3, <2>3
    <3> HIDE DEF before
    <3>2. Cardinality(before \cup {c}) = Cardinality(before) + 1
      BY <3>1, FS_AddElement
    <3> QED
      BY <2>3, <3>2 DEF before
  <2>6. ASSUME NEW l \in Hosts
        PROVE  /\ \A w \in Nat : /\ w > bucket'[l].window => MemoryThrough(l, w)' = {}
                                 /\ Cardinality(MemoryThrough(l, w)') <= Limit
               /\ \A w \in Nat : w = bucket'[l].window =>
                      Cardinality(MemoryThrough(l, w)') + bucket'[l].remaining <= Limit
    <3>1. CASE l # h
      <4>1. bucket'[l] = bucket[l] /\ \A w \in Nat : MemoryThrough(l, w)' = MemoryThrough(l, w)
        BY <2>1, <2>4, <3>1
      <4> QED
        BY <4>1 DEF RateInv, MemoryInv
    <3>2. CASE l = h
      <4>1. \A w \in Nat : w # b.window => MemoryThrough(l, w)' = MemoryThrough(l, w)
        BY <2>4
      <4>2. /\ Cardinality(MemoryThrough(l, b.window)') + (b.remaining - 1) <= Limit
            /\ Cardinality(MemoryThrough(l, b.window)') <= Limit
        BY <1>1, <1>3, <1>6, <2>5, <3>2, RateBounds DEF BucketType
      <4>3. \A w \in Nat : w > b.window => MemoryThrough(l, w)' = {}
        BY <1>1, <1>4, <3>2, <4>1 DEF BucketType
      <4>4. \A w \in Nat : Cardinality(MemoryThrough(l, w)') <= Limit
        BY <1>1, <3>2, <4>1, <4>2 DEF RateInv, MemoryInv
      <4> QED
        BY <2>1, <3>2, <4>2, <4>3, <4>4
    <3> QED
      BY <3>1, <3>2
  <2>7. MemoryInv'
    <3>1. \A l \in Hosts : bucket'[l].window \in Nat
      BY <2>1 DEF BucketType
    <3> QED
      BY <2>6, <3>1 DEF MemoryInv
  <2> QED
    BY <2>1, <2>2, <2>7 DEF CountedCall
<1> QED
  BY <1>5, <1>6 DEF InMemory

---------------------------------------------------------------------------
\* A call whose command fails, whatever the command left.
LEMMA CounterFailsKeeps ==
    ASSUME RateInv, NEW c \in LimitedCalls, call[c].step \in PendingSteps,
           NEW after \in {counter, Incremented, Expiring}, CounterFails(c, after)
    PROVE  RateInv'
<1>1. counter' \in {counter, Incremented, Expiring} /\ UNCHANGED mode
  BY DEF CounterFails
<1>2. counter' \in CounterType /\ (counter'.ttl = NoExpiry \/ counter'.ttl > 0)
  BY <1>1, RateBounds DEF RateInv, RateTypes, CounterType, Incremented, Expiring, NoExpiry
<1>3. CASE mode = "distributed"
  <2>1. call' = [call EXCEPT ![c].step = "unavailable"] /\ UNCHANGED bucket
    BY <1>3 DEF CounterFails, RedisFails
  <2>2. /\ call' \in [LimitedCalls -> CallType] /\ call'[c].step = "unavailable"
        /\ call'[c].store = call[c].store /\ \A d \in LimitedCalls : d # c => call'[d] = call[d]
    BY <2>1 DEF RateInv, RateTypes, CallType, RateSteps
  <2>3. RateTypes'
    BY <1>2, <2>1, <2>2 DEF RateInv, RateTypes
  <2>4. CounterInv'
    BY <1>1, <2>2, <2>3, CounterInvKept DEF CountedCall
  <2>5. call'[c].store # "memory"
    BY <1>3, <2>2 DEF RateInv, MemoryInv
  <2>6. MemoryInv'
    BY <1>1, <2>1, <2>2, <2>3, <2>5, MemoryInvKept DEF PendingSteps
  <2> QED
    BY <2>3, <2>4, <2>6 DEF RateInv
<1>4. CASE mode # "distributed"
  <2>1. InMemory(c)
    BY <1>4 DEF CounterFails, RedisFails
  <2>2. /\ bucket' \in [Hosts -> BucketType] /\ call' \in [LimitedCalls -> CallType]
        /\ \A d \in LimitedCalls : d # c => call'[d] = call[d]
        /\ ~CountedCall(c)' /\ MemoryInv'
    BY <1>1, <1>4, <2>1, InMemoryKeeps
  <2>3. RateTypes'
    BY <1>2, <2>2 DEF RateTypes
  <2>4. CounterInv'
    BY <1>1, <2>2, <2>3, CounterInvKept
  <2> QED
    BY <2>2, <2>3, <2>4 DEF RateInv
<1> QED
  BY <1>3, <1>4

LEMMA LimitInMemoryKeeps ==
    ASSUME RateInv, NEW c \in LimitedCalls, LimitInMemory(c)
    PROVE  RateInv'
<1>1. /\ bucket' \in [Hosts -> BucketType] /\ call' \in [LimitedCalls -> CallType]
      /\ \A d \in LimitedCalls : d # c => call'[d] = call[d]
      /\ ~CountedCall(c)' /\ MemoryInv' /\ counter' = counter
  BY InMemoryKeeps DEF LimitInMemory, PendingSteps
<1>2. RateTypes'
  BY <1>1 DEF RateInv, RateTypes
<1>3. CounterInv'
  BY <1>1, <1>2, CounterInvKept
<1> QED
  BY <1>1, <1>2, <1>3 DEF RateInv

\* INCR: the count is new in its window.
LEMMA IncrementKeeps ==
    ASSUME RateInv, NEW c \in LimitedCalls, Increment(c)
    PROVE  RateInv'
<1>1. call[c].step = "start" /\ "start" \in PendingSteps
  BY DEF Increment, PendingSteps
<1>2. CASE CounterFails(c, Incremented)
  BY <1>1, <1>2, CounterFailsKeeps
<1>3. ASSUME NEW step \in {"expire", "ttl"}, counter' = Incremented,
             call' = [call EXCEPT ![c].step = step, ![c].count = Incremented.count,
                                  ![c].window = Incremented.window],
             UNCHANGED <<mode, bucket, degraded>>
      PROVE  RateInv'
  <2>1. /\ counter \in CounterType /\ counter' \in CounterType
        /\ counter'.ttl = NoExpiry \/ counter'.ttl > 0
        /\ counter'.count = counter.count + 1
        /\ counter'.window = IF counter.count = 0 THEN counter.window + 1 ELSE counter.window
        /\ counter.count # 0 => counter'.ttl = counter.ttl
    BY <1>3 DEF RateInv, RateTypes, CounterType, Incremented, NoExpiry
  <2> DEFINE counted == [call[c] EXCEPT !.step = step, !.count = Incremented.count,
                                         !.window = Incremented.window]
  <2>2. /\ counted \in CallType /\ counted.step = step /\ counted.store = call[c].store
        /\ counted.count = counter'.count /\ counted.window = counter'.window
    <3>1. call[c] \in CallType /\ counter'.count \in Nat /\ counter'.window \in Nat
      BY <2>1 DEF RateInv, RateTypes, CounterType
    <3>2. step \in RateSteps
      BY DEF RateSteps, PendingSteps
    <3> QED
      BY <1>3, <3>1, <3>2 DEF CallType
  <2>3. call' = [call EXCEPT ![c] = counted]
    BY <1>3 DEF RateInv, RateTypes, CallType
  <2> HIDE DEF counted
  <2>4. /\ call' \in [LimitedCalls -> CallType] /\ call'[c] = counted
        /\ \A d \in LimitedCalls : d # c => call'[d] = call[d]
    BY <2>2, <2>3 DEF RateInv, RateTypes
  <2>5. RateTypes'
    BY <1>3, <2>1, <2>4 DEF RateInv, RateTypes
  <2>6. MemoryInv'
    <3>1. call'[c].store = "memory" => mode # "distributed"
      BY <2>2, <2>4 DEF RateInv, MemoryInv
    <3> QED
      BY <1>1, <1>3, <2>2, <2>4, <2>5, <3>1, MemoryInvKept
  <2>7. /\ counter.count \in Nat /\ counter.window \in Nat
        /\ \A d \in LimitedCalls : call[d].window \in Nat /\ call[d].count \in Nat
    BY <2>1 DEF CounterType, RateInv, RateTypes, CallType
  <2>8. \A d \in LimitedCalls : d # c => (CountedCall(d)' <=> CountedCall(d))
    BY <2>4 DEF CountedCall
  <2>9. \A d \in LimitedCalls : d # c /\ CountedCall(d)' =>
            /\ call'[d].count >= 1 /\ call'[d].window <= counter.window
            /\ call'[d].window = counter'.window => call'[d].count < counter'.count
    BY <2>1, <2>4, <2>7, <2>8 DEF RateInv, CounterInv, CountsAreUnique
  <2>10. CountsAreUnique'
    <3>1. ASSUME NEW d \in LimitedCalls, CountedCall(d)'
          PROVE  /\ call'[d].count >= 1 /\ call'[d].window <= counter'.window
                 /\ call'[d].window = counter'.window => call'[d].count <= counter'.count
      BY <2>1, <2>2, <2>4, <2>7, <2>9, <3>1
    <3>2. ASSUME NEW d \in LimitedCalls, NEW e \in LimitedCalls, CountedCall(d)', CountedCall(e)',
                 call'[d].window = call'[e].window, call'[d].count = call'[e].count
          PROVE  d = e
      <4>1. CASE d # c /\ e # c
        BY <2>4, <2>8, <3>2, <4>1 DEF RateInv, CounterInv, CountsAreUnique
      <4>2. CASE d = c \/ e = c
        BY <2>1, <2>2, <2>4, <2>7, <2>9, <3>2, <4>2
      <4> QED
        BY <4>1, <4>2
    <3> QED
      BY <3>1, <3>2 DEF CountsAreUnique
  <2>11. AcceptedWithinLimit'
    BY <2>2, <2>4 DEF RateInv, CounterInv, AcceptedWithinLimit
  <2>12. WindowEnds'
    <3>1. ASSUME counter'.ttl = NoExpiry, NEW d \in LimitedCalls,
                 call'[d].step \in {"accepted", "exceeded"}, call'[d].store = "redis"
          PROVE  call'[d].window # counter'.window
      <4>1. d # c
        BY <2>2, <2>4, <3>1
      <4>2. CountedCall(d)'
        BY <3>1 DEF CountedCall
      <4> QED
        BY <2>1, <2>4, <2>7, <2>9, <3>1, <4>1, <4>2 DEF RateInv, CounterInv, WindowEnds
    <3> QED
      BY <3>1 DEF WindowEnds
  <2> QED
    BY <2>5, <2>6, <2>10, <2>11, <2>12 DEF RateInv, CounterInv
<1> QED
  BY <1>2, <1>3 DEF Increment

---------------------------------------------------------------------------
\* A call that goes on with the count it has, or is answered from it.
LEMMA CountedKeeps ==
    ASSUME RateInv, NEW c \in LimitedCalls, call[c].step \in {"expire", "ttl", "repair"},
           call' \in [LimitedCalls -> CallType],
           \A d \in LimitedCalls : d # c => call'[d] = call[d],
           call'[c].step \in {"ttl", "repair", "accepted", "exceeded"},
           call'[c].count = call[c].count, call'[c].window = call[c].window,
           call'[c].step = "accepted" => call[c].count <= Limit,
           call'[c].step \in {"accepted", "exceeded"}
               => counter'.ttl > 0 \/ counter'.count = 0,
           call'[c].step \in {"accepted", "exceeded"} => call'[c].store = "redis",
           call'[c].store \in {call[c].store, "redis"},
           counter' \in {counter, Expiring}, UNCHANGED <<mode, bucket>>
    PROVE  RateInv'
<1>1. /\ counter' \in CounterType /\ (counter'.ttl = NoExpiry \/ counter'.ttl > 0)
      /\ counter'.count = counter.count /\ counter'.window = counter.window
      /\ counter.count \in Nat /\ counter.window \in Nat
      /\ counter'.ttl = NoExpiry => counter.ttl = NoExpiry
  BY RateBounds DEF RateInv, RateTypes, CounterType, Expiring, NoExpiry
<1>2. RateTypes'
  BY <1>1 DEF RateInv, RateTypes
<1>3. CountedCall(c) /\ \A d \in LimitedCalls : CountedCall(d)' => CountedCall(d)
  BY DEF CountedCall
<1>4. \A d \in LimitedCalls : call'[d].count = call[d].count /\ call'[d].window = call[d].window
  OBVIOUS
<1>5. CountsAreUnique'
  BY <1>1, <1>3, <1>4 DEF RateInv, CounterInv, CountsAreUnique
<1>6. AcceptedWithinLimit'
  BY <1>4 DEF RateInv, CounterInv, AcceptedWithinLimit
<1>7. WindowEnds'
  <2>1. SUFFICES ASSUME counter'.count > 0, counter'.ttl = NoExpiry, NEW d \in LimitedCalls,
                        call'[d].step \in {"accepted", "exceeded"}, call'[d].store = "redis"
                 PROVE  call'[d].window # counter'.window
    BY DEF WindowEnds
  <2>2. d # c
    BY <1>1, <2>1 DEF NoExpiry
  <2> QED
    BY <1>1, <2>1, <2>2 DEF RateInv, CounterInv, WindowEnds
<1>8. MemoryInv'
  <2>1. call'[c].store = "memory" => mode # "distributed"
    BY DEF RateInv, MemoryInv
  <2> QED
    BY <1>2, <2>1, MemoryInvKept
<1> QED
  BY <1>2, <1>5, <1>6, <1>7, <1>8 DEF RateInv, CounterInv

\* The answer of redisRateLimit, for a window that ends.
LEMMA DecideKeeps ==
    ASSUME RateInv, NEW c \in LimitedCalls, call[c].step \in {"ttl", "repair"}, Decide(c),
           counter' \in {counter, Expiring}, counter'.ttl > 0 \/ counter'.count = 0,
           UNCHANGED mode
    PROVE  RateInv'
<1> DEFINE ok == call[c].count <= Limit
<1>1. call \in [LimitedCalls -> CallType] /\ call[c].window \in Nat /\ ok \in BOOLEAN
  BY DEF RateInv, RateTypes, CallType
<1>2. call' = Answered(c, "redis", call[c].window, ok)
  BY DEF Decide
<1> HIDE DEF ok
<1>3. /\ call' \in [LimitedCalls -> CallType]
      /\ call'[c].step = IF ok THEN "accepted" ELSE "exceeded"
      /\ call'[c].store = "redis" /\ call'[c].window = call[c].window
      /\ call'[c].count = call[c].count
      /\ \A d \in LimitedCalls : d # c => call'[d] = call[d]
  BY <1>1, <1>2, AnswerOf
<1> QED
  BY <1>3, CountedKeeps DEF Decide, ok

LEMMA ExpireKeeps ==
    ASSUME RateInv, NEW c \in LimitedCalls, Expire(c)
    PROVE  RateInv'
<1>1. CASE CounterFails(c, Expiring)
  BY <1>1, CounterFailsKeeps DEF Expire, PendingSteps
<1>2. CASE /\ counter' = Expiring /\ call' = [call EXCEPT ![c].step = "ttl"]
           /\ UNCHANGED <<mode, bucket, degraded>>
  <2>1. /\ call' \in [LimitedCalls -> CallType] /\ call'[c].step = "ttl"
        /\ call'[c].count = call[c].count /\ call'[c].window = call[c].window
        /\ call'[c].store = call[c].store /\ \A d \in LimitedCalls : d # c => call'[d] = call[d]
    BY <1>2 DEF RateInv, RateTypes, CallType, RateSteps, PendingSteps
  <2> QED
    BY <1>2, <2>1, CountedKeeps DEF Expire
<1> QED
  BY <1>1, <1>2 DEF Expire

LEMMA ReadTtlKeeps ==
    ASSUME RateInv, NEW c \in LimitedCalls, ReadTtl(c)
    PROVE  RateInv'
<1>1. CASE CounterFails(c, counter)
  BY <1>1, CounterFailsKeeps DEF ReadTtl, PendingSteps
<1>2. CASE LacksExpiry /\ call' = [call EXCEPT ![c].step = "repair"]
           /\ UNCHANGED <<mode, counter, bucket, degraded>>
  <2>1. /\ call' \in [LimitedCalls -> CallType] /\ call'[c].step = "repair"
        /\ call'[c].count = call[c].count /\ call'[c].window = call[c].window
        /\ call'[c].store = call[c].store /\ \A d \in LimitedCalls : d # c => call'[d] = call[d]
    BY <1>2 DEF RateInv, RateTypes, CallType, RateSteps, PendingSteps
  <2> QED
    BY <1>2, <2>1, CountedKeeps DEF ReadTtl
<1>3. CASE ~LacksExpiry /\ Decide(c) /\ UNCHANGED <<mode, counter>>
  <2>1. counter.ttl > 0
    BY <1>3 DEF LacksExpiry, RateInv, RateTypes, CounterType, NoExpiry
  <2> QED
    BY <1>3, <2>1, DecideKeeps DEF ReadTtl
<1> QED
  BY <1>1, <1>2, <1>3 DEF ReadTtl

LEMMA RepairKeeps ==
    ASSUME RateInv, NEW c \in LimitedCalls, Repair(c)
    PROVE  RateInv'
<1>1. CASE CounterFails(c, Expiring)
  BY <1>1, CounterFailsKeeps DEF Repair, PendingSteps
<1>2. CASE counter' = Expiring /\ Decide(c) /\ UNCHANGED mode
  <2>1. counter'.ttl > 0 \/ counter'.count = 0
    BY <1>2, RateBounds DEF Expiring, RateInv, RateTypes, CounterType
  <2> QED
    BY <1>2, <2>1, DecideKeeps DEF Repair
<1> QED
  BY <1>1, <1>2 DEF Repair

LEMMA CallDiesKeeps ==
    ASSUME RateInv, NEW c \in LimitedCalls, CallDies(c)
    PROVE  RateInv'
<1>1. /\ call' \in [LimitedCalls -> CallType] /\ call'[c].step = "dead"
      /\ call'[c].store = call[c].store /\ \A d \in LimitedCalls : d # c => call'[d] = call[d]
      /\ call[c].step # "accepted"
  BY DEF CallDies, Unanswered, RateInv, RateTypes, CallType, RateSteps
<1>2. RateTypes'
  BY <1>1 DEF CallDies, RateInv, RateTypes
<1>3. CounterInv'
  BY <1>1, <1>2, CounterInvKept DEF CallDies, CountedCall
<1>4. call'[c].store = "memory" => mode # "distributed"
  BY <1>1 DEF RateInv, MemoryInv
<1>5. MemoryInv'
  BY <1>1, <1>2, <1>4, MemoryInvKept DEF CallDies
<1> QED
  BY <1>2, <1>3, <1>5 DEF RateInv

LEMMA TimePassesKeeps == RateInv /\ TimePasses => RateInv'
<1> SUFFICES ASSUME RateInv, TimePasses PROVE RateInv'
  OBVIOUS
<1>1. UNCHANGED <<mode, call>>
  BY DEF TimePasses
<1>2. /\ counter' \in CounterType /\ (counter'.ttl = NoExpiry \/ counter'.ttl > 0)
      /\ counter'.window = counter.window /\ counter.window \in Nat /\ counter.count \in Nat
      /\ counter'.count \in {counter.count, 0}
      /\ counter'.ttl = NoExpiry => counter'.count = 0 \/ counter.ttl = NoExpiry
  <2>1. /\ counter \in CounterType /\ counter.ttl \in Int
        /\ counter.ttl = NoExpiry \/ counter.ttl > 0
    BY DEF RateInv, RateTypes, CounterType
  <2>2. CASE counter.ttl > 1
    BY <2>1, <2>2 DEF TimePasses, CounterType, NoExpiry
  <2>3. CASE counter.ttl = 1
    <3>1. counter' = [counter EXCEPT !.ttl = NoExpiry, !.count = 0]
      BY <2>3 DEF TimePasses
    <3>2. counter = [count |-> counter.count, ttl |-> counter.ttl, window |-> counter.window]
      BY <2>1 DEF CounterType
    <3>3. counter' = [count |-> 0, ttl |-> NoExpiry, window |-> counter.window]
      BY <3>1, <3>2
    <3>4. counter.window \in Nat /\ counter.count \in Nat
      BY <2>1 DEF CounterType
    <3> QED
      BY <3>3, <3>4 DEF CounterType, NoExpiry
  <2>4. CASE counter.ttl = NoExpiry
    BY <2>1, <2>4 DEF TimePasses, CounterType, NoExpiry
  <2> QED
    BY <2>1, <2>2, <2>3, <2>4
<1>3. /\ bucket' \in [Hosts -> BucketType]
      /\ \A h \in Hosts : /\ bucket'[h].window = bucket[h].window
                          /\ bucket'[h].remaining = bucket[h].remaining
  BY DEF TimePasses, RateInv, RateTypes, BucketType
<1>4. RateTypes'
  BY <1>1, <1>2, <1>3 DEF RateInv, RateTypes
<1>5. \A c \in LimitedCalls : CountedCall(c)' <=> CountedCall(c)
  BY <1>1 DEF CountedCall
<1>6. CountsAreUnique' /\ AcceptedWithinLimit'
  BY <1>1, <1>2, <1>5 DEF RateInv, CounterInv, CountsAreUnique, AcceptedWithinLimit
<1>7. WindowEnds'
  BY <1>1, <1>2 DEF RateInv, CounterInv, WindowEnds
<1>8. \A h, window : MemoryThrough(h, window)' = MemoryThrough(h, window)
  BY <1>1 DEF MemoryThrough
<1>9. MemoryInv'
  BY <1>1, <1>3, <1>8 DEF RateInv, MemoryInv
<1> QED
  BY <1>4, <1>6, <1>7, <1>9 DEF RateInv, CounterInv

LEMMA RateNextKeeps == RateInv /\ [RateNext]_rateVars => RateInv'
<1> SUFFICES ASSUME RateInv, [RateNext]_rateVars PROVE RateInv'
  OBVIOUS
<1>1. CASE RateNext
  BY <1>1, LimitInMemoryKeeps, IncrementKeeps, ExpireKeeps, ReadTtlKeeps, RepairKeeps,
     CallDiesKeeps, TimePassesKeeps
     DEF RateNext
<1>2. CASE UNCHANGED rateVars
  <2>1. UNCHANGED <<mode, counter, bucket, call>>
    BY <1>2 DEF rateVars
  <2>2. RateTypes'
    BY <2>1 DEF RateInv, RateTypes
  <2>3. CounterInv'
    BY <2>1 DEF RateInv, CounterInv, CountsAreUnique, AcceptedWithinLimit, WindowEnds, CountedCall
  <2>4. \A h, window : MemoryThrough(h, window)' = MemoryThrough(h, window)
    BY <2>1 DEF MemoryThrough
  <2>5. MemoryInv'
    BY <2>1, <2>4 DEF RateInv, MemoryInv
  <2> QED
    BY <2>2, <2>3, <2>5 DEF RateInv
<1> QED
  BY <1>1, <1>2

\* The invariant holds in every state the limiter reaches, whatever fails.
THEOREM RateInvHolds == RateSpec => []RateInv
<1> QED
  BY RateInitEstablishes, RateNextKeeps, PTL DEF RateSpec

---------------------------------------------------------------------------
\* A window that answered a call has an expiry, whoever died between two commands.
THEOREM WindowsEnd == RateSpec => []WindowEnds
<1>1. RateInv => WindowEnds
  BY DEF RateInv, CounterInv
<1> QED
  BY <1>1, RateInvHolds, PTL

\* Distinct counts up to the limit: no more calls than the limit.
LEMMA RedisThroughBounded ==
    ASSUME RateInv, NEW h, NEW window
    PROVE  Cardinality(Through("redis", h, window)) <= Limit
<1> DEFINE S == Through("redis", h, window)
           f == [c \in S |-> call[c].count]
<1>1. \A c \in S : /\ c \in LimitedCalls /\ CountedCall(c) /\ call[c].window = window
                   /\ call[c].count \in 1..Limit
  BY RateBounds
     DEF Through, CountedCall, RateInv, RateTypes, CallType, CounterInv, CountsAreUnique,
         AcceptedWithinLimit
<1>2. \A c, d \in S : call[c].count = call[d].count => c = d
  BY <1>1 DEF RateInv, CounterInv, CountsAreUnique
<1>3. f \in Injection(S, 1..Limit)
  BY <1>1, <1>2 DEF Injection, IsInjective
<1>4. IsFiniteSet(1..Limit) /\ Cardinality(1..Limit) = Limit
  BY FS_Interval, RateBounds
<1> HIDE DEF S, f
<1>5. Cardinality(S) <= Limit
  BY <1>3, <1>4, FS_Injection
<1> QED
  BY <1>5 DEF S

\* However the calls of all processes interleave and whatever fails, a window lets
\* no more than the limit through, and memory never answers for a distributed limit.
THEOREM LimitHolds == RateSpec => []LimitPerWindow
<1>1. RateInv => LimitPerWindow
  <2> SUFFICES ASSUME RateInv PROVE LimitPerWindow
    OBVIOUS
  <2>1. ASSUME NEW c \in LimitedCalls
        PROVE  /\ Cardinality(Through("redis", call[c].host, call[c].window)) <= Limit
               /\ Cardinality(Through("memory", call[c].host, call[c].window)) <= Limit
    <3>1. call[c].host \in Hosts /\ call[c].window \in Nat
      BY DEF RateInv, RateTypes, CallType
    <3>2. Through("memory", call[c].host, call[c].window)
            = MemoryThrough(call[c].host, call[c].window)
      BY DEF Through, MemoryThrough
    <3> QED
      BY <3>1, <3>2, RedisThroughBounded DEF RateInv, MemoryInv
  <2> QED
    BY <2>1 DEF LimitPerWindow, RateInv, MemoryInv
<1> QED
  BY <1>1, RateInvHolds, PTL

---------------------------------------------------------------------------
\* A call that has read the state.
Counting(m) == emitter[m].step # "read"

DedupTypes ==
    /\ shared \in Nat \cup {Unseen} /\ local \subseteq Emitters
    /\ object \in [Emitters -> Nat]
    /\ emitter \in [Emitters -> [step : {"read", "write", "return", "emitted", "dead"},
                                 of : Emitters, duplicate : BOOLEAN]]

\* Without the map a call counts with its own object, which a first alert leaves 0;
\* whatever count is stored or was come to, every lower one was come to before.
CountsAreReached ==
    ~fell =>
        /\ \A m \in Emitters : /\ emitter[m].of = m
                               /\ Counting(m) /\ ~emitter[m].duplicate => object[m] = 0
        /\ \A n \in 0..shared : Reached(n)
        /\ \A m \in Emitters : Counting(m) => \A n \in 0..DuplicateCount(m) : Reached(n)

DedupInv == DedupTypes /\ CountsAreReached

LEMMA DedupInitEstablishes == DedupInit => DedupInv
BY DEF DedupInit, DedupInv, DedupTypes, CountsAreReached, Counting, Unseen

\* A call that reads comes to the count after the stored one, or to the first.
LEMMA ReadDedupKeeps ==
    ASSUME DedupInv, NEW m \in Emitters, ReadDedup(m)
    PROVE  DedupInv'
<1> USE DEF DedupInv
<1>1. PICK o \in Emitters, n \in Nat, duplicate \in BOOLEAN :
        /\ CountOn(m, o, n, duplicate)
        /\ \/ o = m /\ n = 0 /\ ~duplicate /\ fell' = fell
           \/ o = m /\ shared \in Nat /\ n = shared + 1 /\ duplicate /\ fell' = fell
           \/ fell'
    <2>1. \/ CountOn(m, m, 0, FALSE) /\ fell' = fell
          \/ shared # Unseen /\ CountOn(m, m, shared + 1, TRUE) /\ fell' = fell
          \/ \E o \in local : CountOn(m, o, object[o] + 1, TRUE) /\ fell' = TRUE
        BY DEF ReadDedup
    <2>2. shared # Unseen => shared \in Nat /\ shared + 1 \in Nat
        BY DEF DedupTypes, Unseen
    <2>3. \A o \in local : o \in Emitters /\ object[o] + 1 \in Nat
        BY DEF DedupTypes
    <2> QED BY <2>1, <2>2, <2>3, Zenon
<1>2. DedupTypes'
    BY <1>1 DEF DedupTypes, ReadDedup, CountOn
<1>3. ASSUME ~fell'
      PROVE  CountsAreReached'
    <2>1. /\ CountOn(m, m, n, duplicate) /\ ~fell
          /\ \/ n = 0 /\ ~duplicate
             \/ shared \in Nat /\ n = shared + 1 /\ duplicate
        BY <1>1, <1>3
    <2>2. /\ \A k \in Emitters \ {m} : emitter'[k] = emitter[k] /\ object'[k] = object[k]
          /\ emitter'[m] = [step |-> "write", of |-> m, duplicate |-> duplicate]
          /\ object'[m] = n /\ shared' = shared
        BY <2>1 DEF CountOn, DedupTypes, ReadDedup
    <2>3. \A k \in Emitters : emitter[k].of = k /\ emitter'[k].of = k
        BY <2>1, <2>2 DEF CountsAreReached
    <2>4. \A k \in Emitters \ {m} : DuplicateCount(k)' = DuplicateCount(k)
        BY <2>2, <2>3 DEF DuplicateCount
    <2>5. DuplicateCount(m)' = n
        BY <2>1, <2>2 DEF DuplicateCount
    <2>6. \A i : Reached(i) => Reached(i)'
        BY <2>2, <2>4 DEF Reached, ReadDedup
    <2>7. Reached(n)'
        BY <2>2, <2>5 DEF Reached
    <2>8. \A i \in 0..n : Reached(i)'
        <3>1. \A i \in 0..n : i = n \/ (shared \in Nat /\ i \in 0..shared)
            BY <2>1
        <3> QED BY <3>1, <2>1, <2>6, <2>7 DEF CountsAreReached
    <2> QED
        BY <2>1, <2>2, <2>3, <2>4, <2>5, <2>6, <2>8 DEF CountsAreReached, Counting
<1> QED BY <1>2, <1>3 DEF CountsAreReached

\* A call that writes stores what it came to.
LEMMA WriteDedupKeeps ==
    ASSUME DedupInv, NEW m \in Emitters, WriteDedup(m)
    PROVE  DedupInv'
<1> USE DEF DedupInv
<1>1. DedupTypes'
    BY DEF DedupTypes, WriteDedup
<1>2. /\ \A k \in Emitters : /\ Counting(k)' <=> Counting(k)
                             /\ emitter'[k].of = emitter[k].of
                             /\ emitter'[k].duplicate = emitter[k].duplicate
      /\ object' = object /\ fell' = fell
    BY DEF DedupTypes, WriteDedup, Counting
<1>3. \A k \in Emitters : DuplicateCount(k)' = DuplicateCount(k)
    BY <1>2 DEF DuplicateCount
<1>4. \A i : Reached(i)' <=> Reached(i)
    BY <1>2, <1>3 DEF Reached, Counting
<1>5. ~fell => shared' = shared \/ shared' = DuplicateCount(m)
    BY DEF WriteDedup, CountsAreReached, DuplicateCount, Counting
<1> QED
    BY <1>1, <1>2, <1>3, <1>4, <1>5 DEF CountsAreReached, WriteDedup, Counting

LEMMA OtherDedupKeeps ==
    ASSUME DedupInv,
           \/ \E m \in Emitters : EmitAlert(m)
           \/ DedupExpires \/ EmittersDie \/ UNCHANGED dedupVars
    PROVE  DedupInv'
<1> USE DEF DedupInv
<1>1. DedupTypes'
    BY DEF DedupTypes, EmitAlert, DedupExpires, EmittersDie, dedupVars, Unseen
<1>2. /\ \A k \in Emitters : /\ Counting(k)' <=> Counting(k)
                             /\ emitter'[k].of = emitter[k].of
                             /\ emitter'[k].duplicate = emitter[k].duplicate
      /\ object' = object /\ fell' = fell
    BY DEF DedupTypes, Counting, EmitAlert, DedupExpires, EmittersDie, dedupVars
<1>3. \A k \in Emitters : DuplicateCount(k)' = DuplicateCount(k)
    BY <1>2 DEF DuplicateCount
<1>4. \A i : Reached(i)' <=> Reached(i)
    BY <1>2, <1>3 DEF Reached, Counting
<1>5. \A i \in 0..(shared') : i \in 0..shared
    BY DEF DedupTypes, EmitAlert, DedupExpires, EmittersDie, dedupVars, Unseen
<1> QED BY <1>1, <1>2, <1>3, <1>4, <1>5 DEF CountsAreReached

LEMMA DedupNextKeeps == DedupInv /\ [DedupNext]_dedupVars => DedupInv'
BY ReadDedupKeeps, WriteDedupKeeps, OtherDedupKeeps DEF DedupNext

\* While Redis is the store, an alert that is held back as a duplicate follows
\* calls that came to the first alert and to every count that escalates before.
THEOREM NoEscalationIsSkipped == DedupSpec => []SuppressedWasAnnounced
<1>1. DedupInv => SuppressedWasAnnounced
    BY DEF DedupInv, CountsAreReached, SuppressedWasAnnounced, Counting
<1> QED BY <1>1, DedupInitEstablishes, DedupNextKeeps, PTL DEF DedupSpec

---------------------------------------------------------------------------
\* What a rule has found and alerted, or is about to.
Raised(c) == alerting[c] \cup alerted[c]

IsEvaluated(c) == handling[c] = "evaluated"

AnomalyTypes ==
    /\ signalOf \in AnomalyScenarios
    /\ arrival \in [AnomalyCalls -> Nat] /\ pushes \in Nat
    /\ handling \in [AnomalyCalls -> {"new", "received", "evaluated"}]
    /\ alerting \in [AnomalyCalls -> SUBSET (1..6)] /\ alerted \in [AnomalyCalls -> SUBSET (1..6)]
    /\ \A c \in AnomalyCalls : ~IsEvaluated(c) => alerting[c] = {}
    /\ countries \in [Identities -> SUBSET {f[c].country : f \in AnomalyScenarios, c \in AnomalyCalls}]

\* A burst that was evaluated has found what it should.
BurstsAreFound ==
    \A r \in CountingRules \cap EnabledRules, B \in SUBSET Buffered :
        B # {} /\ (\A c \in B : IsEvaluated(c)) /\ IsBurst(r, B) => \E c \in B : r \in Raised(c)

\* The rule about countries is on, and loud enough.
CountriesMatter == NewCountry \in EnabledRules /\ FixedScore[NewCountry] >= MinScore

\* The history holds what was evaluated, and of two of its countries one was new.
HistoryIsComplete ==
    CountriesMatter =>
        \A c \in AnomalyCalls : IsEvaluated(c) /\ IsSensitive(signalOf[c]) =>
            signalOf[c].country \in countries[signalOf[c].identity]

OneWasNew ==
    CountriesMatter =>
        \A i \in Identities : \A x, y \in countries[i] : x # y =>
            \E e \in AnomalyCalls :
                signalOf[e].identity = i /\ signalOf[e].country \in {x, y} /\ NewCountry \in Raised(e)

AnomalyInv ==
    /\ AnomalyTypes /\ BurstsAreFound /\ HistoryIsComplete /\ OneWasNew


LEMMA ObservedGrows ==
    ASSUME NEW W \in SUBSET AnomalyCalls, NEW B \in SUBSET W, NEW r
    PROVE  /\ Observed(r, B) \in Nat /\ Observed(r, W) \in Nat
           /\ Observed(r, B) <= Observed(r, W)
<1> DEFINE Failures(S) == {d \in S : signalOf[d].failed}
           named == [d \in W |-> signalOf[d].principal]
           All == {signalOf[d].principal : d \in W}
           Principals(S) == {signalOf[d].principal : d \in S} \ {Missing}
<1>1. IsFiniteSet(W)
  BY AnomalyAssumption, FS_Subset
<1>2. named \in Surjection(W, All)
  BY DEF Surjection
<1>3. IsFiniteSet(All)
  BY <1>1, <1>2, FS_Surjection
<1>4. Failures(W) \in SUBSET W /\ Failures(B) \in SUBSET Failures(W)
  OBVIOUS
<1>5. Principals(W) \in SUBSET All /\ Principals(B) \in SUBSET Principals(W)
  OBVIOUS
<1> HIDE DEF Failures, named, All, Principals
<1>6. IsFiniteSet(Failures(W)) /\ IsFiniteSet(Principals(W))
  BY <1>1, <1>3, <1>4, <1>5, FS_Subset
<1>7. /\ IsFiniteSet(B) /\ Cardinality(B) <= Cardinality(W)
      /\ IsFiniteSet(Failures(B)) /\ Cardinality(Failures(B)) <= Cardinality(Failures(W))
      /\ IsFiniteSet(Principals(B)) /\ Cardinality(Principals(B)) <= Cardinality(Principals(W))
  BY <1>1, <1>4, <1>5, <1>6, FS_Subset
<1>8. \A S \in {B, W, Failures(B), Failures(W), Principals(B), Principals(W)} : Cardinality(S) \in Nat
  BY <1>1, <1>6, <1>7, FS_CardinalityType
<1> QED
  BY <1>7, <1>8 DEF Observed, Failures, Principals

\* What is loud enough stays so when more is observed.
LEMMA ScoreGrows ==
    ASSUME NEW r \in CountingRules, NEW o \in Nat, NEW p \in Nat, o <= p, ReachesMinScore(r, o)
    PROVE  ReachesMinScore(r, p)
<1> DEFINE t == Thresholds[r]
           needed == 2 * t * (2 * MinScore - 1)
<1>1. t \in Nat /\ needed \in Int
  BY AnomalyAssumption
<1>2. AtMostTwice(o, t) \in Nat /\ AtMostTwice(p, t) \in Nat /\ AtMostTwice(o, t) <= AtMostTwice(p, t)
  BY <1>1 DEF AtMostTwice
<1>3. CASE t = 0
  BY <1>3 DEF ReachesMinScore
<1>4. CASE t # 0
  <2>1. 4 * t * BaseScore[r] + 2 * AtMostTwice(o, t) * (CapScore[r] - BaseScore[r]) >= needed
    BY <1>4 DEF ReachesMinScore
  <2>2. \/ BaseScore[r] = 55 /\ CapScore[r] = 80
        \/ BaseScore[r] = 75 /\ CapScore[r] = 92
        \/ BaseScore[r] = 80 /\ CapScore[r] = 96
    BY DEF BaseScore, CapScore
  <2> HIDE DEF t, needed
  <2>3. 4 * t * BaseScore[r] + 2 * AtMostTwice(p, t) * (CapScore[r] - BaseScore[r]) >= needed
    BY <1>1, <1>2, <2>1, <2>2
  <2> QED
    BY <1>4, <2>3 DEF ReachesMinScore, t, needed
<1> QED
  BY <1>3, <1>4

\* Whoever of a burst in the buffer is evaluated last finds it.
LEMMA LastFindsBurst ==
    ASSUME AnomalyTypes, NEW r \in CountingRules \cap EnabledRules, NEW B \in SUBSET Buffered,
           IsBurst(r, B), NEW c \in B
    PROVE  r \in Alerts(c)
<1>1. B \in SUBSET WindowOf(c) /\ WindowOf(c) \in SUBSET AnomalyCalls
  BY DEF IsBurst, WindowOf, Buffered, SameOrigin
<1>2. /\ Observed(r, B) \in Nat /\ Observed(r, WindowOf(c)) \in Nat
      /\ Observed(r, B) <= Observed(r, WindowOf(c))
  BY <1>1, ObservedGrows
<1>3. Observed(r, B) >= Thresholds[r] /\ ReachesMinScore(r, Observed(r, B)) /\ Looks(r, signalOf[c])
  BY DEF IsBurst
<1>4. Observed(r, WindowOf(c)) >= Thresholds[r]
  BY <1>2, <1>3, AnomalyAssumption
<1>5. ReachesMinScore(r, Observed(r, WindowOf(c)))
  BY <1>2, <1>3, ScoreGrows
<1>6. Counts(r, c)
  BY <1>3, <1>4, <1>5 DEF Counts
<1> QED
  BY <1>6 DEF Alerts

LEMMA AnomalyInitEstablishes == AnomalyInit => AnomalyInv
<1> SUFFICES ASSUME AnomalyInit PROVE AnomalyInv
  OBVIOUS
<1>1. AnomalyTypes
  BY DEF AnomalyInit, AnomalyTypes, IsEvaluated
<1>2. Buffered = {} /\ \A i \in Identities : countries[i] = {}
  BY DEF AnomalyInit, Buffered
<1>3. \A c \in AnomalyCalls : ~IsEvaluated(c)
  BY DEF AnomalyInit, IsEvaluated
<1> QED
  BY <1>1, <1>2, <1>3 DEF AnomalyInv, BurstsAreFound, HistoryIsComplete, OneWasNew

LEMMA ReceiveKeeps ==
    ASSUME AnomalyInv, NEW c \in AnomalyCalls, ReceiveSignal(c)
    PROVE  AnomalyInv'
<1>1. UNCHANGED <<signalOf, alerting, alerted, countries>>
  BY DEF ReceiveSignal
<1>2. AnomalyTypes'
  BY DEF AnomalyInv, AnomalyTypes, ReceiveSignal, IsEvaluated
<1>3. \A d \in AnomalyCalls : IsEvaluated(d)' <=> IsEvaluated(d)
  BY DEF AnomalyInv, AnomalyTypes, ReceiveSignal, IsEvaluated
<1>4. ~IsEvaluated(c)
  BY DEF ReceiveSignal, IsEvaluated
<1>5. Buffered' \subseteq Buffered \cup {c}
  BY AnomalyAssumption DEF AnomalyInv, AnomalyTypes, ReceiveSignal, Buffered
<1>6. BurstsAreFound'
  <2> SUFFICES ASSUME NEW r \in CountingRules \cap EnabledRules, NEW B \in SUBSET Buffered',
                      B # {}, \A d \in B : IsEvaluated(d)', IsBurst(r, B)'
               PROVE  \E d \in B : r \in Raised(d)'
    BY DEF BurstsAreFound
  <2>1. B \in SUBSET Buffered /\ \A d \in B : IsEvaluated(d)
    BY <1>3, <1>4, <1>5 DEF Buffered
  <2>2. IsBurst(r, B)
    BY <1>1 DEF IsBurst, Observed, Looks, SameOrigin, ReachesMinScore
  <2> QED
    BY <1>1, <2>1, <2>2 DEF AnomalyInv, BurstsAreFound, Raised
<1>7. HistoryIsComplete' /\ OneWasNew'
  BY <1>1, <1>3 DEF AnomalyInv, HistoryIsComplete, OneWasNew, CountriesMatter, Raised, IsSensitive
<1> QED
  BY <1>2, <1>6, <1>7 DEF AnomalyInv

LEMMA EmitKeeps ==
    ASSUME AnomalyInv, NEW c \in AnomalyCalls, EmitAnomaly(c)
    PROVE  AnomalyInv'
<1>1. PICK r \in alerting[c] :
        /\ alerting' = [alerting EXCEPT ![c] = @ \ {r}]
        /\ alerted' = [alerted EXCEPT ![c] = @ \cup {r}]
        /\ UNCHANGED <<signalOf, arrival, pushes, handling, geo, countries>>
  BY DEF EmitAnomaly
<1>2. AnomalyTypes'
  BY <1>1 DEF AnomalyInv, AnomalyTypes, IsEvaluated
<1>3. \A d \in AnomalyCalls : Raised(d)' = Raised(d)
  BY <1>1 DEF AnomalyInv, AnomalyTypes, Raised
<1>4. Buffered' = Buffered /\ (\A d : IsEvaluated(d)' <=> IsEvaluated(d))
  BY <1>1 DEF Buffered, IsEvaluated
<1>5. \A q, B : IsBurst(q, B)' <=> IsBurst(q, B)
  BY <1>1 DEF IsBurst, Observed, Looks, SameOrigin, ReachesMinScore
<1>6. BurstsAreFound'
  BY <1>3, <1>4, <1>5 DEF AnomalyInv, BurstsAreFound, Buffered
<1>7. HistoryIsComplete' /\ OneWasNew'
  BY <1>1, <1>3, <1>4 DEF AnomalyInv, HistoryIsComplete, OneWasNew, CountriesMatter, IsSensitive
<1> QED
  BY <1>2, <1>6, <1>7 DEF AnomalyInv

\* The step of the rules: it adds its signal to what they remember.
LEMMA EvaluateKeepsBursts ==
    ASSUME AnomalyInv, NEW c \in AnomalyCalls, EvaluateRules(c)
    PROVE  AnomalyTypes' /\ BurstsAreFound'
<1>1. /\ UNCHANGED <<signalOf, arrival, pushes, alerted>>
      /\ alerting' = [alerting EXCEPT ![c] = Alerts(c)]
      /\ handling' = [handling EXCEPT ![c] = "evaluated"]
  BY DEF EvaluateRules
<1>2. Alerts(c) \in SUBSET (1..6)
  BY AnomalyAssumption DEF Alerts
<1>3. AnomalyTypes'
  BY <1>1, <1>2 DEF AnomalyInv, AnomalyTypes, EvaluateRules, IsSensitive, Identities, IsEvaluated
<1>4. \A d \in AnomalyCalls \ {c} : Raised(d)' = Raised(d) /\ (IsEvaluated(d)' <=> IsEvaluated(d))
  BY <1>1 DEF AnomalyInv, AnomalyTypes, Raised, IsEvaluated
<1>5. Alerts(c) \subseteq Raised(c)'
  BY <1>1 DEF AnomalyInv, AnomalyTypes, Raised
<1>6. BurstsAreFound'
  <2> SUFFICES ASSUME NEW r \in CountingRules \cap EnabledRules, NEW B \in SUBSET Buffered',
                      B # {}, \A d \in B : IsEvaluated(d)', IsBurst(r, B)'
               PROVE  \E d \in B : r \in Raised(d)'
    BY DEF BurstsAreFound
  <2>1. B \in SUBSET Buffered /\ B \in SUBSET AnomalyCalls
    BY <1>1 DEF Buffered
  <2>2. IsBurst(r, B)
    BY <1>1 DEF IsBurst, Observed, Looks, SameOrigin, ReachesMinScore
  <2>3. CASE c \in B
    BY <1>5, <2>1, <2>2, <2>3, LastFindsBurst DEF AnomalyInv
  <2>4. CASE c \notin B
    BY <1>4, <2>1, <2>2, <2>4 DEF AnomalyInv, BurstsAreFound
  <2> QED
    BY <2>3, <2>4
<1> QED
  BY <1>3, <1>6

LEMMA EvaluateKeepsCountries ==
    ASSUME AnomalyInv, NEW c \in AnomalyCalls, EvaluateRules(c)
    PROVE  HistoryIsComplete' /\ OneWasNew'
<1> SUFFICES ASSUME CountriesMatter PROVE HistoryIsComplete' /\ OneWasNew'
  BY DEF HistoryIsComplete, OneWasNew, CountriesMatter
<1> DEFINE s == signalOf[c]
<1>1. /\ UNCHANGED <<signalOf, alerted>>
      /\ alerting' = [alerting EXCEPT ![c] = Alerts(c)]
      /\ handling' = [handling EXCEPT ![c] = "evaluated"]
  BY DEF EvaluateRules
<1>2. \A i \in Identities :
        countries'[i] = IF IsSensitive(s) /\ s.identity = i THEN countries[i] \cup {s.country}
                        ELSE countries[i]
  BY DEF EvaluateRules, CountriesMatter
<1>3. \A d \in AnomalyCalls : IsSensitive(signalOf[d]) => signalOf[d].identity \in Identities
  BY DEF AnomalyInv, AnomalyTypes, IsSensitive, Identities
<1>4. \A d \in AnomalyCalls \ {c} : IsEvaluated(d)' => IsEvaluated(d)
  BY <1>1 DEF AnomalyInv, AnomalyTypes, IsEvaluated
<1>5. HistoryIsComplete'
  <2> SUFFICES ASSUME NEW d \in AnomalyCalls, IsEvaluated(d)', IsSensitive(signalOf[d])
               PROVE  signalOf[d].country \in countries'[signalOf[d].identity]
    BY <1>1 DEF HistoryIsComplete
  <2>1. CASE d = c
    BY <1>2, <1>3, <2>1
  <2>2. CASE d # c
    BY <1>2, <1>3, <1>4, <2>2 DEF AnomalyInv, HistoryIsComplete
  <2> QED
    BY <2>1, <2>2
<1>6. \A d \in AnomalyCalls : Raised(d) \subseteq Raised(d)'
  BY <1>1 DEF AnomalyInv, AnomalyTypes, Raised, IsEvaluated, EvaluateRules
<1>7. IsNewCountry(s) => NewCountry \in Raised(c)'
  <2>1. IsNewCountry(s) => NewCountry \in Alerts(c)
    <3>1. NewCountry \in EnabledRules /\ NewCountry \in DOMAIN FixedScore /\ FixedScore[NewCountry] >= MinScore
      BY DEF CountriesMatter, FixedScore
    <3> QED
      BY <3>1 DEF Alerts
  <2> QED
    BY <1>1, <2>1 DEF AnomalyInv, AnomalyTypes, Raised
<1>8. OneWasNew'
  <2> SUFFICES ASSUME NEW i \in Identities, NEW x \in countries'[i], NEW y \in countries'[i], x # y
               PROVE  \E e \in AnomalyCalls :
                        /\ signalOf[e].identity = i /\ signalOf[e].country \in {x, y}
                        /\ NewCountry \in Raised(e)'
    BY <1>1 DEF OneWasNew
  <2>1. CASE x \in countries[i] /\ y \in countries[i]
    BY <1>6, <2>1 DEF AnomalyInv, OneWasNew
  <2>2. CASE ~(x \in countries[i] /\ y \in countries[i])
    <3>1. IsSensitive(s) /\ s.identity = i /\ s.country \in {x, y} /\ s.country \notin countries[i]
            /\ countries[i] # {}
      <4>1. x \in countries'[i] /\ y \in countries'[i] /\ countries'[i] # countries[i]
        BY <2>2
      <4>2. IsSensitive(s) /\ s.identity = i
        BY <1>2, <4>1
      <4>3. countries'[i] = countries[i] \cup {s.country}
        BY <1>2, <4>2
      <4>4. (x = s.country /\ y \in countries[i]) \/ (y = s.country /\ x \in countries[i])
        BY <2>2, <4>1, <4>3
      <4>5. s.country \in {x, y} /\ s.country \notin countries[i] /\ countries[i] # {}
        BY <2>2, <4>4
      <4> QED
        BY <4>2, <4>5
    <3>2. IsNewCountry(s)
      BY <3>1 DEF IsNewCountry
    <3>3. signalOf[c].identity = i /\ signalOf[c].country \in {x, y} /\ NewCountry \in Raised(c)'
      BY <1>7, <3>1, <3>2
    <3> QED
      BY <3>3
  <2> QED
    BY <2>1, <2>2
<1> QED
  BY <1>5, <1>8

\* For every number of calls and all limits: however calls overlap and signals
\* are ordered, no burst and no new country goes without an alert.
THEOREM SuspicionsRaiseAlerts == AnomalySpec => []SuspicionsAreAlerted
<1>1. AnomalyInit => AnomalyInv
  BY AnomalyInitEstablishes
<1>2. AnomalyInv /\ [AnomalyNext]_anomalyVars => AnomalyInv'
  <2> SUFFICES ASSUME AnomalyInv, [AnomalyNext]_anomalyVars PROVE AnomalyInv'
    OBVIOUS
  <2>1. CASE UNCHANGED anomalyVars
    <3>1. UNCHANGED <<signalOf, arrival, pushes, handling, alerting, alerted, countries>>
      BY <2>1 DEF anomalyVars
    <3>2. AnomalyTypes'
      BY <3>1 DEF AnomalyInv, AnomalyTypes, IsEvaluated
    <3>3. Buffered' = Buffered /\ \A q, B : IsBurst(q, B)' <=> IsBurst(q, B)
      BY <3>1 DEF Buffered, IsBurst, Observed, Looks, SameOrigin, ReachesMinScore
    <3>4. BurstsAreFound'
      BY <3>1, <3>3 DEF AnomalyInv, BurstsAreFound, Raised, IsEvaluated
    <3>5. HistoryIsComplete' /\ OneWasNew'
      BY <3>1 DEF AnomalyInv, HistoryIsComplete, OneWasNew, CountriesMatter, IsSensitive, Raised, IsEvaluated
    <3> QED
      BY <3>2, <3>4, <3>5 DEF AnomalyInv
  <2>2. ASSUME NEW c \in AnomalyCalls, ReceiveSignal(c) \/ EvaluateRules(c) \/ EmitAnomaly(c)
        PROVE  AnomalyInv'
    <3>1. CASE ReceiveSignal(c)
      BY <3>1, ReceiveKeeps
    <3>2. CASE EvaluateRules(c)
      BY <3>2, EvaluateKeepsBursts, EvaluateKeepsCountries DEF AnomalyInv
    <3>3. CASE EmitAnomaly(c)
      BY <3>3, EmitKeeps
    <3> QED
      BY <2>2, <3>1, <3>2, <3>3
  <2> QED
    BY <2>1, <2>2 DEF AnomalyNext
<1>3. AnomalyInv => SuspicionsAreAlerted
  <2> SUFFICES ASSUME AnomalyInv PROVE SuspicionsAreAlerted
    OBVIOUS
  <2>1. BurstsAreAlerted
    <3> SUFFICES ASSUME NEW r \in CountingRules \cap EnabledRules, NEW B \in SUBSET Buffered,
                        B # {}, \A c \in B : IsOver(c), IsBurst(r, B)
                 PROVE  \E c \in B : r \in alerted[c]
      BY DEF BurstsAreAlerted
    <3> QED
      BY DEF AnomalyInv, BurstsAreFound, IsOver, IsEvaluated, Raised
  <2>2. NewCountriesAreAlerted
    <3> SUFFICES ASSUME CountriesMatter,
                        NEW c \in AnomalyCalls, IsEvaluated(c), IsSensitive(signalOf[c]),
                        NEW d \in AnomalyCalls, IsEvaluated(d), IsSensitive(signalOf[d]),
                        signalOf[c].identity = signalOf[d].identity,
                        signalOf[c].country # signalOf[d].country
                 PROVE  \E e \in AnomalyCalls :
                            /\ signalOf[e].identity = signalOf[c].identity
                            /\ signalOf[e].country \in {signalOf[c].country, signalOf[d].country}
                            /\ NewCountry \in alerting[e] \cup alerted[e]
      BY DEF NewCountriesAreAlerted, CountriesMatter, IsEvaluated
    <3>1. signalOf[c].identity \in Identities
      BY DEF AnomalyInv, AnomalyTypes, IsSensitive, Identities
    <3>2. /\ signalOf[c].country \in countries[signalOf[c].identity]
          /\ signalOf[d].country \in countries[signalOf[c].identity]
      BY DEF AnomalyInv, HistoryIsComplete
    <3> QED
      BY <3>1, <3>2 DEF AnomalyInv, OneWasNew, Raised
  <2> QED
    BY <2>1, <2>2 DEF SuspicionsAreAlerted
<1> QED
  BY <1>1, <1>2, <1>3, PTL DEF AnomalySpec

---------------------------------------------------------------------------
\* The calls of the functions of EvmFinality: the numbers they are given.
FinalityTypes ==
    /\ head \in Nat
    /\ included \in Nat \cup {NoBlock}

LEMMA FinalityTypesHold ==
    ASSUME MaxHead \in Nat
    PROVE  FinalitySpec => []FinalityTypes
<1>1. FinalityInit => FinalityTypes
  BY DEF FinalityInit, FinalityTypes
<1>2. FinalityTypes /\ [FinalityNext]_finalityVars => FinalityTypes'
  BY DEF FinalityTypes, FinalityNext, finalityVars
<1> QED
  BY <1>1, <1>2, PTL DEF FinalitySpec

\* How many blocks there are from one block to another.
LEMMA BlocksBetween ==
    ASSUME NEW i \in Nat, NEW h \in Nat
    PROVE  Cardinality(i..h) = IF i > h THEN 0 ELSE h - i + 1
  BY FS_Interval

\* The statuses a receipt is read as, by the count of its confirmations.
LEMMA StatusOfCount ==
    ASSUME FinalityTypes
    PROVE  /\ Status = "confirmed_final" <=> ConfirmationCount(head, included) >= FinalConfirmations
           /\ Status = "included" <=> ConfirmationCount(head, included) < 2
<1> DEFINE count == ConfirmationCount(head, included)
<1>1. FinalConfirmations \in Nat /\ FinalConfirmations >= 2
  BY FinalityAssumption
<1>2. count \in Nat
  BY DEF FinalityTypes, ConfirmationCount, RawConfirmations
<1>3. Status = CASE count >= FinalConfirmations -> "confirmed_final"
                 [] count >= 2 /\ count < FinalConfirmations -> "confirmed_soft"
                 [] OTHER -> "included"
  BY DEF Status, GetEvmTransactionFinality
<1> HIDE DEF count
<1>4. CASE count >= FinalConfirmations
  <2>1. Status = "confirmed_final" /\ ~(count < 2)
    BY <1>1, <1>2, <1>3, <1>4
  <2> QED
    BY <1>4, <2>1 DEF count
<1>5. CASE count >= 2 /\ count < FinalConfirmations
  <2>1. Status = "confirmed_soft" /\ ~(count >= FinalConfirmations) /\ ~(count < 2)
    BY <1>1, <1>2, <1>3, <1>5
  <2> QED
    BY <2>1 DEF count
<1>6. CASE count < 2
  <2>1. Status = "included" /\ ~(count >= FinalConfirmations)
    BY <1>1, <1>2, <1>3, <1>6
  <2> QED
    BY <1>6, <2>1 DEF count
<1> QED
  BY <1>1, <1>2, <1>4, <1>5, <1>6

\* Whatever the block of the receipt and however far the node lags behind it, the
\* status says how many blocks lie on the chain from that block to the head
\* (chain-transactions.ts 70-108).
THEOREM StatusIsDepth ==
    ASSUME MaxHead \in Nat
    PROVE  FinalitySpec => []FinalMeansDepth
<1>1. FinalityTypes => FinalMeansDepth
  <2> SUFFICES ASSUME FinalityTypes PROVE FinalMeansDepth
    OBVIOUS
  <2> DEFINE count == ConfirmationCount(head, included)
             blocks == IF included = NoBlock THEN {} ELSE included..head
  <2>1. FinalConfirmations \in Nat /\ FinalConfirmations >= 2
    BY FinalityAssumption
  <2>2. /\ Status = "confirmed_final" <=> count >= FinalConfirmations
        /\ Status = "included" <=> count < 2
    BY StatusOfCount
  <2>3. CASE included = NoBlock
    <3>1. count = 1
      BY <2>3 DEF ConfirmationCount
    <3>2. Cardinality(blocks) = 0
      BY <2>3, FS_EmptySet
    <3> QED
      BY <2>1, <2>2, <3>1, <3>2 DEF FinalMeansDepth
  <2>4. CASE included # NoBlock
    <3>1. included \in Nat /\ head \in Nat
      BY <2>4 DEF FinalityTypes
    <3>2. Cardinality(blocks) = IF included > head THEN 0 ELSE head - included + 1
      BY <2>4, <3>1, BlocksBetween
    <3>3. count = IF included > head THEN 1 ELSE head - included + 1
      BY <2>4, <3>1 DEF ConfirmationCount, RawConfirmations
    <3>4. /\ count >= FinalConfirmations <=> Cardinality(blocks) >= FinalConfirmations
          /\ count < 2 <=> Cardinality(blocks) < 2
      BY <2>1, <3>1, <3>2, <3>3
    <3> QED
      BY <2>2, <3>4 DEF FinalMeansDepth
  <2> QED
    BY <2>3, <2>4
<1> QED
  BY <1>1, FinalityTypesHold, PTL

\* The statuses are read as themselves by both functions.
LEMMA StatusesAreRead ==
    /\ \A s \in ChainStatuses : NormalizeChainTransactionStatus(s) = s
    /\ \A s \in TransferStatuses : NormalizeTransferWorkflowStatus(s) = s
    /\ ChainStatuses \subseteq TransferStatuses
<1>1. \A s \in ChainStatuses : NormalizeChainTransactionStatus(s) = s
  BY DEF NormalizeChainTransactionStatus, ChainStatuses
<1>2. \A s \in TransferStatuses : NormalizeTransferWorkflowStatus(s) = s
  BY DEF NormalizeTransferWorkflowStatus, TransferStatuses, ChainStatuses, LegacySubmitted
<1> QED
  BY <1>1, <1>2 DEF TransferStatuses

\* Every name is read as a status.
LEMMA NamesAreRead ==
    ASSUME NEW n
    PROVE  /\ NormalizeChainTransactionStatus(n) \in ChainStatuses
           /\ NormalizeTransferWorkflowStatus(n) \in TransferStatuses
<1>1. NormalizeChainTransactionStatus(n) \in ChainStatuses
  BY DEF NormalizeChainTransactionStatus, ChainStatuses
<1>2. NormalizeTransferWorkflowStatus(n) \in TransferStatuses
  BY DEF NormalizeTransferWorkflowStatus, TransferStatuses, ChainStatuses, LegacySubmitted
<1> QED
  BY <1>1, <1>2

\* A name that both vocabularies have means the same in both.
LEMMA SharedNamesAgree ==
    ASSUME NEW n \in ChainNames
    PROVE  NormalizeTransferWorkflowStatus(n) = NormalizeChainTransactionStatus(n)
<1>1. CASE n \in ChainStatuses
  BY <1>1, StatusesAreRead
<1>2. CASE n \in LegacySubmitted
  BY <1>2 DEF NormalizeTransferWorkflowStatus, NormalizeChainTransactionStatus, LegacySubmitted,
              TransferStatuses, ChainStatuses
<1>3. CASE n \in {"confirmed", "settled", "validated"}
  BY <1>3 DEF NormalizeTransferWorkflowStatus, NormalizeChainTransactionStatus, LegacySubmitted,
              TransferStatuses, ChainStatuses
<1> QED
  BY <1>1, <1>2, <1>3 DEF ChainNames, LegacySubmitted

\* A stored status, of whichever version, is read alike by the chain rows and the
\* transfers, and reading it again changes nothing (chain-transactions.ts 110-190).
THEOREM NamesAreReadAlike == FinalitySpec => []ReadsAlike
<1>1. ReadsAlike
  BY StatusesAreRead, NamesAreRead, SharedNamesAgree DEF ReadsAlike
<1> QED
  BY <1>1, PTL
=============================================================================

---------------------- MODULE SigningIntentWorkerProofs ----------------------
(***************************************************************************)
(* Proofs about SigningIntentWorker, for any number of intents, workers,   *)
(* reservations and crashes, in strict mode or not.  One lemma per action  *)
(* shows that it preserves the inductive invariant.                        *)
(***************************************************************************)
EXTENDS SigningIntentWorker, TLAPS

\* The fields of a row, and its type.
LEMMA RowFacts ==
    ASSUME NEW S, NEW s \in S, NEW h \in Intents \cup {None}
    PROVE  /\ Row(s, h) \in Rows(S)
           /\ Row(s, h).status = s
           /\ Row(s, h).txHash = h
BY DEF Row, Rows

\* What writing one row does to the table.
IntentBecomes(i, s) ==
    /\ intents' \in [Intents -> Rows(IntentStatuses)]
    /\ intents'[i].status = s
    /\ \A j \in Intents \ {i} : intents'[j] = intents[j]

NonceBecomes(n, s) ==
    /\ nonceRows' \in [Nonces -> Rows(NonceStatuses)]
    /\ nonceRows'[n].status = s
    /\ \A m \in Nonces \ {n} : nonceRows'[m] = nonceRows[m]

TransferBecomes(i, s, h) ==
    /\ transfers' \in [Intents -> Rows(TransferStatuses)]
    /\ transfers'[i].status = s
    /\ transfers'[i].txHash = h
    /\ \A j \in Intents \ {i} : transfers'[j] = transfers[j]

\* Writing one signing intent keeps the type of the table and its other rows.
LEMMA IntentWritten ==
    ASSUME TypeOK, NEW i \in Intents, NEW s \in IntentStatuses,
           NEW h \in Intents \cup {None},
           intents' = [intents EXCEPT ![i] = Row(s, h)]
    PROVE  IntentBecomes(i, s)
<1>1. Row(s, h) \in Rows(IntentStatuses) /\ Row(s, h).status = s
    BY RowFacts
<1>2. intents'[i] = Row(s, h) /\ intents' \in [Intents -> Rows(IntentStatuses)]
    BY <1>1 DEF TypeOK
<1> QED BY <1>1, <1>2 DEF IntentBecomes, TypeOK

\* The same for one nonce reservation.
LEMMA NonceWritten ==
    ASSUME TypeOK, NEW n \in Nonces, NEW s \in NonceStatuses,
           NEW h \in Intents \cup {None},
           nonceRows' = [nonceRows EXCEPT ![n] = Row(s, h)]
    PROVE  NonceBecomes(n, s)
<1>1. Row(s, h) \in Rows(NonceStatuses) /\ Row(s, h).status = s
    BY RowFacts
<1>2. nonceRows'[n] = Row(s, h) /\ nonceRows' \in [Nonces -> Rows(NonceStatuses)]
    BY <1>1 DEF TypeOK
<1> QED BY <1>1, <1>2 DEF NonceBecomes, TypeOK

\* The same for one transfer log.
LEMMA TransferWritten ==
    ASSUME TypeOK, NEW i \in Intents, NEW s \in TransferStatuses,
           NEW h \in Intents \cup {None},
           transfers' = [transfers EXCEPT ![i] = Row(s, h)]
    PROVE  TransferBecomes(i, s, h)
<1>1. /\ Row(s, h) \in Rows(TransferStatuses)
      /\ Row(s, h).status = s
      /\ Row(s, h).txHash = h
    BY RowFacts
<1>2. /\ transfers'[i] = Row(s, h)
      /\ transfers' \in [Intents -> Rows(TransferStatuses)]
    BY <1>1 DEF TypeOK
<1> QED BY <1>1, <1>2 DEF TransferBecomes, TypeOK

\* Looking for work moves a worker to "claim" with a fresh flag.
LEMMA FindKeeps ==
    ASSUME NEW w \in Workers, IInv, Find(w)
    PROVE  IInv'
<1> USE WorkerAssumption DEF IInv
<1>1. TypeOK'
    BY DEF Find, Queued, Goto, KeepsRows, rowVars, TypeOK, Pcs
<1>2. /\ OneHolder'
      /\ HeldIsTaken'
      /\ QueuedIsUnsent'
    BY DEF Find, Queued, Goto, KeepsRows, rowVars, OneHolder, Working,
           HeldIsTaken, QueuedIsUnsent, TypeOK
<1>3. /\ UnsentBeforeBroadcast'
      /\ ClaimIsFresh'
      /\ AcceptedAfterBroadcast'
      /\ UndoKnowsTheNetwork'
      /\ SentAtMostOnce'
    BY DEF Find, Queued, Goto, KeepsRows, rowVars, UnsentBeforeBroadcast,
           BeforeBroadcast, Working, OneHolder, QueuedIsUnsent, ClaimIsFresh,
           AcceptedAfterBroadcast, AfterBroadcast, UndoKnowsTheNetwork,
           SentAtMostOnce, TypeOK
<1>4. /\ HashesWereAccepted'
      /\ SubmittedWasAccepted'
      /\ OneActiveRowPerNonce'
    BY DEF Find, Queued, Goto, KeepsRows, rowVars, HashesWereAccepted,
           AcceptedAfterBroadcast, AfterBroadcast, SubmittedWasAccepted,
           OneActiveRowPerNonce, TypeOK
<1>5. ReleasedIsOver'
    BY DEF Find, Queued, Goto, KeepsRows, rowVars, ReleasedIsOver,
           Unshared, Working, OneHolder, HeldIsTaken, UndoKnowsTheNetwork,
           TypeOK
<1> QED
    BY <1>1, <1>2, <1>3, <1>4, <1>5

\* The compare-and-set: the winner takes a queued, hence unsent, intent.
LEMMA ClaimKeeps ==
    ASSUME NEW w \in Workers, IInv, Claim(w)
    PROVE  IInv'
<1> USE WorkerAssumption DEF IInv
<1>1. job[w] \in Intents /\ NonceOf[job[w]] \in Nonces
    BY DEF Claim, TypeOK
<1>2. \/ /\ intents[job[w]].status # "queued"
         /\ UNCHANGED intents
         /\ pc' = [pc EXCEPT ![w] = "idle"]
      \/ /\ intents[job[w]].status = "queued"
         /\ IntentBecomes(job[w], "approved")
    <2>1. intents[job[w]].txHash \in Intents \cup {None}
        BY <1>1 DEF TypeOK, Rows
    <2> QED
        BY <1>1, <2>1, IntentWritten
        DEF Claim, Claimed, IsClaimable, SetIntent, IntentStatuses, KeepsRows, Goto,
            rowVars
<1>3. TypeOK'
    BY <1>1, <1>2
    DEF Claim, IsClaimable, SetIntent, Goto, KeepsRows, SameJob, rowVars,
        TypeOK, Pcs, IntentBecomes
<1>4. /\ OneHolder'
      /\ HeldIsTaken'
      /\ QueuedIsUnsent'
    BY <1>1, <1>2
    DEF Claim, IsClaimable, SetIntent, Goto, KeepsRows, SameJob, rowVars,
        OneHolder, Working, HeldIsTaken, QueuedIsUnsent, IntentBecomes, TypeOK
<1>5. /\ UnsentBeforeBroadcast'
      /\ ClaimIsFresh'
      /\ AcceptedAfterBroadcast'
      /\ UndoKnowsTheNetwork'
      /\ SentAtMostOnce'
    BY <1>1, <1>2
    DEF Claim, IsClaimable, SetIntent, Goto, KeepsRows, SameJob, rowVars,
        UnsentBeforeBroadcast, BeforeBroadcast, Working, OneHolder,
        QueuedIsUnsent, ClaimIsFresh, AcceptedAfterBroadcast, AfterBroadcast,
        UndoKnowsTheNetwork, SentAtMostOnce, IntentBecomes, TypeOK
<1>6. /\ HashesWereAccepted'
      /\ SubmittedWasAccepted'
      /\ OneActiveRowPerNonce'
    BY <1>1, <1>2
    DEF Claim, IsClaimable, SetIntent, Goto, KeepsRows, SameJob, rowVars,
        HashesWereAccepted, AcceptedAfterBroadcast, AfterBroadcast,
        SubmittedWasAccepted, OneActiveRowPerNonce, IntentBecomes, TypeOK
<1>7. ReleasedIsOver'
    BY <1>1, <1>2
    DEF Claim, IsClaimable, SetIntent, Goto, KeepsRows, SameJob, rowVars,
        ReleasedIsOver, Unshared, Working, OneHolder, HeldIsTaken,
        UndoKnowsTheNetwork, IntentBecomes, TypeOK
<1> QED
    BY <1>3, <1>4, <1>5, <1>6, <1>7

\* A worker that fails to get a provider has sent nothing.
LEMMA GetProviderKeeps ==
    ASSUME NEW w \in Workers, IInv, GetProvider(w)
    PROVE  IInv'
<1> USE WorkerAssumption DEF IInv
<1>1. TypeOK'
    BY DEF GetProvider, ProviderFails, Goto, KeepsRows, SameJob, rowVars,
           TypeOK, Pcs
<1>2. /\ OneHolder'
      /\ HeldIsTaken'
      /\ QueuedIsUnsent'
    BY DEF GetProvider, ProviderFails, Goto, KeepsRows, SameJob, rowVars,
           OneHolder, Working, HeldIsTaken, QueuedIsUnsent, TypeOK
<1>3. /\ UnsentBeforeBroadcast'
      /\ ClaimIsFresh'
      /\ AcceptedAfterBroadcast'
      /\ UndoKnowsTheNetwork'
      /\ SentAtMostOnce'
    BY DEF GetProvider, ProviderFails, Goto, KeepsRows, SameJob, rowVars,
           UnsentBeforeBroadcast, BeforeBroadcast, Working, OneHolder,
           QueuedIsUnsent, ClaimIsFresh, AcceptedAfterBroadcast, AfterBroadcast,
           UndoKnowsTheNetwork, SentAtMostOnce, TypeOK
<1>4. /\ HashesWereAccepted'
      /\ SubmittedWasAccepted'
      /\ OneActiveRowPerNonce'
    BY DEF GetProvider, ProviderFails, Goto, KeepsRows, SameJob, rowVars,
           HashesWereAccepted, AcceptedAfterBroadcast, AfterBroadcast,
           SubmittedWasAccepted, OneActiveRowPerNonce, TypeOK
<1>5. ReleasedIsOver'
    BY DEF GetProvider, ProviderFails, Goto, KeepsRows, SameJob, rowVars,
           ReleasedIsOver, Unshared, Working, OneHolder, HeldIsTaken,
           UndoKnowsTheNetwork, TypeOK
<1> QED
    BY <1>1, <1>2, <1>3, <1>4, <1>5

\* Signing writes nothing; when it fails the nonce may be released.
LEMMA SignKeeps ==
    ASSUME NEW w \in Workers, IInv, Sign(w)
    PROVE  IInv'
<1> USE WorkerAssumption DEF IInv
<1>1. TypeOK'
    BY DEF Sign, Throw, Goto, KeepsRows, SameJob, rowVars, TypeOK, Pcs
<1>2. /\ OneHolder'
      /\ HeldIsTaken'
      /\ QueuedIsUnsent'
    BY DEF Sign, Throw, Goto, KeepsRows, SameJob, rowVars, OneHolder, Working,
           HeldIsTaken, QueuedIsUnsent, TypeOK
<1>3. /\ UnsentBeforeBroadcast'
      /\ ClaimIsFresh'
      /\ AcceptedAfterBroadcast'
      /\ UndoKnowsTheNetwork'
      /\ SentAtMostOnce'
    BY DEF Sign, Throw, Goto, KeepsRows, SameJob, rowVars,
           UnsentBeforeBroadcast, BeforeBroadcast, Working, OneHolder,
           QueuedIsUnsent, ClaimIsFresh, AcceptedAfterBroadcast, AfterBroadcast,
           UndoKnowsTheNetwork, SentAtMostOnce, TypeOK
<1>4. /\ HashesWereAccepted'
      /\ SubmittedWasAccepted'
      /\ OneActiveRowPerNonce'
    BY DEF Sign, Throw, Goto, KeepsRows, SameJob, rowVars, HashesWereAccepted,
           AcceptedAfterBroadcast, AfterBroadcast, SubmittedWasAccepted,
           OneActiveRowPerNonce, TypeOK
<1>5. ReleasedIsOver'
    BY DEF Sign, Throw, Goto, KeepsRows, SameJob, rowVars, ReleasedIsOver,
           Unshared, Working, OneHolder, HeldIsTaken, UndoKnowsTheNetwork,
           TypeOK
<1> QED
    BY <1>1, <1>2, <1>3, <1>4, <1>5

\* A held intent becomes signed.
LEMMA MarkSignedKeeps ==
    ASSUME NEW w \in Workers, IInv, MarkSigned(w)
    PROVE  IInv'
<1> USE WorkerAssumption DEF IInv
<1>1. job[w] \in Intents /\ NonceOf[job[w]] \in Nonces
    BY DEF MarkSigned, TypeOK
<1>2. UNCHANGED intents \/ IntentBecomes(job[w], "signed")
    BY <1>1, IntentWritten
    DEF MarkSigned, SetIntent, IntentStatuses, WriteFails, Throw, KeepsRows, rowVars
<1>3. TypeOK'
    BY <1>1, <1>2
    DEF MarkSigned, WriteFails, Throw, SetIntent, Goto, KeepsRows, SameJob,
        rowVars, TypeOK, Pcs, IntentBecomes
<1>4. /\ OneHolder'
      /\ HeldIsTaken'
      /\ QueuedIsUnsent'
    BY <1>1, <1>2
    DEF MarkSigned, WriteFails, Throw, SetIntent, Goto, KeepsRows, SameJob,
        rowVars, OneHolder, Working, HeldIsTaken, QueuedIsUnsent, IntentBecomes,
        TypeOK
<1>5. /\ UnsentBeforeBroadcast'
      /\ ClaimIsFresh'
      /\ AcceptedAfterBroadcast'
      /\ UndoKnowsTheNetwork'
      /\ SentAtMostOnce'
    BY <1>1, <1>2
    DEF MarkSigned, WriteFails, Throw, SetIntent, Goto, KeepsRows, SameJob,
        rowVars, UnsentBeforeBroadcast, BeforeBroadcast, Working, OneHolder,
        QueuedIsUnsent, ClaimIsFresh, AcceptedAfterBroadcast, AfterBroadcast,
        UndoKnowsTheNetwork, SentAtMostOnce, IntentBecomes, TypeOK
<1>6. /\ HashesWereAccepted'
      /\ SubmittedWasAccepted'
      /\ OneActiveRowPerNonce'
    BY <1>1, <1>2
    DEF MarkSigned, WriteFails, Throw, SetIntent, Goto, KeepsRows, SameJob,
        rowVars, HashesWereAccepted, AcceptedAfterBroadcast, AfterBroadcast,
        SubmittedWasAccepted, OneActiveRowPerNonce, IntentBecomes, TypeOK
<1>7. ReleasedIsOver'
    BY <1>1, <1>2
    DEF MarkSigned, WriteFails, Throw, SetIntent, Goto, KeepsRows, SameJob,
        rowVars, ReleasedIsOver, Unshared, Working, OneHolder,
        HeldIsTaken, UndoKnowsTheNetwork, IntentBecomes, TypeOK
<1> QED
    BY <1>3, <1>4, <1>5, <1>6, <1>7

\* The one step that sends: its intent was unsent, and its worker is alone.
LEMMA BroadcastKeeps ==
    ASSUME NEW w \in Workers, IInv, Broadcast(w)
    PROVE  IInv'
<1> USE WorkerAssumption DEF IInv
<1>1. TypeOK'
    BY DEF Broadcast, Rejected, NotesAttempt, Goto, rowVars, TypeOK, Pcs
<1>2. /\ OneHolder'
      /\ HeldIsTaken'
      /\ QueuedIsUnsent'
    BY DEF Broadcast, Rejected, NotesAttempt, Goto, rowVars, OneHolder, Working,
           HeldIsTaken, QueuedIsUnsent, TypeOK
<1>3. /\ UnsentBeforeBroadcast'
      /\ ClaimIsFresh'
      /\ AcceptedAfterBroadcast'
      /\ UndoKnowsTheNetwork'
      /\ SentAtMostOnce'
    BY DEF Broadcast, Rejected, NotesAttempt, Goto, rowVars,
           UnsentBeforeBroadcast, BeforeBroadcast, Working, OneHolder,
           QueuedIsUnsent, ClaimIsFresh, AcceptedAfterBroadcast, AfterBroadcast,
           UndoKnowsTheNetwork, SentAtMostOnce, TypeOK
<1>4. /\ HashesWereAccepted'
      /\ SubmittedWasAccepted'
      /\ OneActiveRowPerNonce'
    BY DEF Broadcast, Rejected, NotesAttempt, Goto, rowVars, HashesWereAccepted,
           AcceptedAfterBroadcast, AfterBroadcast, SubmittedWasAccepted,
           OneActiveRowPerNonce, TypeOK
<1>5. ReleasedIsOver'
    BY DEF Broadcast, Rejected, NotesAttempt, Goto, rowVars, ReleasedIsOver,
           Unshared, Working, OneHolder, HeldIsTaken, UndoKnowsTheNetwork,
           TypeOK
<1> QED
    BY <1>1, <1>2, <1>3, <1>4, <1>5

\* The nonce of an accepted transaction becomes SUBMITTED.
LEMMA MarkNonceSubmittedKeeps ==
    ASSUME NEW w \in Workers, IInv, MarkNonceSubmitted(w)
    PROVE  IInv'
<1> USE WorkerAssumption DEF IInv
<1>1. job[w] \in Intents /\ NonceOf[job[w]] \in Nonces
    BY DEF MarkNonceSubmitted, TypeOK
<1>2. UNCHANGED nonceRows \/ NonceBecomes(NonceOf[job[w]], "SUBMITTED")
    BY <1>1, NonceWritten
    DEF MarkNonceSubmitted, SetNonce, NonceStatuses, Throw, KeepsRows, rowVars
<1>3. TypeOK'
    BY <1>1, <1>2
    DEF MarkNonceSubmitted, Throw, SetNonce, Goto, KeepsRows, SameJob, rowVars,
        TypeOK, Pcs, NonceBecomes
<1>4. /\ OneHolder'
      /\ HeldIsTaken'
      /\ QueuedIsUnsent'
    BY <1>1, <1>2
    DEF MarkNonceSubmitted, Throw, SetNonce, Goto, KeepsRows, SameJob, rowVars,
        OneHolder, Working, HeldIsTaken, QueuedIsUnsent, NonceBecomes, TypeOK
<1>5. /\ UnsentBeforeBroadcast'
      /\ ClaimIsFresh'
      /\ AcceptedAfterBroadcast'
      /\ UndoKnowsTheNetwork'
      /\ SentAtMostOnce'
    BY <1>1, <1>2
    DEF MarkNonceSubmitted, Throw, SetNonce, Goto, KeepsRows, SameJob, rowVars,
        UnsentBeforeBroadcast, BeforeBroadcast, Working, OneHolder,
        QueuedIsUnsent, ClaimIsFresh, AcceptedAfterBroadcast, AfterBroadcast,
        UndoKnowsTheNetwork, SentAtMostOnce, NonceBecomes, TypeOK
<1>6. /\ HashesWereAccepted'
      /\ SubmittedWasAccepted'
      /\ OneActiveRowPerNonce'
    BY <1>1, <1>2
    DEF MarkNonceSubmitted, Throw, SetNonce, Goto, KeepsRows, SameJob, rowVars,
        HashesWereAccepted, AcceptedAfterBroadcast, AfterBroadcast,
        SubmittedWasAccepted, OneActiveRowPerNonce, NonceBecomes, TypeOK
<1>7. ReleasedIsOver'
    BY <1>1, <1>2
    DEF MarkNonceSubmitted, Throw, SetNonce, Goto, KeepsRows, SameJob, rowVars,
        ReleasedIsOver, Unshared, Working, OneHolder, HeldIsTaken,
        UndoKnowsTheNetwork, NonceBecomes, TypeOK
<1> QED
    BY <1>3, <1>4, <1>5, <1>6, <1>7

\* An accepted transaction makes its intent submitted.
LEMMA MarkIntentSubmittedKeeps ==
    ASSUME NEW w \in Workers, IInv, MarkIntentSubmitted(w)
    PROVE  IInv'
<1> USE WorkerAssumption DEF IInv
<1>1. job[w] \in Intents /\ NonceOf[job[w]] \in Nonces
    BY DEF MarkIntentSubmitted, TypeOK
<1>2. UNCHANGED intents \/ IntentBecomes(job[w], "submitted")
    BY <1>1, IntentWritten
    DEF MarkIntentSubmitted, SetIntent, IntentStatuses, WriteFails, Throw, KeepsRows,
        rowVars
<1>3. TypeOK'
    BY <1>1, <1>2
    DEF MarkIntentSubmitted, WriteFails, Throw, SetIntent, Goto, KeepsRows,
        SameJob, rowVars, TypeOK, Pcs, IntentBecomes
<1>4. /\ OneHolder'
      /\ HeldIsTaken'
      /\ QueuedIsUnsent'
    BY <1>1, <1>2
    DEF MarkIntentSubmitted, WriteFails, Throw, SetIntent, Goto, KeepsRows,
        SameJob, rowVars, OneHolder, Working, HeldIsTaken, QueuedIsUnsent,
        IntentBecomes, TypeOK
<1>5. /\ UnsentBeforeBroadcast'
      /\ ClaimIsFresh'
      /\ AcceptedAfterBroadcast'
      /\ UndoKnowsTheNetwork'
      /\ SentAtMostOnce'
    BY <1>1, <1>2
    DEF MarkIntentSubmitted, WriteFails, Throw, SetIntent, Goto, KeepsRows,
        SameJob, rowVars, UnsentBeforeBroadcast, BeforeBroadcast, Working,
        OneHolder, QueuedIsUnsent, ClaimIsFresh, AcceptedAfterBroadcast,
        AfterBroadcast, UndoKnowsTheNetwork, SentAtMostOnce, IntentBecomes,
        TypeOK
<1>6. /\ HashesWereAccepted'
      /\ SubmittedWasAccepted'
      /\ OneActiveRowPerNonce'
    <2>1. UNCHANGED <<nonceRows, transfers, chainRows, network, job>>
        BY DEF MarkIntentSubmitted, WriteFails, Throw, SetIntent, KeepsRows, SameJob, rowVars
    <2>2. HashesWereAccepted'
        BY <1>2, <2>1 DEF HashesWereAccepted, IntentBecomes
    <2>3. job[w] \in network
        BY DEF MarkIntentSubmitted, AcceptedAfterBroadcast, AfterBroadcast
    <2>4. SubmittedWasAccepted'
        BY <1>2, <2>1, <2>3 DEF SubmittedWasAccepted, IntentBecomes
    <2>5. OneActiveRowPerNonce'
        BY <2>1 DEF OneActiveRowPerNonce
    <2> QED
        BY <2>2, <2>4, <2>5
<1>7. ReleasedIsOver'
    BY <1>1, <1>2
    DEF MarkIntentSubmitted, WriteFails, Throw, SetIntent, Goto, KeepsRows,
        SameJob, rowVars, ReleasedIsOver, Unshared, Working, OneHolder,
        HeldIsTaken, UndoKnowsTheNetwork, IntentBecomes, TypeOK
<1> QED
    BY <1>3, <1>4, <1>5, <1>6, <1>7

\* An accepted transaction makes its transfer submitted.
LEMMA MarkTransferSubmittedKeeps ==
    ASSUME NEW w \in Workers, IInv, MarkTransferSubmitted(w)
    PROVE  IInv'
<1> USE WorkerAssumption DEF IInv
<1>1. job[w] \in Intents /\ NonceOf[job[w]] \in Nonces
    BY DEF MarkTransferSubmitted, TypeOK
<1>2. UNCHANGED transfers \/ TransferBecomes(job[w], "submitted", job[w])
    BY <1>1, TransferWritten
    DEF MarkTransferSubmitted, SetTransfer, TransferStatuses, WriteFails, Throw,
        KeepsRows, rowVars
<1>3. TypeOK'
    BY <1>1, <1>2
    DEF MarkTransferSubmitted, WriteFails, Throw, SetTransfer, Goto, KeepsRows,
        SameJob, rowVars, TypeOK, Pcs, TransferBecomes
<1>4. /\ OneHolder'
      /\ HeldIsTaken'
      /\ QueuedIsUnsent'
    BY <1>1, <1>2
    DEF MarkTransferSubmitted, WriteFails, Throw, SetTransfer, Goto, KeepsRows,
        SameJob, rowVars, OneHolder, Working, HeldIsTaken, QueuedIsUnsent,
        TransferBecomes, TypeOK
<1>5. /\ UnsentBeforeBroadcast'
      /\ ClaimIsFresh'
      /\ AcceptedAfterBroadcast'
      /\ UndoKnowsTheNetwork'
      /\ SentAtMostOnce'
    BY <1>1, <1>2
    DEF MarkTransferSubmitted, WriteFails, Throw, SetTransfer, Goto, KeepsRows,
        SameJob, rowVars, UnsentBeforeBroadcast, BeforeBroadcast, Working,
        OneHolder, QueuedIsUnsent, ClaimIsFresh, AcceptedAfterBroadcast,
        AfterBroadcast, UndoKnowsTheNetwork, SentAtMostOnce, TransferBecomes,
        TypeOK
<1>6. /\ HashesWereAccepted'
      /\ SubmittedWasAccepted'
      /\ OneActiveRowPerNonce'
    BY <1>1, <1>2
    DEF MarkTransferSubmitted, WriteFails, Throw, SetTransfer, Goto, KeepsRows,
        SameJob, rowVars, HashesWereAccepted, AcceptedAfterBroadcast,
        AfterBroadcast, SubmittedWasAccepted, OneActiveRowPerNonce,
        TransferBecomes, TypeOK
<1>7. ReleasedIsOver'
    BY <1>1, <1>2
    DEF MarkTransferSubmitted, WriteFails, Throw, SetTransfer, Goto, KeepsRows,
        SameJob, rowVars, ReleasedIsOver, Unshared, Working, OneHolder,
        HeldIsTaken, UndoKnowsTheNetwork, TransferBecomes, TypeOK
<1> QED
    BY <1>3, <1>4, <1>5, <1>6, <1>7

\* The chain row replaces the active rows of its nonce.
LEMMA RecordChainTransactionKeeps ==
    ASSUME NEW w \in Workers, IInv, RecordChainTransaction(w)
    PROVE  IInv'
<1> USE WorkerAssumption DEF IInv
<1>1. TypeOK'
    BY DEF RecordChainTransaction, ReplacedBy, Goto, KeepsRows, SameJob,
           rowVars, TypeOK, Pcs
<1>2. /\ OneHolder'
      /\ HeldIsTaken'
      /\ QueuedIsUnsent'
    BY DEF RecordChainTransaction, ReplacedBy, Goto, KeepsRows, SameJob,
           rowVars, OneHolder, Working, HeldIsTaken, QueuedIsUnsent, TypeOK
<1>3. /\ UnsentBeforeBroadcast'
      /\ ClaimIsFresh'
      /\ AcceptedAfterBroadcast'
      /\ UndoKnowsTheNetwork'
      /\ SentAtMostOnce'
    BY DEF RecordChainTransaction, ReplacedBy, Goto, KeepsRows, SameJob,
           rowVars, UnsentBeforeBroadcast, BeforeBroadcast, Working, OneHolder,
           QueuedIsUnsent, ClaimIsFresh, AcceptedAfterBroadcast, AfterBroadcast,
           UndoKnowsTheNetwork, SentAtMostOnce, TypeOK
<1>4. /\ HashesWereAccepted'
      /\ SubmittedWasAccepted'
      /\ OneActiveRowPerNonce'
    BY DEF RecordChainTransaction, ReplacedBy, Goto, KeepsRows, SameJob,
           rowVars, HashesWereAccepted, AcceptedAfterBroadcast, AfterBroadcast,
           SubmittedWasAccepted, OneActiveRowPerNonce, TypeOK
<1>5. ReleasedIsOver'
    BY DEF RecordChainTransaction, ReplacedBy, Goto, KeepsRows, SameJob,
           rowVars, ReleasedIsOver, Unshared, Working, OneHolder,
           HeldIsTaken, UndoKnowsTheNetwork, TypeOK
<1> QED
    BY <1>1, <1>2, <1>3, <1>4, <1>5

\* The transfer is written again.
LEMMA MarkTransferReplacingKeeps ==
    ASSUME NEW w \in Workers, IInv, MarkTransferReplacing(w)
    PROVE  IInv'
<1> USE WorkerAssumption DEF IInv
<1>1. job[w] \in Intents /\ NonceOf[job[w]] \in Nonces
    BY DEF MarkTransferReplacing, TypeOK
<1>2. UNCHANGED transfers \/ TransferBecomes(job[w], "submitted", job[w])
    BY <1>1, TransferWritten
    DEF MarkTransferReplacing, RecordFails, SetTransfer, TransferStatuses, KeepsRows, rowVars
<1>a. /\ UNCHANGED <<intents, nonceRows, chainRows, network, sends, orphaned, crashes>>
      /\ UNCHANGED <<job, attempted, replaced>> /\ pc[w] = "markReplacing"
    BY DEF MarkTransferReplacing, RecordFails, SetTransfer, KeepsRows, SameJob, rowVars
<1>b. PICK next \in {"idle", "replaceTransfers"} : pc' = [pc EXCEPT ![w] = next]
    BY DEF MarkTransferReplacing, RecordGoesOn, RecordFails, Goto
<1>3. TypeOK'
    BY <1>1, <1>2, <1>a, <1>b
    DEF TypeOK, Pcs, TransferBecomes
<1>4. /\ OneHolder'
      /\ HeldIsTaken'
      /\ QueuedIsUnsent'
    BY <1>1, <1>2, <1>a, <1>b
    DEF OneHolder, Working, HeldIsTaken, QueuedIsUnsent, TransferBecomes, TypeOK
<1>5. /\ UnsentBeforeBroadcast'
      /\ ClaimIsFresh'
      /\ AcceptedAfterBroadcast'
      /\ UndoKnowsTheNetwork'
      /\ SentAtMostOnce'
    BY <1>1, <1>2, <1>a, <1>b
    DEF UnsentBeforeBroadcast, BeforeBroadcast, Working, OneHolder,
        QueuedIsUnsent, ClaimIsFresh, AcceptedAfterBroadcast, AfterBroadcast,
        UndoKnowsTheNetwork, SentAtMostOnce, TransferBecomes, TypeOK
<1>6. /\ HashesWereAccepted'
      /\ SubmittedWasAccepted'
      /\ OneActiveRowPerNonce'
    BY <1>1, <1>2, <1>a, <1>b
    DEF HashesWereAccepted, AcceptedAfterBroadcast, AfterBroadcast,
        SubmittedWasAccepted, OneActiveRowPerNonce, TransferBecomes, TypeOK
<1>7. ReleasedIsOver'
    BY <1>1, <1>2, <1>a, <1>b
    DEF ReleasedIsOver, Unshared, Working, OneHolder, HeldIsTaken,
        UndoKnowsTheNetwork, TransferBecomes, TypeOK
<1> QED
    BY <1>3, <1>4, <1>5, <1>6, <1>7

\* Only transfers that carry a hash become replaced.
LEMMA ReplaceTransfersKeeps ==
    ASSUME NEW w \in Workers, IInv, ReplaceTransfers(w)
    PROVE  IInv'
<1> USE WorkerAssumption DEF IInv
<1>1. job[w] \in Intents /\ NonceOf[job[w]] \in Nonces
    BY DEF ReplaceTransfers, RecordFails, TypeOK
<1>2. /\ transfers' \in [Intents -> Rows(TransferStatuses)]
      /\ \A i \in Intents :
            \/ transfers'[i] = transfers[i]
            \/ /\ transfers[i].txHash # None
               /\ transfers'[i].txHash = transfers[i].txHash
    <2>1. \A i \in Intents : transfers[i].txHash \in Intents \cup {None}
        BY DEF TypeOK, Rows
    <2>2. \A i \in Intents :
              /\ Row("replaced", transfers[i].txHash) \in Rows(TransferStatuses)
              /\ Row("replaced", transfers[i].txHash).txHash = transfers[i].txHash
        <3>1. "replaced" \in TransferStatuses
            BY DEF TransferStatuses
        <3> QED BY <2>1, <3>1, RowFacts
    <2>3. None \notin replaced[w]
        BY DEF TypeOK
    <2>4. transfers \in [Intents -> Rows(TransferStatuses)]
        BY DEF TypeOK
    <2>5. CASE transfers' = transfers
        BY <2>4, <2>5
    <2>6. CASE transfers' = [i \in Intents |->
                    IF transfers[i].txHash \in replaced[w]
                    THEN Row("replaced", transfers[i].txHash) ELSE transfers[i]]
        BY <2>2, <2>3, <2>4, <2>6
    <2> QED
        BY <2>5, <2>6 DEF ReplaceTransfers, RecordFails, KeepsRows, rowVars
<1>a. /\ UNCHANGED <<intents, nonceRows, chainRows, network, sends, orphaned, crashes>>
      /\ UNCHANGED <<job, attempted, replaced>> /\ pc[w] = "replaceTransfers"
    BY DEF ReplaceTransfers, RecordFails, SetTransfer, KeepsRows, SameJob, rowVars
<1>b. PICK next \in {"idle", "failNonces"} : pc' = [pc EXCEPT ![w] = next]
    BY DEF ReplaceTransfers, RecordGoesOn, RecordFails, Goto
<1>3. TypeOK'
    BY <1>1, <1>2, <1>a, <1>b
    DEF TypeOK, Pcs
<1>4. /\ OneHolder'
      /\ HeldIsTaken'
      /\ QueuedIsUnsent'
    BY <1>1, <1>2, <1>a, <1>b
    DEF OneHolder, Working,
        HeldIsTaken, QueuedIsUnsent, TypeOK
<1>5. /\ UnsentBeforeBroadcast'
      /\ ClaimIsFresh'
      /\ AcceptedAfterBroadcast'
      /\ UndoKnowsTheNetwork'
      /\ SentAtMostOnce'
    BY <1>1, <1>2, <1>a, <1>b
    DEF UnsentBeforeBroadcast, BeforeBroadcast, Working, OneHolder,
        QueuedIsUnsent, ClaimIsFresh, AcceptedAfterBroadcast, AfterBroadcast,
        UndoKnowsTheNetwork, SentAtMostOnce, TypeOK
<1>6. /\ HashesWereAccepted'
      /\ SubmittedWasAccepted'
      /\ OneActiveRowPerNonce'
    BY <1>1, <1>2, <1>a, <1>b
    DEF HashesWereAccepted,
        AcceptedAfterBroadcast, AfterBroadcast, SubmittedWasAccepted,
        OneActiveRowPerNonce, TypeOK
<1>7. ReleasedIsOver'
    BY <1>1, <1>2, <1>a, <1>b
    DEF ReleasedIsOver,
        Unshared, Working, OneHolder, HeldIsTaken, UndoKnowsTheNetwork,
        TypeOK
<1> QED
    BY <1>3, <1>4, <1>5, <1>6, <1>7

\* No nonce becomes RELEASED here.
LEMMA FailReplacedNoncesKeeps ==
    ASSUME NEW w \in Workers, IInv, FailReplacedNonces(w)
    PROVE  IInv'
<1> USE WorkerAssumption DEF IInv
<1>1. job[w] \in Intents /\ NonceOf[job[w]] \in Nonces
    BY DEF FailReplacedNonces, TypeOK
<1>2. /\ nonceRows' \in [Nonces -> Rows(NonceStatuses)]
      /\ \A n \in Nonces :
            nonceRows'[n] = nonceRows[n] \/ nonceRows'[n].status = "FAILED"
    <2>1. \A n \in Nonces : nonceRows[n].txHash \in Intents \cup {None}
        BY DEF TypeOK, Rows
    <2>2. \A n \in Nonces :
              /\ Row("FAILED", nonceRows[n].txHash) \in Rows(NonceStatuses)
              /\ Row("FAILED", nonceRows[n].txHash).status = "FAILED"
        BY <2>1, RowFacts DEF NonceStatuses
    <2> QED
        BY <2>2 DEF FailReplacedNonces, KeepsRows, rowVars, TypeOK
<1>3. TypeOK'
    BY <1>1, <1>2
    DEF FailReplacedNonces, Goto, KeepsRows, SameJob, rowVars, TypeOK, Pcs
<1>4. /\ OneHolder'
      /\ HeldIsTaken'
      /\ QueuedIsUnsent'
    BY <1>1, <1>2
    DEF FailReplacedNonces, Goto, KeepsRows, SameJob, rowVars, OneHolder,
        Working, HeldIsTaken, QueuedIsUnsent, TypeOK
<1>5. /\ UnsentBeforeBroadcast'
      /\ ClaimIsFresh'
      /\ AcceptedAfterBroadcast'
      /\ UndoKnowsTheNetwork'
      /\ SentAtMostOnce'
    BY <1>1, <1>2
    DEF FailReplacedNonces, Goto, KeepsRows, SameJob, rowVars,
        UnsentBeforeBroadcast, BeforeBroadcast, Working, OneHolder,
        QueuedIsUnsent, ClaimIsFresh, AcceptedAfterBroadcast, AfterBroadcast,
        UndoKnowsTheNetwork, SentAtMostOnce, TypeOK
<1>6. /\ HashesWereAccepted'
      /\ SubmittedWasAccepted'
      /\ OneActiveRowPerNonce'
    BY <1>1, <1>2
    DEF FailReplacedNonces, Goto, KeepsRows, SameJob, rowVars,
        HashesWereAccepted, AcceptedAfterBroadcast, AfterBroadcast,
        SubmittedWasAccepted, OneActiveRowPerNonce, TypeOK
<1>7. ReleasedIsOver'
    BY <1>1, <1>2
    DEF FailReplacedNonces, Goto, KeepsRows, SameJob, rowVars, ReleasedIsOver,
        Unshared, Working, OneHolder, HeldIsTaken, UndoKnowsTheNetwork,
        TypeOK
<1> QED
    BY <1>3, <1>4, <1>5, <1>6, <1>7

\* The only step that releases a nonce: nothing was sent.
LEMMA UndoNonceKeeps ==
    ASSUME NEW w \in Workers, IInv, UndoNonce(w)
    PROVE  IInv'
<1> USE WorkerAssumption DEF IInv
<1>1. job[w] \in Intents /\ NonceOf[job[w]] \in Nonces
    BY DEF UndoNonce, TypeOK
<1>2. \/ UNCHANGED nonceRows
      \/ attempted[w] /\ NonceBecomes(NonceOf[job[w]], "FAILED")
      \/ ~attempted[w] /\ NonceBecomes(NonceOf[job[w]], "RELEASED")
    <2>1. nonceRows[NonceOf[job[w]]].txHash \in Intents \cup {None}
        BY <1>1 DEF TypeOK, Rows
    <2> QED
        BY <1>1, <2>1, NonceWritten
        DEF UndoNonce, SetNonce, NonceStatuses, KeepsRows, rowVars
<1>3. TypeOK'
    BY <1>1, <1>2
    DEF UndoNonce, SetNonce, Goto, KeepsRows, SameJob, rowVars, TypeOK, Pcs,
        NonceBecomes
<1>4. /\ OneHolder'
      /\ HeldIsTaken'
      /\ QueuedIsUnsent'
    BY <1>1, <1>2
    DEF UndoNonce, SetNonce, Goto, KeepsRows, SameJob, rowVars, OneHolder,
        Working, HeldIsTaken, QueuedIsUnsent, NonceBecomes, TypeOK
<1>5. /\ UnsentBeforeBroadcast'
      /\ ClaimIsFresh'
      /\ AcceptedAfterBroadcast'
      /\ UndoKnowsTheNetwork'
      /\ SentAtMostOnce'
    BY <1>1, <1>2
    DEF UndoNonce, SetNonce, Goto, KeepsRows, SameJob, rowVars,
        UnsentBeforeBroadcast, BeforeBroadcast, Working, OneHolder,
        QueuedIsUnsent, ClaimIsFresh, AcceptedAfterBroadcast, AfterBroadcast,
        UndoKnowsTheNetwork, SentAtMostOnce, NonceBecomes, TypeOK
<1>6. /\ HashesWereAccepted'
      /\ SubmittedWasAccepted'
      /\ OneActiveRowPerNonce'
    BY <1>1, <1>2
    DEF UndoNonce, SetNonce, Goto, KeepsRows, SameJob, rowVars,
        HashesWereAccepted, AcceptedAfterBroadcast, AfterBroadcast,
        SubmittedWasAccepted, OneActiveRowPerNonce, NonceBecomes, TypeOK
<1>7. ReleasedIsOver'
    BY <1>1, <1>2
    DEF UndoNonce, SetNonce, Goto, KeepsRows, SameJob, rowVars, ReleasedIsOver,
        Unshared, Working, OneHolder, HeldIsTaken, UndoKnowsTheNetwork,
        NonceBecomes, TypeOK
<1> QED
    BY <1>3, <1>4, <1>5, <1>6, <1>7

\* A failed intent is not queued.
LEMMA FailIntentKeeps ==
    ASSUME NEW w \in Workers, IInv, FailIntent(w)
    PROVE  IInv'
<1> USE WorkerAssumption DEF IInv
<1>1. job[w] \in Intents /\ NonceOf[job[w]] \in Nonces
    BY DEF FailIntent, TypeOK
<1>2. UNCHANGED intents \/ IntentBecomes(job[w], "failed")
    BY <1>1, IntentWritten DEF FailIntent, SetIntent, IntentStatuses, rowVars
<1>3. TypeOK'
    BY <1>1, <1>2
    DEF FailIntent, SetIntent, Goto, SameJob, rowVars, TypeOK, Pcs,
        IntentBecomes
<1>4. /\ OneHolder'
      /\ HeldIsTaken'
      /\ QueuedIsUnsent'
    BY <1>1, <1>2
    DEF FailIntent, SetIntent, Goto, SameJob, rowVars, OneHolder, Working,
        HeldIsTaken, QueuedIsUnsent, IntentBecomes, TypeOK
<1>5. /\ UnsentBeforeBroadcast'
      /\ ClaimIsFresh'
      /\ AcceptedAfterBroadcast'
      /\ UndoKnowsTheNetwork'
      /\ SentAtMostOnce'
    BY <1>1, <1>2
    DEF FailIntent, SetIntent, Goto, SameJob, rowVars, UnsentBeforeBroadcast,
        BeforeBroadcast, Working, OneHolder, QueuedIsUnsent, ClaimIsFresh,
        AcceptedAfterBroadcast, AfterBroadcast, UndoKnowsTheNetwork,
        SentAtMostOnce, IntentBecomes, TypeOK
<1>6. /\ HashesWereAccepted'
      /\ SubmittedWasAccepted'
      /\ OneActiveRowPerNonce'
    BY <1>1, <1>2
    DEF FailIntent, SetIntent, Goto, SameJob, rowVars, HashesWereAccepted,
        AcceptedAfterBroadcast, AfterBroadcast, SubmittedWasAccepted,
        OneActiveRowPerNonce, IntentBecomes, TypeOK
<1>7. ReleasedIsOver'
    BY <1>1, <1>2
    DEF FailIntent, SetIntent, Goto, SameJob, rowVars, ReleasedIsOver,
        Unshared, Working, OneHolder, HeldIsTaken, UndoKnowsTheNetwork,
        IntentBecomes, TypeOK
<1> QED
    BY <1>3, <1>4, <1>5, <1>6, <1>7

\* A failed transfer keeps its hash.
LEMMA FailTransferKeeps ==
    ASSUME NEW w \in Workers, IInv, FailTransfer(w)
    PROVE  IInv'
<1> USE WorkerAssumption DEF IInv
<1>1. job[w] \in Intents /\ NonceOf[job[w]] \in Nonces
    BY DEF FailTransfer, TypeOK
<1>2. \/ UNCHANGED transfers
      \/ TransferBecomes(job[w], "failed", transfers[job[w]].txHash)
    <2>1. transfers[job[w]].txHash \in Intents \cup {None}
        BY <1>1 DEF TypeOK, Rows
    <2> QED
        BY <1>1, <2>1, TransferWritten
        DEF FailTransfer, SetTransfer, TransferStatuses, rowVars
<1>3. TypeOK'
    BY <1>1, <1>2
    DEF FailTransfer, SetTransfer, Goto, SameJob, rowVars, TypeOK, Pcs,
        TransferBecomes
<1>4. /\ OneHolder'
      /\ HeldIsTaken'
      /\ QueuedIsUnsent'
    BY <1>1, <1>2
    DEF FailTransfer, SetTransfer, Goto, SameJob, rowVars, OneHolder, Working,
        HeldIsTaken, QueuedIsUnsent, TransferBecomes, TypeOK
<1>5. /\ UnsentBeforeBroadcast'
      /\ ClaimIsFresh'
      /\ AcceptedAfterBroadcast'
      /\ UndoKnowsTheNetwork'
      /\ SentAtMostOnce'
    BY <1>1, <1>2
    DEF FailTransfer, SetTransfer, Goto, SameJob, rowVars,
        UnsentBeforeBroadcast, BeforeBroadcast, Working, OneHolder,
        QueuedIsUnsent, ClaimIsFresh, AcceptedAfterBroadcast, AfterBroadcast,
        UndoKnowsTheNetwork, SentAtMostOnce, TransferBecomes, TypeOK
<1>6. /\ HashesWereAccepted'
      /\ SubmittedWasAccepted'
      /\ OneActiveRowPerNonce'
    BY <1>1, <1>2
    DEF FailTransfer, SetTransfer, Goto, SameJob, rowVars, HashesWereAccepted,
        AcceptedAfterBroadcast, AfterBroadcast, SubmittedWasAccepted,
        OneActiveRowPerNonce, TransferBecomes, TypeOK
<1>7. ReleasedIsOver'
    BY <1>1, <1>2
    DEF FailTransfer, SetTransfer, Goto, SameJob, rowVars, ReleasedIsOver,
        Unshared, Working, OneHolder, HeldIsTaken, UndoKnowsTheNetwork,
        TransferBecomes, TypeOK
<1> QED
    BY <1>3, <1>4, <1>5, <1>6, <1>7

\* A crash only lets go of the intent.
LEMMA CrashKeeps ==
    ASSUME NEW w \in Workers, IInv, Crash(w)
    PROVE  IInv'
<1> USE WorkerAssumption DEF IInv
<1>1. TypeOK'
    BY DEF Crash, Goto, SameJob, rowVars, TypeOK, Pcs
<1>2. /\ OneHolder'
      /\ HeldIsTaken'
      /\ QueuedIsUnsent'
    BY DEF Crash, Goto, SameJob, rowVars, OneHolder, Working, HeldIsTaken,
           QueuedIsUnsent, TypeOK
<1>3. /\ UnsentBeforeBroadcast'
      /\ ClaimIsFresh'
      /\ AcceptedAfterBroadcast'
      /\ UndoKnowsTheNetwork'
      /\ SentAtMostOnce'
    BY DEF Crash, Goto, SameJob, rowVars, UnsentBeforeBroadcast,
           BeforeBroadcast, Working, OneHolder, QueuedIsUnsent, ClaimIsFresh,
           AcceptedAfterBroadcast, AfterBroadcast, UndoKnowsTheNetwork,
           SentAtMostOnce, TypeOK
<1>4. /\ HashesWereAccepted'
      /\ SubmittedWasAccepted'
      /\ OneActiveRowPerNonce'
    BY DEF Crash, Goto, SameJob, rowVars, HashesWereAccepted,
           AcceptedAfterBroadcast, AfterBroadcast, SubmittedWasAccepted,
           OneActiveRowPerNonce, TypeOK
<1>5. ReleasedIsOver'
    BY DEF Crash, Goto, SameJob, rowVars, ReleasedIsOver, Unshared,
           Working, OneHolder, HeldIsTaken, UndoKnowsTheNetwork, TypeOK
<1> QED
    BY <1>1, <1>2, <1>3, <1>4, <1>5

\* Queued intents with reserved nonces and idle workers.
LEMMA InitInv == Init => IInv
<1> SUFFICES ASSUME Init PROVE IInv
    OBVIOUS
<1> USE WorkerAssumption DEF Init
<1>1. /\ Row("queued", None) \in Rows(IntentStatuses)
      /\ Row("queued", None).status = "queued"
    BY RowFacts DEF IntentStatuses
<1>2. /\ Row("RESERVED", None) \in Rows(NonceStatuses)
      /\ Row("RESERVED", None).status = "RESERVED"
    BY RowFacts DEF NonceStatuses
<1>3. /\ Row("pending_broadcast", None) \in Rows(TransferStatuses)
      /\ Row("pending_broadcast", None).status = "pending_broadcast"
      /\ Row("pending_broadcast", None).txHash = None
    BY RowFacts DEF TransferStatuses
<1>4. TypeOK
    BY <1>1, <1>2, <1>3 DEF TypeOK, Pcs
<1>5. OneHolder /\ HeldIsTaken /\ QueuedIsUnsent
    BY DEF OneHolder, HeldIsTaken, QueuedIsUnsent, Working
<1>6. /\ UnsentBeforeBroadcast
      /\ ClaimIsFresh
      /\ AcceptedAfterBroadcast
      /\ UndoKnowsTheNetwork
      /\ SentAtMostOnce
    BY DEF UnsentBeforeBroadcast, BeforeBroadcast, ClaimIsFresh,
           AcceptedAfterBroadcast, AfterBroadcast, UndoKnowsTheNetwork,
           SentAtMostOnce
<1>7. HashesWereAccepted /\ SubmittedWasAccepted /\ OneActiveRowPerNonce
    BY <1>1, <1>3
    DEF HashesWereAccepted, SubmittedWasAccepted, OneActiveRowPerNonce
<1>8. ReleasedIsOver
    BY <1>2 DEF ReleasedIsOver
<1> QED
    BY <1>4, <1>5, <1>6, <1>7, <1>8 DEF IInv

\* A step that changes nothing.
LEMMA StutterInv == IInv /\ UNCHANGED vars => IInv'
BY DEF IInv, vars, rowVars, TypeOK, OneHolder, HeldIsTaken, QueuedIsUnsent,
       UnsentBeforeBroadcast, BeforeBroadcast, ClaimIsFresh,
       AcceptedAfterBroadcast, AfterBroadcast, UndoKnowsTheNetwork,
       HashesWereAccepted, ReleasedIsOver, SentAtMostOnce, SubmittedWasAccepted,
       OneActiveRowPerNonce, Working

\* Every step of every worker, and a crash, keeps the invariant.
LEMMA NextInv == IInv /\ [Next]_vars => IInv'
<1> SUFFICES ASSUME IInv, [Next]_vars PROVE IInv'
    OBVIOUS
<1>1. CASE UNCHANGED vars
    BY <1>1, StutterInv
<1>2. ASSUME NEW w \in Workers, Step(w) PROVE IInv'
    BY <1>2, FindKeeps, ClaimKeeps,
       GetProviderKeeps, SignKeeps, MarkSignedKeeps, BroadcastKeeps,
       MarkNonceSubmittedKeeps, MarkIntentSubmittedKeeps,
       MarkTransferSubmittedKeeps, RecordChainTransactionKeeps,
       MarkTransferReplacingKeeps, ReplaceTransfersKeeps,
       FailReplacedNoncesKeeps, UndoNonceKeeps, FailIntentKeeps,
       FailTransferKeeps
    DEF Step, Process, Record, Recover
<1>3. ASSUME NEW w \in Workers, Crash(w) PROVE IInv'
    BY <1>3, CrashKeeps
<1> QED BY <1>1, <1>2, <1>3 DEF Next

\* The inductive invariant holds of every behaviour.
THEOREM InvariantHolds == Spec => []IInv
<1>1. Init => IInv
    BY InitInv
<1>2. IInv /\ [Next]_vars => IInv'
    BY NextInv
<1> QED BY <1>1, <1>2, PTL DEF Spec

\* Type correctness.
THEOREM TypeCorrect == Spec => []TypeOK
<1>1. IInv => TypeOK
    BY DEF IInv
<1> QED BY <1>1, InvariantHolds, PTL

\* No transaction is sent twice, for any number of workers and crashes: the
\* compare-and-set of claimNextQueuedWalletSigningIntent is enough.
THEOREM NeverSentTwice == Spec => []SentAtMostOnce
<1>1. IInv => SentAtMostOnce
    BY DEF IInv
<1> QED BY <1>1, InvariantHolds, PTL

\* What is shown as submitted or replaced was accepted by the network.
THEOREM SubmittedIsReal == Spec => []SubmittedWasAccepted
<1>1. IInv => SubmittedWasAccepted
    BY DEF IInv
<1> QED BY <1>1, InvariantHolds, PTL

\* The transactions of one nonce have one active chain row at most, also when
\* intents share a reservation.
THEOREM ActiveRowsAreUnique == Spec => []OneActiveRowPerNonce
<1>1. IInv => OneActiveRowPerNonce
    BY DEF IInv
<1> QED BY <1>1, InvariantHolds, PTL

\* The error path of processClaimedSigningIntent releases the nonce of an intent
\* that shares it with no other only if nothing was sent with it.
THEOREM ReleaseIsSafe == Spec => []ReleasedNonceNeverSent
<1>1. IInv => ReleasedNonceNeverSent
    BY DEF IInv, ReleasedIsOver, ReleasedNonceNeverSent
<1> QED BY <1>1, InvariantHolds, PTL
==============================================================================

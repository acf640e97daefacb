-------------------------- MODULE SigningIntentWorker --------------------------
(***************************************************************************)
(* The signing worker (src/services/signing-intent.worker.ts) and the      *)
(* queue of wallet signing intents it drains                               *)
(* (src/services/signing-intent.service.ts).                               *)
(*                                                                         *)
(* A worker claims the oldest queued intent, signs its transaction, sends  *)
(* it to the network and then writes four places: the nonce reservation,   *)
(* the intent, the transfer log and the chain transaction.  No transaction *)
(* spans the writes, so each is a step, each may fail, and the process may *)
(* die between any two.  Several workers may run.                          *)
(*                                                                         *)
(* Signing is deterministic: an intent stands for its transaction hash.    *)
(***************************************************************************)
EXTENDS Integers, FiniteSets

CONSTANTS
    N,           \* number of intents; they are 1..N in the order of createdAt
    Workers,     \* worker processes
    Nonces,      \* nonce reservations
    NonceOf,     \* the reservation an intent signs with
    None,        \* null
    StrictMode,  \* isStrictMode: a failed write throws instead of being logged
    MaxCrashes   \* bound on the number of process crashes

Intents == 1..N

VARIABLES
    intents,    \* [Intents -> [status, txHash]]: the WalletSigningIntent rows
    nonceRows,  \* [Nonces -> [status, txHash]]: the NonceReservation rows
    transfers,  \* [Intents -> [status, txHash]]: the transfer log rows
    chainRows,  \* [Intents -> status or None]: the ChainTransaction rows
    network,    \* transactions the network has accepted
    sends,      \* history: how often a transaction was sent
    orphaned,   \* history: intents whose worker died or lost a write
    crashes,    \* number of crashes so far
    pc,         \* where a worker is
    job,        \* the intent a worker handles
    attempted,  \* broadcastAttempted
    replaced    \* replacedTxHashes of the worker's recordChainTransaction

rowVars == <<intents, nonceRows, transfers, chainRows>>

vars == <<rowVars, network, sends, orphaned, crashes, pc, job, attempted,
          replaced>>

IntentStatuses == {"queued", "approved", "signed", "submitted", "failed"}

NonceStatuses == {"RESERVED", "SUBMITTED", "FAILED", "RELEASED"}

TransferStatuses == {"pending_broadcast", "submitted", "failed", "replaced"}

Pcs == {"idle", "claim", "provider", "sign", "markSigned", "broadcast",
        "markNonce", "markIntent", "markTransfer", "record", "markReplacing",
        "replaceTransfers", "failNonces", "undoNonce", "failIntent",
        "failTransfer"}

Rows(statuses) == [status: statuses, txHash: Intents \cup {None}]

ASSUME WorkerAssumption ==
    /\ N \in Nat
    /\ NonceOf \in [Intents -> Nonces]
    /\ StrictMode \in BOOLEAN
    /\ MaxCrashes \in Nat
    /\ None \notin Intents
    /\ None \notin {"submitted", "replaced"}

TypeOK ==
    /\ intents \in [Intents -> Rows(IntentStatuses)]
    /\ nonceRows \in [Nonces -> Rows(NonceStatuses)]
    /\ transfers \in [Intents -> Rows(TransferStatuses)]
    /\ chainRows \in [Intents -> {"submitted", "replaced", None}]
    /\ network \subseteq Intents
    /\ sends \in [Intents -> Nat]
    /\ orphaned \subseteq Intents
    /\ crashes \in 0..MaxCrashes
    /\ pc \in [Workers -> Pcs]
    /\ job \in [Workers -> Intents \cup {None}]
    /\ attempted \in [Workers -> BOOLEAN]
    /\ replaced \in [Workers -> SUBSET Intents]
    /\ \A w \in Workers : pc[w] # "idle" => job[w] \in Intents

Row(status, hash) == [status |-> status, txHash |-> hash]

\* The send route queued the intents and left their transfers pending.
Init ==
    /\ intents = [i \in Intents |-> Row("queued", None)]
    /\ nonceRows = [n \in Nonces |-> Row("RESERVED", None)]
    /\ transfers = [i \in Intents |-> Row("pending_broadcast", None)]
    /\ chainRows = [i \in Intents |-> None]
    /\ network = {}
    /\ sends = [i \in Intents |-> 0]
    /\ orphaned = {}
    /\ crashes = 0
    /\ pc = [w \in Workers |-> "idle"]
    /\ job = [w \in Workers |-> None]
    /\ attempted = [w \in Workers |-> FALSE]
    /\ replaced = [w \in Workers |-> {}]

(***************************************************************************)
(* Moves of a worker                                                       *)
(***************************************************************************)
Goto(w, where) == pc' = [pc EXCEPT ![w] = where]

KeepsRows == UNCHANGED <<rowVars, network, sends, orphaned, crashes>>

SetIntent(i, row) ==
    /\ intents' = [intents EXCEPT ![i] = row]
    /\ UNCHANGED <<nonceRows, transfers, chainRows, network, sends, orphaned,
                   crashes>>

SetNonce(n, row) ==
    /\ nonceRows' = [nonceRows EXCEPT ![n] = row]
    /\ UNCHANGED <<intents, transfers, chainRows, network, sends, orphaned,
                   crashes>>

SetTransfer(i, row) ==
    /\ transfers' = [transfers EXCEPT ![i] = row]
    /\ UNCHANGED <<intents, nonceRows, chainRows, network, sends, orphaned,
                   crashes>>

\* A call throws: the catch of processClaimedSigningIntent.
Throw(w) == KeepsRows /\ Goto(w, "undoNonce")

\* A write of the intent or the transfer log fails: it throws in strict mode and
\* is logged otherwise.
WriteFails(w, next) ==
    \/ StrictMode /\ Throw(w)
    \/ /\ ~StrictMode
       /\ orphaned' = orphaned \cup {job[w]}
       /\ Goto(w, next)
       /\ UNCHANGED <<rowVars, network, sends, crashes>>

SameJob == UNCHANGED <<job, attempted, replaced>>

(***************************************************************************)
(* claimNextQueuedWalletSigningIntent                                      *)
(***************************************************************************)
Queued == {i \in Intents : intents[i].status = "queued"}

\* A pass, or an attempt within it: read the oldest queued row.
Find(w) ==
    /\ pc[w] = "idle"
    /\ \E i \in Queued :
          /\ \A j \in Queued : i <= j
          /\ job' = [job EXCEPT ![w] = i]
    /\ attempted' = [attempted EXCEPT ![w] = FALSE]
    /\ replaced' = [replaced EXCEPT ![w] = {}]
    /\ Goto(w, "claim")
    /\ KeepsRows

\* Mutant: the update does not repeat the condition on the status.
IsClaimableAlways(i) == TRUE

\* updateMany where id = row.id and status = 'queued'.
IsClaimable(i) == intents[i].status = "queued"

\* Mutant: the claim writes a status that no other code knows.
ClaimedUnknown(i) == Row("claimed", intents[i].txHash)

Claimed(i) == Row("approved", intents[i].txHash)

\* The compare-and-set; when it loses, the worker looks again.  The claimed row is
\* then read back, outside the worker's try: an error there ends the pass.
Claim(w) ==
    /\ pc[w] = "claim"
    /\ \/ /\ ~IsClaimable(job[w])
          /\ KeepsRows
          /\ Goto(w, "idle")
       \/ /\ IsClaimable(job[w])
          /\ SetIntent(job[w], Claimed(job[w]))
          /\ Goto(w, "provider")
       \/ /\ IsClaimable(job[w])
          /\ intents' = [intents EXCEPT ![job[w]] = Claimed(job[w])]
          /\ orphaned' = orphaned \cup {job[w]}
          /\ Goto(w, "idle")
          /\ UNCHANGED <<nonceRows, transfers, chainRows, network, sends, crashes>>
    /\ SameJob

(***************************************************************************)
(* processClaimedSigningIntent                                             *)
(***************************************************************************)

\* Mutant: the error of the provider is swallowed and the pass goes on.
ProviderFailsQuietly(w) == KeepsRows /\ Goto(w, "idle")

\* Without a provider the intent fails; its nonce is left as it is.
ProviderFails(w) == KeepsRows /\ Goto(w, "failIntent")

GetProvider(w) ==
    /\ pc[w] = "provider"
    /\ \/ KeepsRows /\ Goto(w, "sign")
       \/ ProviderFails(w)
    /\ SameJob

Sign(w) ==
    /\ pc[w] = "sign"
    /\ \/ KeepsRows /\ Goto(w, "markSigned")
       \/ Throw(w)
    /\ SameJob

\* The signed payload and the derived hash are stored before the broadcast.  The
\* update reads the stored payload back, and when that fails the call throws with
\* the row written.
MarkSigned(w) ==
    /\ pc[w] = "markSigned"
    /\ \/ /\ SetIntent(job[w], Row("signed", job[w]))
          /\ \E next \in {"broadcast", "undoNonce"} : Goto(w, next)
       \/ WriteFails(w, "broadcast")
    /\ SameJob

\* Mutant: the flag is set once the network has answered.
NotesAttemptLate(w) ==
    attempted' = [attempted EXCEPT ![w] = pc'[w] = "markNonce"]

\* broadcastAttempted is set before the call.
NotesAttempt(w) == attempted' = [attempted EXCEPT ![w] = TRUE]

\* Mutant: a rejected transaction is taken for a sent one.
RejectedGoesOn(w) == Goto(w, "markNonce")

Rejected(w) == Goto(w, "undoNonce")

\* eth_sendRawTransaction: accepted and answered, accepted with the answer lost,
\* or not accepted.
Broadcast(w) ==
    /\ pc[w] = "broadcast"
    /\ sends' = [sends EXCEPT ![job[w]] = @ + 1]
    /\ \/ network' = network \cup {job[w]} /\ Goto(w, "markNonce")
       \/ network' = network \cup {job[w]} /\ Goto(w, "undoNonce")
       \/ network' = network /\ Rejected(w)
    /\ NotesAttempt(w)
    /\ UNCHANGED <<rowVars, orphaned, crashes, job, replaced>>

\* As any write, it may throw with the row written: the answer was lost.
MarkNonceSubmitted(w) ==
    /\ pc[w] = "markNonce"
    /\ \/ /\ SetNonce(NonceOf[job[w]], Row("SUBMITTED", job[w]))
          /\ \E next \in {"markIntent", "undoNonce"} : Goto(w, next)
       \/ Throw(w)
    /\ SameJob

MarkIntentSubmitted(w) ==
    /\ pc[w] = "markIntent"
    /\ \/ /\ SetIntent(job[w], Row("submitted", job[w]))
          /\ \E next \in {"markTransfer", "undoNonce"} : Goto(w, next)
       \/ WriteFails(w, "markTransfer")
    /\ SameJob

MarkTransferSubmitted(w) ==
    /\ pc[w] = "markTransfer"
    /\ \/ /\ SetTransfer(job[w], Row("submitted", job[w]))
          /\ \/ Goto(w, "record")
             \/ StrictMode /\ Goto(w, "undoNonce")
       \/ WriteFails(w, "record")
    /\ SameJob

(***************************************************************************)
(* recordChainTransaction and what follows it; an error here is logged and *)
(* the intent counts as processed.                                         *)
(***************************************************************************)

\* Mutant: the rows with the same nonce are not looked for.
ReplacedByNone(i) == {}

\* The active rows of the same nonce, which the new row replaces.
ReplacedBy(i) ==
    {j \in Intents \ {i} : NonceOf[j] = NonceOf[i] /\ chainRows[j] = "submitted"}

\* The transaction commits, and the answer may be lost; or it does not commit.  An
\* error is logged, and nothing that follows from the record is done.
RecordChainTransaction(w) ==
    /\ pc[w] = "record"
    /\ \/ /\ chainRows[job[w]] = None
          /\ chainRows' = [j \in Intents |->
                 IF j = job[w] THEN "submitted"
                 ELSE IF j \in ReplacedBy(job[w]) THEN "replaced"
                 ELSE chainRows[j]]
          /\ \/ /\ replaced' = [replaced EXCEPT ![w] = ReplacedBy(job[w])]
                /\ Goto(w, IF ReplacedBy(job[w]) = {} THEN "idle" ELSE "markReplacing")
             \/ Goto(w, "idle") /\ UNCHANGED replaced
          /\ UNCHANGED <<intents, nonceRows, transfers, network, sends, orphaned,
                         crashes, job, attempted>>
       \/ /\ Goto(w, "idle")
          /\ KeepsRows
          /\ SameJob

\* A write of the transfer log fails here: the rest is given up in strict mode.
RecordFails(w, next) ==
    /\ Goto(w, IF StrictMode THEN "idle" ELSE next)
    /\ KeepsRows

\* The write takes effect; when its answer is lost, strict mode gives up all the same.
RecordGoesOn(w, next) == Goto(w, next) \/ (StrictMode /\ Goto(w, "idle"))

\* The transfer is marked submitted again, now with the hash it replaces.
MarkTransferReplacing(w) ==
    /\ pc[w] = "markReplacing"
    /\ \/ /\ SetTransfer(job[w], Row("submitted", job[w]))
          /\ RecordGoesOn(w, "replaceTransfers")
       \/ RecordFails(w, "replaceTransfers")
    /\ SameJob

ReplaceTransfers(w) ==
    /\ pc[w] = "replaceTransfers"
    /\ \/ /\ transfers' = [i \in Intents |->
                 IF transfers[i].txHash \in replaced[w]
                 THEN Row("replaced", transfers[i].txHash) ELSE transfers[i]]
          /\ RecordGoesOn(w, "failNonces")
          /\ UNCHANGED <<intents, nonceRows, chainRows, network, sends, orphaned,
                         crashes>>
       \/ RecordFails(w, "failNonces")
    /\ SameJob

FailReplacedNonces(w) ==
    /\ pc[w] = "failNonces"
    /\ \/ /\ nonceRows' = [n \in Nonces |->
                 IF nonceRows[n].txHash \in replaced[w]
                 THEN Row("FAILED", nonceRows[n].txHash) ELSE nonceRows[n]]
          /\ UNCHANGED <<intents, transfers, chainRows, network, sends, orphaned,
                         crashes>>
       \/ KeepsRows
    /\ Goto(w, "idle")
    /\ SameJob

(***************************************************************************)
(* The two catch blocks; what fails here is swallowed                      *)
(***************************************************************************)
UndoNonce(w) ==
    /\ pc[w] = "undoNonce"
    /\ \/ SetNonce(NonceOf[job[w]],
                   Row(IF attempted[w] THEN "FAILED" ELSE "RELEASED",
                       nonceRows[NonceOf[job[w]]].txHash))
       \/ KeepsRows
    /\ Goto(w, "failIntent")
    /\ SameJob

\* The hash written is the one of the claimed row, null, not the signed one.
FailIntent(w) ==
    /\ pc[w] = "failIntent"
    /\ \/ SetIntent(job[w], Row("failed", None))
       \/ /\ orphaned' = orphaned \cup {job[w]}
          /\ UNCHANGED <<rowVars, network, sends, crashes>>
    /\ Goto(w, "failTransfer")
    /\ SameJob

FailTransfer(w) ==
    /\ pc[w] = "failTransfer"
    /\ \/ SetTransfer(job[w], Row("failed", transfers[job[w]].txHash))
       \/ /\ orphaned' = orphaned \cup {job[w]}
          /\ UNCHANGED <<rowVars, network, sends, crashes>>
    /\ Goto(w, "idle")
    /\ SameJob

(***************************************************************************)
(* Environment                                                             *)
(***************************************************************************)

\* The process dies and is started again: nothing remembers the claimed intent.
Crash(w) ==
    /\ crashes < MaxCrashes
    /\ pc[w] # "idle"
    /\ crashes' = crashes + 1
    /\ orphaned' = IF pc[w] = "claim" THEN orphaned ELSE orphaned \cup {job[w]}
    /\ Goto(w, "idle")
    /\ UNCHANGED <<rowVars, network, sends>>
    /\ SameJob

Process(w) ==
    \/ GetProvider(w)
    \/ Sign(w)
    \/ MarkSigned(w)
    \/ Broadcast(w)
    \/ MarkNonceSubmitted(w)
    \/ MarkIntentSubmitted(w)
    \/ MarkTransferSubmitted(w)

Record(w) ==
    \/ RecordChainTransaction(w)
    \/ MarkTransferReplacing(w)
    \/ ReplaceTransfers(w)
    \/ FailReplacedNonces(w)

Recover(w) == UndoNonce(w) \/ FailIntent(w) \/ FailTransfer(w)

Step(w) == Find(w) \/ Claim(w) \/ Process(w) \/ Record(w) \/ Recover(w)

Next == \E w \in Workers : Step(w) \/ Crash(w)

\* setInterval starts a pass again and again, and a started pass runs on.
Fairness == \A w \in Workers : WF_vars(Step(w))

Spec == Init /\ [][Next]_vars

FairSpec == Spec /\ Fairness

(***************************************************************************)
(* Properties                                                              *)
(***************************************************************************)

\* A transaction is sent to the network once at most, whatever the workers, their
\* crashes and restarts.
SentAtMostOnce == \A i \in Intents : sends[i] <= 1

\* The nonce of an intent is its own: no other request carried its trace id.
Unshared(i) == \A j \in Intents : NonceOf[i] = NonceOf[j] => i = j

\* A nonce counts as released only when its transaction never reached the network;
\* a transaction that may have reached it leaves its nonce FAILED or SUBMITTED.
\* Intents that share a reservation release it under each other.
ReleasedNonceNeverSent ==
    \A i \in Intents :
        Unshared(i) /\ nonceRows[NonceOf[i]].status = "RELEASED" => i \notin network

\* What the wallet shows as submitted was accepted by the network.
SubmittedWasAccepted ==
    \A i \in Intents :
        \/ intents[i].status = "submitted"
        \/ transfers[i].status \in {"submitted", "replaced"}
        \/ chainRows[i] # None
        => i \in network

\* Of the transactions that compete for one nonce, one at most counts as active
\* (and as spending of the day).
OneActiveRowPerNonce ==
    \A i, j \in Intents :
        /\ NonceOf[i] = NonceOf[j]
        /\ chainRows[i] = "submitted"
        /\ chainRows[j] = "submitted"
        => i = j

Settled(i) ==
    /\ intents[i].status \in {"submitted", "failed"}
    /\ transfers[i].status # "pending_broadcast"

\* Every queued intent is brought to an end, and its transfer with it, unless its
\* worker died, or a write was lost that nobody repeats.
EveryIntentSettles == \A i \in Intents : <>(Settled(i) \/ i \in orphaned)

\* "Worker signs and broadcasts the transaction asynchronously, then sync updates
\* final on-chain state" (docs/payment-structure.md): a transaction the network
\* accepted gets the chain row that the sync works from.
AcceptedIsTracked ==
    \A i \in Intents : (i \in network) ~> (chainRows[i] # None)

(***************************************************************************)
(* The inductive invariant behind the safety properties.  A claimed intent *)
(* has one worker and is never queued again; it is unsent until that       *)
(* worker's broadcast; after it, broadcastAttempted tells the error path   *)
(* whether the nonce may be released.                                      *)
(***************************************************************************)
Working(w) == pc[w] \notin {"idle", "claim"}

BeforeBroadcast(w) == pc[w] \in {"provider", "sign", "markSigned", "broadcast"}

AfterBroadcast(w) ==
    pc[w] \in {"markNonce", "markIntent", "markTransfer", "record",
               "markReplacing", "replaceTransfers", "failNonces"}

OneHolder ==
    \A v, w \in Workers :
        Working(v) /\ Working(w) /\ job[v] = job[w] => v = w

HeldIsTaken ==
    \A w \in Workers : Working(w) => intents[job[w]].status # "queued"

QueuedIsUnsent ==
    \A i \in Intents : intents[i].status = "queued" =>
        sends[i] = 0 /\ i \notin network

UnsentBeforeBroadcast ==
    \A w \in Workers : BeforeBroadcast(w) =>
        sends[job[w]] = 0 /\ job[w] \notin network /\ ~attempted[w]

ClaimIsFresh == \A w \in Workers : pc[w] = "claim" => ~attempted[w]

AcceptedAfterBroadcast ==
    \A w \in Workers : AfterBroadcast(w) => job[w] \in network /\ attempted[w]

UndoKnowsTheNetwork ==
    \A w \in Workers :
        pc[w] = "undoNonce" /\ ~attempted[w] => job[w] \notin network

HashesWereAccepted ==
    \A i \in Intents :
        transfers[i].txHash # None => i \in network /\ transfers[i].txHash = i

ReleasedIsOver ==
    \A i \in Intents :
        Unshared(i) /\ nonceRows[NonceOf[i]].status = "RELEASED" =>
            /\ i \notin network
            /\ intents[i].status # "queued"
            /\ \A w \in Workers :
                  Working(w) /\ job[w] = i => pc[w] \in {"failIntent", "failTransfer"}

IInv ==
    /\ TypeOK
    /\ OneHolder
    /\ HeldIsTaken
    /\ QueuedIsUnsent
    /\ UnsentBeforeBroadcast
    /\ ClaimIsFresh
    /\ AcceptedAfterBroadcast
    /\ UndoKnowsTheNetwork
    /\ HashesWereAccepted
    /\ ReleasedIsOver
    /\ SentAtMostOnce
    /\ SubmittedWasAccepted
    /\ OneActiveRowPerNonce
=============================================================================

------------------------------ MODULE WalletSend ------------------------------
(***************************************************************************)
(* POST /api/wallet/send (src/app/api/wallet/send/route.ts) for one wallet *)
(* on one chain: sendWalletRequest from its policy check to the queued     *)
(* signing intent, with the idempotency key and the nonce it reserves on   *)
(* the way and the cleanup it does when a step fails.                      *)
(*                                                                         *)
(* Every await of the handler is a step.  Requests interleave between the  *)
(* steps, each call may throw, before its write or after it, and the       *)
(* process may die.  What a request left in the databases and what it was  *)
(* told about are therefore two things.  The early returns before the      *)
(* policy check (session, origin, rate limit, body, ownership, chain)      *)
(* touch none of this state: those requests never start here.              *)
(*                                                                         *)
(* The idempotency service and the nonce service are their own modules;    *)
(* a request is the call it makes of each.                                 *)
(***************************************************************************)
EXTENDS Integers, FiniteSets

CONSTANTS
    Requests,       \* requests of the clients; each runs once
    Keys,           \* idempotency keys
    Traces,         \* trace ids, which become the actionId of a nonce
    TxHashes,       \* transaction hashes
    None,           \* null
    Backends,       \* the stores the deployment may use: "pg", "memory"
    TTL,            \* time to live of an idempotency key (10 minutes)
    MaxTime,        \* bound on the clock
    MemoryCapacity, \* size of the in-memory idempotency map (strict mode)
    PromptHolders,  \* TRUE: a request ends before its key expires
    MaxNonce,       \* bound on the nonces of the chain and of the clients
    DailyLimit,     \* WALLET_DAILY_LIMIT_WEI, in transfers of one unit
    DistinctTraces  \* TRUE: no two clients send the same x-trace-id

VARIABLES
    \* IdempotencyKey
    store, now, keyRows, idemPc, keyOf, expiresAt, found, dropped,
    \* NonceReservation
    backend, nextNonce, reservations, chainPending, highestPending, skipped,
    callPc, args, pendingRead, outcome,
    \* the handler
    reqPc,        \* where a request is
    failure,      \* why a request does not go on: None, or a member of Failures
    transferLog,  \* status of the request's TransferLog row; None: no row
    queued,       \* requests whose WalletSigningIntent row exists
    spentToday,   \* getSpentTodayWei: the sum over the rows of the chain today
    lost          \* history: writes of a request that have no or no good answer

Idem == INSTANCE IdempotencyKey WITH Calls <- Requests

Nonce == INSTANCE NonceReservation WITH Calls <- Requests, ActionIds <- Traces

keyVars == <<store, now, keyRows, idemPc, keyOf, expiresAt, found, dropped>>

nonceVars == <<backend, nextNonce, reservations, chainPending, highestPending,
               skipped, callPc, args, pendingRead, outcome>>

handlerVars == <<reqPc, failure, transferLog, queued, spentToday, lost>>

vars == <<keyVars, nonceVars, handlerVars>>

Failures == {"denied", "replay", "error"}

\* What a request leaves in the databases.
Resources == {"key", "nonce", "log", "intent"}

LogStatuses == {"created", "pending_broadcast", "denied", "review", "failed"}

Ended == {"accepted", "refused", "crashed"}

Pcs == {"new", "key", "nonce", "build", "limit", "risk", "record", "pending",
        "intent", "releaseNonce", "failLog", "releaseKey"} \cup Ended

ASSUME SendAssumption ==
    /\ Backends \subseteq {"pg", "memory"}
    /\ Backends # {}
    /\ DailyLimit \in Nat
    /\ DistinctTraces \in BOOLEAN
    /\ None \notin Failures \cup LogStatuses

\* What the two services assume of their constants.
ASSUME ServicesAssumption ==
    /\ None \notin Requests \cup Traces \cup TxHashes \cup Nat \cup Nonce!Errors
    /\ None \notin Nonce!Reservation \cup Nonce!Args \cup Keys \cup Idem!Row \cup LogStatuses
    /\ Requests \cap Nonce!Errors = {}
    /\ MaxNonce \in Nat /\ MaxTime \in Nat /\ MemoryCapacity \in Nat
    /\ TTL \in Nat \ {0} /\ PromptHolders \in BOOLEAN

TypeOK ==
    /\ Idem!TypeOK
    /\ Nonce!TypeOK
    /\ reqPc \in [Requests -> Pcs]
    /\ failure \in [Requests -> Failures \cup {None}]
    /\ transferLog \in [Requests -> LogStatuses \cup {None}]
    /\ queued \subseteq Requests
    /\ spentToday \in Nat
    /\ lost \in [Requests -> SUBSET Resources]

Init ==
    /\ Idem!Init
    /\ Nonce!Init
    /\ store \in Backends
    /\ backend = store
    /\ reqPc = [r \in Requests |-> "new"]
    /\ failure = [r \in Requests |-> None]
    /\ transferLog = [r \in Requests |-> None]
    /\ queued = {}
    /\ spentToday \in 0..DailyLimit
    /\ lost = [r \in Requests |-> {}]

(***************************************************************************)
(* Moves of the handler                                                    *)
(***************************************************************************)
Goto(r, pc) == reqPc' = [reqPc EXCEPT ![r] = pc]

\* An exception enters the handler's catch block.
Throw(r, why) ==
    /\ Goto(r, "releaseNonce")
    /\ failure' = [failure EXCEPT ![r] = why]
    /\ UNCHANGED <<transferLog, queued, spentToday, lost>>

Continue(r, pc) ==
    /\ Goto(r, pc)
    /\ UNCHANGED <<failure, transferLog, queued, spentToday, lost>>

Losing(r, resource) == [lost EXCEPT ![r] = @ \cup {resource}]

\* An exception, although the call has made its write.
ThrowLosing(r, resource) ==
    /\ Goto(r, "releaseNonce")
    /\ failure' = [failure EXCEPT ![r] = "error"]
    /\ lost' = Losing(r, resource)
    /\ UNCHANGED <<transferLog, spentToday>>

\* recordTransferAttempt, then the next step.  A row whose answer is lost is not
\* known to the handler: it throws, or, outside strict mode, the service goes on
\* with a record in memory, as it does when there is no row.
RecordAttempt(r, status, pc, why) ==
    /\ \/ /\ transferLog' = [transferLog EXCEPT ![r] = status]
          /\ Goto(r, pc)
          /\ failure' = [failure EXCEPT ![r] = why]
          /\ lost' \in {lost, Losing(r, "log")}
       \/ /\ Goto(r, pc)
          /\ failure' = [failure EXCEPT ![r] = why]
          /\ UNCHANGED <<transferLog, lost>>
       \/ /\ transferLog' = [transferLog EXCEPT ![r] = status]
          /\ Goto(r, "releaseNonce")
          /\ failure' = [failure EXCEPT ![r] = "error"]
          /\ lost' = Losing(r, "log")
    /\ UNCHANGED <<queued, spentToday>>

\* updateTransferStatus, then the next step.
UpdateLog(r, status, pc) ==
    /\ Goto(r, pc)
    /\ transferLog' = [transferLog EXCEPT ![r] = status]
    /\ UNCHANGED <<queued, spentToday, lost>>

\* transferLogId names the row of the request.
HasLog(r) ==
    /\ transferLog[r] \in {"created", "pending_broadcast"}
    /\ "log" \notin lost[r]

LeavesServices == UNCHANGED <<keyVars, nonceVars>>

(***************************************************************************)
(* The steps of sendWalletRequest                                          *)
(***************************************************************************)

\* The stored policies allow the transfer, or the attempt is logged and refused
\* before anything is reserved.
EvaluatePolicies(r) ==
    /\ reqPc[r] = "new"
    /\ \/ Continue(r, "key")
       \/ \E status \in {"denied", "review"} :
             RecordAttempt(r, status, "refused", "denied")
       \/ Throw(r, "error")
    /\ LeavesServices

\* reserveIdempotencyKey, statement by statement.  A key whose call throws is not
\* the request's (idempotencyReserved), also when its row was created.
ReserveKey(r) ==
    /\ reqPc[r] = "key"
    /\ \/ \E k \in Keys : Idem!Begin(r, k)
       \/ Idem!Create(r)
       \/ Idem!Find(r)
       \/ Idem!Delete(r)
       \/ Idem!Recreate(r)
       \/ Idem!ReserveInMemory(r)
    /\ IF idemPc'[r] = "held" THEN Continue(r, "nonce")
       ELSE IF idemPc'[r] = "replay" THEN Throw(r, "replay")
       ELSE IF idemPc'[r] = "error" THEN Throw(r, "error")
       ELSE IF idemPc'[r] = "lost" THEN ThrowLosing(r, "key") /\ UNCHANGED queued
       ELSE UNCHANGED handlerVars
    /\ UNCHANGED nonceVars

\* Mutant: the nonce is bound to the wallet instead of the trace.
ActionIdOfWallet(r, t) == CHOOSE u \in Traces : TRUE

ActionId(r, t) == t

FreshTrace(r, t) ==
    DistinctTraces => \A s \in Requests :
        s # r /\ args[s] # None => args[s].actionId # t

\* reserveWalletNonce, with traceId as its actionId.  The route learns the id of
\* the row from its answer alone.
ReserveNonce(r) ==
    /\ reqPc[r] = "nonce"
    /\ \/ \E t \in Traces, n \in (0..MaxNonce) \cup {None} :
             /\ FreshTrace(r, t)
             /\ Nonce!ReadChainPendingNonce(r, ActionId(r, t), n, chainPending)
       \/ Nonce!ReadChainPendingNonceFails(r)
       \/ Nonce!ReserveInPg(r)
       \/ Nonce!ReserveInMemory(r)
    /\ IF outcome'[r] \in Requests THEN Continue(r, "build")
       ELSE IF outcome'[r] = None THEN UNCHANGED handlerVars
       ELSE IF reservations'[r] = None THEN Throw(r, "error")
       ELSE ThrowLosing(r, "nonce") /\ UNCHANGED queued
    /\ UNCHANGED keyVars

\* buildUnsignedEvmTx, then approveTransfer in the same step: it compares the
\* amount with the spending read at the start.
OverLimit == spentToday + 1 > DailyLimit

Build(r) ==
    /\ reqPc[r] = "build"
    /\ \/ OverLimit /\ Continue(r, "limit")
       \/ ~OverLimit /\ Continue(r, "risk")
       \/ Throw(r, "error")
    /\ LeavesServices

\* Mutant: the refusal returns without giving anything back.
RefuseForgets(r, status) == RecordAttempt(r, status, "refused", "denied")

\* A refused attempt is logged; the nonce and the key are given back.
Refuse(r, status) == RecordAttempt(r, status, "releaseNonce", "denied")

LimitExceeded(r) ==
    /\ reqPc[r] = "limit"
    /\ \/ Refuse(r, "denied")
       \/ Throw(r, "error")
    /\ LeavesServices

AssessRisk(r) ==
    /\ reqPc[r] = "risk"
    /\ \/ Continue(r, "record")
       \/ \E status \in {"denied", "review"} : Refuse(r, status)
       \/ Throw(r, "error")
    /\ LeavesServices

\* The attempt is logged as created, then as pending_broadcast.  Outside strict
\* mode a write that fails is only warned about, and the handler goes on.
RecordTransfer(r) ==
    /\ reqPc[r] = "record"
    /\ \/ RecordAttempt(r, "created", "pending", None)
       \/ Throw(r, "error")
    /\ LeavesServices

MarkPending(r) ==
    /\ reqPc[r] = "pending"
    /\ \/ /\ HasLog(r)
          /\ UpdateLog(r, "pending_broadcast", "intent")
          /\ UNCHANGED failure
       \/ /\ HasLog(r)
          /\ UpdateLog(r, "pending_broadcast", "releaseNonce")
          /\ failure' = [failure EXCEPT ![r] = "error"]
       \/ Continue(r, "intent")
       \/ Throw(r, "error")
    /\ LeavesServices

\* Mutant: the unique index (walletId, idempotencyKey, actionType) is missing.
IntentExistsIgnored(k) == FALSE

\* Only PostgreSQL has the index; the in-memory intents are keyed by a fresh id.
IntentExists(k) == backend = "pg" /\ \E s \in queued : keyOf[s] = k

\* createWalletSigningIntent.  The row may be committed although the call throws
\* (the connection is lost before the answer): the handler then cleans up.
CreateIntent(r) ==
    /\ reqPc[r] = "intent"
    /\ \/ /\ ~IntentExists(keyOf[r])
          /\ queued' = queued \cup {r}
          /\ Goto(r, "accepted")
          /\ Idem!Keep(r)
          /\ UNCHANGED <<failure, transferLog, spentToday, lost>>
       \/ /\ IntentExists(keyOf[r])
          /\ Throw(r, "replay")
          /\ UNCHANGED keyVars
       \/ /\ Throw(r, "error")
          /\ UNCHANGED keyVars
       \/ /\ ~IntentExists(keyOf[r])
          /\ queued' = queued \cup {r}
          /\ ThrowLosing(r, "intent")
          /\ UNCHANGED keyVars
    /\ UNCHANGED nonceVars

(***************************************************************************)
(* Cleanup: the catch block, and the refusals that undo their reservations *)
(***************************************************************************)
HasNonce(r) == outcome[r] \in Requests

\* A call of the cleanup fails and the error is swallowed.
Swallow(r, resource, pc) ==
    /\ Goto(r, pc)
    /\ lost' = Losing(r, resource)
    /\ UNCHANGED <<failure, transferLog, queued, spentToday>>

AfterNonce(r) == IF failure[r] = "denied" THEN "releaseKey" ELSE "failLog"

ReleaseNonce(r) ==
    /\ reqPc[r] = "releaseNonce"
    /\ \/ /\ HasNonce(r)
          /\ Nonce!ReleaseNonceReservation(outcome[r])
          /\ Continue(r, AfterNonce(r))
       \/ /\ HasNonce(r)
          /\ Swallow(r, "nonce", AfterNonce(r))
          /\ UNCHANGED nonceVars
       \/ /\ ~HasNonce(r)
          /\ Continue(r, AfterNonce(r))
          /\ UNCHANGED nonceVars
    /\ UNCHANGED keyVars

FailLog(r) ==
    /\ reqPc[r] = "failLog"
    /\ \/ HasLog(r) /\ UpdateLog(r, "failed", "releaseKey") /\ UNCHANGED failure
       \/ HasLog(r) /\ Swallow(r, "log", "releaseKey")
       \/ ~HasLog(r) /\ Continue(r, "releaseKey")
    /\ LeavesServices

\* The key goes back unless the request was a replay.
GivesKeyBack(r) == idemPc[r] = "held" /\ failure[r] # "replay"

ReleaseKey(r) ==
    /\ reqPc[r] = "releaseKey"
    /\ \/ /\ GivesKeyBack(r)
          /\ Idem!Release(r)
          /\ Continue(r, "refused")
       \/ /\ GivesKeyBack(r)
          /\ Swallow(r, "key", "refused")
          /\ UNCHANGED keyVars
       \/ /\ ~GivesKeyBack(r)
          /\ Continue(r, "refused")
          /\ UNCHANGED keyVars
    /\ UNCHANGED nonceVars

(***************************************************************************)
(* Environment                                                             *)
(***************************************************************************)

\* The process of a running request dies.
Crash(r) ==
    /\ reqPc[r] \notin Ended \cup {"new"}
    /\ Goto(r, "crashed")
    /\ UNCHANGED <<failure, transferLog, queued, spentToday, lost>>
    /\ LeavesServices

Tick == Idem!Tick /\ UNCHANGED <<nonceVars, handlerVars>>

\* Other signers move the pending nonce of the chain.
ChainMoves == Nonce!ChainMoves /\ UNCHANGED <<keyVars, handlerVars>>

Handler(r) ==
    \/ EvaluatePolicies(r)
    \/ ReserveKey(r)
    \/ ReserveNonce(r)
    \/ Build(r)
    \/ LimitExceeded(r)
    \/ AssessRisk(r)
    \/ RecordTransfer(r)
    \/ MarkPending(r)
    \/ CreateIntent(r)
    \/ ReleaseNonce(r)
    \/ FailLog(r)
    \/ ReleaseKey(r)

Next ==
    \/ \E r \in Requests : Handler(r)
    \/ \E r \in Requests : Crash(r)
    \/ Tick
    \/ ChainMoves

Spec == Init /\ [][Next]_vars

(***************************************************************************)
(* Properties                                                              *)
(***************************************************************************)

\* The requests whose signing intent was created in PostgreSQL, by idempotency
\* key.  The in-memory store, for development, promises nothing of the kind.
Accepted == [k \in Keys |-> {r \in queued : backend = "pg" /\ keyOf[r] = k}]

Promise == INSTANCE AtMostOnce WITH accepted <- Accepted

\* One idempotency key yields one signing intent at most, also when a key has
\* expired, was deleted by a slow holder, or the answer to the first request was
\* lost (with PostgreSQL).
AcceptsAtMostOnce == Promise!Spec

\* A queued intent signs with a nonce that is still reserved, and no two intents
\* sign with one nonce: the cleanup of a request never releases the nonce of
\* another, and never that of an intent it knows to be queued.
IntentOwnsItsNonce ==
    /\ \A r \in queued : "intent" \notin lost[r] =>
          HasNonce(r) /\ reservations[outcome[r]].status = "RESERVED"
    /\ \A r, s \in queued :
          r # s => reservations[outcome[r]].nonce # reservations[outcome[s]].nonce

KeyRowOf(r) == \E k \in Keys : keyRows[k] # None /\ keyRows[k].id = r

\* What a refused request leaves in the databases.
LeftOpen(r) ==
    {x \in Resources :
        \/ x = "key" /\ KeyRowOf(r) /\ failure[r] # "replay"
        \/ x = "nonce" /\ \E c \in {r, outcome[r]} \cap Nonce!Rows :
                              reservations[c].status # "RELEASED"
        \/ x = "log" /\ transferLog[r] \in {"created", "pending_broadcast"}
        \/ x = "intent" /\ r \in queued}

\* A request that is refused takes back all it was told it has, whatever else
\* failed on the way: what it leaves open is at most the rows whose own write or
\* whose own cleanup had no good answer.  One lost answer never costs the request
\* a second row.  The key of a replay belongs to the earlier transfer and stays.
RefusedLeavesNothing ==
    \A r \in Requests : reqPc[r] = "refused" => LeftOpen(r) \subseteq lost[r]

\* "Daily spend/risk policy checks" (docs/payment-structure.md): the transfers
\* that are spent or queued on one day stay within the wallet's limit.
DailyLimitRespected == spentToday + Cardinality(queued) <= DailyLimit

(***************************************************************************)
(* The inductive invariant behind AcceptsAtMostOnce: a request that got    *)
(* past the idempotency service has a key, which never changes.            *)
(***************************************************************************)
PastKey == {"nonce", "build", "limit", "risk", "record", "pending", "intent"}

KeyIInv ==
    /\ backend \in Backends
    /\ queued \subseteq Requests
    /\ reqPc \in [Requests -> Pcs]
    /\ idemPc \in [Requests -> Idem!Phases]
    /\ keyOf \in [Requests -> Keys \cup {None}]
    /\ \A r \in Requests : idemPc[r] # "idle" => keyOf[r] \in Keys
    /\ \A r \in Requests : reqPc[r] \in PastKey => idemPc[r] # "idle"
    /\ \A r \in queued : idemPc[r] # "idle"

(***************************************************************************)
(* The inductive invariant behind IntentOwnsItsNonce and                   *)
(* RefusedLeavesNothing: what a request has of the key, the nonce and the  *)
(* log at each step, and what its cleanup has given back.                  *)
(***************************************************************************)
KeyStage ==
    \A r \in Requests :
        /\ reqPc[r] = "new" => idemPc[r] = "idle"
        /\ reqPc[r] = "key" => idemPc[r] \in {"idle"} \cup Idem!Working
        /\ idemPc[r] = "lost" => "key" \in lost[r]
        /\ idemPc[r] = "kept" => reqPc[r] = "accepted"
        /\ reqPc[r] = "refused" /\ idemPc[r] = "held"
              => failure[r] = "replay" \/ "key" \in lost[r]

Unreserved == {"new", "key", "nonce"}

Owning == {"build", "limit", "risk", "record", "pending", "intent", "accepted"}

NonceStage ==
    \A r \in Requests :
        /\ reqPc[r] \in Unreserved => outcome[r] = None
        /\ reqPc[r] \in Owning => HasNonce(r)
        /\ r \in Nonce!Rows /\ ~HasNonce(r) => "nonce" \in lost[r]
        /\ reqPc[r] \in {"failLog", "releaseKey", "refused"} /\ HasNonce(r)
              => reservations[outcome[r]].status = "RELEASED" \/ "nonce" \in lost[r]

LogStage ==
    \A r \in Requests :
        /\ reqPc[r] \in Unreserved \cup {"build", "limit", "risk", "record"}
              => transferLog[r] = None
        /\ reqPc[r] = "releaseNonce" /\ failure[r] = "denied" => ~HasLog(r)
        /\ reqPc[r] \in {"releaseKey", "refused"} => ~HasLog(r)

QueuedStage ==
    \A r \in queued :
        HasNonce(r) /\ ("intent" \notin lost[r] => reqPc[r] = "accepted")

\* Rows have nonces of their own, and without shared traces requests have rows of
\* their own, which stay reserved until they release them.
OneRowPerNonce ==
    \A c, d \in Nonce!Rows : reservations[c].nonce = reservations[d].nonce => c = d

TracesDiffer ==
    DistinctTraces => \A r, s \in Requests :
        r # s /\ args[r] # None /\ args[s] # None => args[r].actionId # args[s].actionId

OwnedIsReserved ==
    DistinctTraces => \A r \in Requests :
        reqPc[r] \in Owning => reservations[outcome[r]].status = "RESERVED"

SendIInv ==
    /\ TypeOK /\ Nonce!IInv
    /\ KeyStage /\ NonceStage /\ LogStage /\ QueuedStage
    /\ OneRowPerNonce /\ TracesDiffer /\ OwnedIsReserved
=============================================================================

# A verification project for aljama-wallet

aljama-wallet is a custody wallet for EVM chains and the XRP Ledger: a Next.js
application with a control plane in PostgreSQL, wallet and chain records in
CockroachDB, security queues and counters in Redis, and workers that sign,
broadcast, sync and reconcile. This project keeps TLA+ modules of its core beside
the code: TLC checks them on small instances, and TLAPS proves their main
properties for every value of their constants. `PROJECT.json` lists components,
runs, mutants, the map from definitions to source lines, hazards, findings and
theorems.

## 1. The system

### The path of a transfer

1. `POST /api/wallet/send` (`app/api/wallet/send/route.ts`) checks session,
   ownership and policies, reserves the **idempotency key** and the **nonce**,
   builds the transaction, checks limit and risk, writes a **transfer log** and a
   **signing intent**, and answers 202.
2. The **signing worker** (`services/signing-intent.worker.ts`) claims a queued
   intent, signs, broadcasts, and records the hash at the nonce, the intent, the
   transfer and a new **chain transaction** row.
3. The **chain transaction sync** (`services/chain-transaction-sync.service.ts`)
   compares each row with the chain, started by a worker every 15 seconds and by
   every view of a wallet's page. It moves the row through
   `submitted → included → confirmed_soft → confirmed_final`, back to `reorged`
   when its block is gone, or to `failed` and `dropped`, and writes the transfer,
   the nonce and the intent accordingly.
4. The **reconciliation worker** (`services/cross-db-reconciliation.worker.ts`)
   compares the rows of the two databases and keeps **issues** about those that
   differ.

Around it: the routes of the **XRP Ledger** sign and submit at once, behind an
issuer's policy; **anchoring** publishes a post-quantum binding in a contract;
**security signals** go from a route through a queue to detectors and **alerts**,
and those through a second queue to their sinks; **rate limits** guard the routes;
**privacy requests** are filed, updated by the staff and purged by age;
**registration** and **wallet creation** write the accounts and the wallets.

### Components, their state and what makes them correct

| component | state | operations | what is hard | correct when |
|---|---|---|---|---|
| nonce reservation | counter per wallet and chain; reservations, unique by nonce and by action | reserve, release, submitted, failed, updates by hash | pending nonce read before the lock; replays; failed reads | a nonce is given once, and none is skipped for no reason |
| idempotency | rows with an expiry, unique by scope and key | reserve, release | delete and create of an expired row are two statements; release by name | one holder per key and lifetime |
| send route | locals of a request; key, nonce, transfer log, intent | one request | every await interleaves and may throw; cleanup may fail | one intent per key; a refusal leaves nothing |
| signing intents | status, hash, unique by wallet, key and action | create, claim, signed, submitted, failed, by hash | two workers; crash after claim | sent at most once |
| signing worker | locals of a pass | a pass over the queue | lost answers of network and database | records tell what the network accepted |
| transfer log | status and hash of an attempt | record, update, update by hash, replace | written by three components | agrees with the chain row |
| chain status functions | none | finality, reading of names | off by one; old names | final means the depth |
| chain sync | row, index, transfer, nonce, intent, token transfers | a pass | reorganisations, RPC errors, overlapping and interrupted passes | confirmed means final; final on the chain becomes final here |
| sync monitor | metrics and alerts | after every pass | starvation | stuck rows are reported |
| wallet records | wallets, chain rows | create, delete, record a transaction, sum of the day | two rows of one nonce | one active row per nonce |
| reconciliation | issues | a pass over three scopes | rows of two databases read while others write | issues become what the databases say |
| alert delivery | Redis stream with pending entries, rows of alerts | persist, enqueue, drain, acknowledge, reclaim | late acknowledgement, full stream, crash | an alert leaves the queue when its sinks were tried |
| alert deduplication | last alert of a key, its count | decide, write | read and write back | what is suppressed was announced |
| security signals | stream, delayed retries, gate against overload | ingest, drain, put back, drop | acknowledge then add; gate with two marks | an accepted signal is recorded, queued or dropped on purpose |
| anomaly rules | buffer of signals, last place and countries of an identity | process a signal: push, await, evaluate, alert | signals out of order, calls that overlap, a buffer that is trimmed | a burst and a new country are alerted |
| rate limiter | counters with an expiry, in Redis or in memory | consume | two commands; fallback to memory | a window ends and lets no more than its limit through |
| XRPL routes, submission and stores | rows of actions, distributions, transactions and trust lines | reserve, prepare, submit with retries, record | repeating what was applied; tables written one after the other | one key applies one transaction; what is validated was applied |
| XRPL issuer policy | holders, their review, the settings of program and asset | review, gate, mark authorized, change the settings | a review while a transaction is on its way | nobody is paid whose row does not say so |
| PQC registry and anchoring | commitments in a contract, published hashes, records, nonces | anchor | contract and database written one after the other | a commitment can be resolved |
| privacy requests | status, history | file, update, purge | two members of the staff, retention | the history leads to the status |
| accounts, wallet creation | users; wallets in one database, ownership in the other | register, create, clean up | look-up and insert; two databases | the answer is what the databases keep |
| policies, risk | policies, events | evaluate | windows of time | outcome only |
| retention, governance, swaps, servers, clients, schemas, location, telemetry, UI, scripts, cryptography | | | | see section 8 |

Components share state through the databases only. The workers and routes are
processes of their own; within one process every `await` lets others run. Nothing
but single statements and the interactive transactions (nonce reservation, chain
rows, privacy requests) is atomic.

## 2. The modules

| module | models | composition |
|---|---|---|
| `NonceReservation` | `nonce-reservation.service.ts` for one wallet and chain | |
| `IdempotencyKey` | `idempotency.service.ts` for one scope | |
| `AtMostOnce` | abstract: a key is accepted at most once | |
| `WalletSend` | the send route | instances of the two services; refines `AtMostOnce` |
| `SigningIntentWorker` | the worker, the intents and what it writes | |
| `EvmFinality` | the functions of `lib/chain-transactions.ts` | |
| `FinalityCalls` | calls of these functions, with a head that grows | extends `EvmFinality` |
| `ChainTransactionSync` | one row through the sync, with the chain | extends `EvmFinality` |
| `SyncSchedule` | which rows a pass looks at | |
| `Reconciliation` | a pass of the reconciliation, with the writers of both databases | |
| `SecurityQueue` | operators on a Redis stream or an array as the queues use it | |
| `AlertDelivery` | the alert queue, its worker and the rows of the alerts | extends `SecurityQueue` |
| `AlertDedup` | the deduplication of alerts | |
| `SignalIngest` | ingestion of signals and their drains | extends `SecurityQueue` |
| `SecurityAnomaly` | the rules that evaluate signals, in one process | |
| `RateLimit` | `rate-limit.ts` for one key | |
| `XrplIssuer` | the XRPL routes that submit, the issuer's policy, and the ledger | refines `AtMostOnce` while no key expires |
| `PqcAnchor` | the anchoring route with the contract | |
| `PrivacyRequest` | requests, updates and their retention | |
| `Accounts` | registration; wallet creation over two databases | |
| `MC...` | constants for TLC | extends the module |
| `MCServices`, `MCWorkers`, `MCSecurityQueues` | several modules side by side | extend them |
| `...Proofs`, `ServiceProofs` | theorems and lemmas | extend the modules and `TLAPS` |

`MCServices`, `MCWorkers` and `MCSecurityQueues` hold modules that do not interact.
Their variable `part` is chosen at the start and names the one module the behaviour
is about; the variables of the others never change. So one run explores each of
them by itself, never their product. `MCChainTransactionSync` chooses in the same way (`overlap`)
between two passes that overlap on a calm chain and one pass at a time on a wild one.

How state and actions correspond to the code:

* **NonceReservation.** `nextNonce` and `reservations` are the two tables (rows
  named by the call that made them), `callPc`, `args`, `pendingRead` and `outcome`
  the locals of a call. A reservation is two steps, the read of the pending nonce
  (`ReadChainPendingNonce`) and the transaction with its row lock (`ReserveInPg`)
  or the synchronous part on the maps (`ReserveInMemory`). A conflict on the index
  of the action rolls the counter back and returns the row that won. The transaction
  may commit although the call throws (`DATABASE_ERROR`), and then nobody knows the
  row until the action is asked for again. The updates
  are one statement each. `chainPending` is the node; it may answer with any
  earlier value.
* **IdempotencyKey.** One step per statement: `Create`, `Find`, `Delete`,
  `Recreate`; `ReserveInMemory` is synchronous. Every statement may throw, before or after
  it took effect; a call whose row was created and whose answer was lost ends as `lost`.
  `found` is the row that was read.
  `PromptHolders` bounds the clock so that a running request never outlives its
  key; `dropped` remembers the keys of a cleared map.
* **WalletSend.** `reqPc` is the place of a request in `sendWalletRequest`; the
  two services are instances whose calls are the requests, so that their
  statements interleave too. Every call may throw before its write (`Throw`) or after it
  (`ThrowLosing`): the key, the nonce, the transfer log and the intent may each be
  committed without an answer, and outside strict mode a log row whose answer is lost is
  replaced by a record in memory, with an id that names no row. Each undo of the catch
  block may fail (`Swallow`), and the process may die (`Crash`). The history variable
  `lost` names, for each request, the writes that had no or no good answer: the route
  cannot know of these rows, and every other row it must take back. `ChainMoves` moves the
  pending nonce under the route.
* **SigningIntentWorker.** `pc`, `job`, `attempted`, `replaced` are the locals of
  a worker; the tables are `intents`, `nonceRows`, `transfers`, `chainRows`;
  `network` is the set of transactions the network accepted and `sends` counts
  broadcasts. A write may fail before or after it took effect, the transaction that
  records the chain row included. `StrictMode` is
  the switch that turns a failed write into an exception.
* **ChainTransactionSync.** The chain is a head, the fork each height belongs to,
  the height of the transaction, whether it succeeded there, and the mempool.
  Reorganisations of at most `ReorgDepth` blocks replace the top of the chain and
  may move the transaction, put it back into the mempool or lose it. A pass reads
  (`Select`, `ReadHead`, `ReadReceipt`, `ReadCanonicalBlock`, `Lookup`) and then
  writes one table per step in the code's order. While the RPC endpoint does not
  answer (`outage`), reads return what the code makes of an error: no head ends the
  pass, and a missing receipt, block or transaction is taken for an absent one.
  `Cut` ends a pass between two writes: `Promise.all` over the rows
  lets an exception, and a deployment a process, end it there. Outside strict mode an
  error of the transfer's or the intent's write is logged and the pass goes on
  (`PassesOver`); it counts as a cut.
* **SyncSchedule.** Many rows, a pass in one step: order by last update, limit,
  filter by wallet, and what is written comes first again. `StatusAfter` is what becomes
  of a row: with a receipt what it says; without one a row loses its block unless that is
  canonical (`WithoutBlock`: `reorged`), and is `dropped` when the node knows nothing of the
  transaction and the row is ten minutes old (`aged`). A node answers what is true or,
  `MaxLosses` times, owes the answer (`Answers`); a reorganisation or the pool may lose
  a transaction (`LoseRow`). `unknown` remembers the old rows a node knew nothing of. The
  two modules are kept apart because each is needed in detail only for its own question.
* **Reconciliation.** A pass goes through its scopes query by query:
  `ReadPrimary` (the window of recent rows), `ReadIntents`, `ReadSecondary`, and one
  `SetIssueState` for each item. The writers of both databases (signing worker,
  sync, XRPL routes) change rows in between, also between two reads of one pass;
  rows get older than the grace period (`GracePasses`) and leave the window.
* **SecurityQueue.** A queue is a record: `log` the entries of the stream (or the array)
  that are left, `next` the first one the group has not read, `read` and `held` the
  pending ones and who has them, `idle` those a reclaim may take. `MAXLEN` trims from the front.
* **AlertDelivery.** `PersistAlert`, `EnqueueAlert`, then the drains: read or
  reclaim a batch, read the row (`view`), try the sinks that are not yet delivered, write
  the row back from `view`, acknowledge. A failed acknowledgement ends the drain and
  leaves its batch pending; a failed sink is acknowledged like any other. An entry may become overdue
  while its drain works on it, so that a second drain works on it as well.
* **AlertDedup.** An emitter reads the last state, counts, and writes it back.
  In Redis each has a copy of its own; in memory all share the object of the map.
* **SignalIngest.** The gate closes at the high mark and opens at the low one. What
  passes is enqueued or refused. A drain gives entries back whose delay has not
  passed and retries what failed (each time acknowledge, then add: two commands), or drops it
  after `MaxRetries`. An entry that nobody acknowledged for 30 seconds is given to the next
  drain: after its drain is over (`SignalOverdue`), or while a slow one still works on it
  (`SlowDrain`), since `XAUTOCLAIM` and the array look at the time alone. `cut` names the
  signals of which a drain had the only copy when it died or failed between the two
  commands; what another drain or the stream still has (`HasCopy`) is no exception.
* **SecurityAnomaly.** This is what `SignalIngest` sees as one step of processing. A call pushes its
  signal (`ReceiveSignal`), awaits the forensic row, evaluates the rules in one go
  (`EvaluateRules`) and raises its alerts one after the other (`EmitAnomaly`). The buffer
  is what the numbers of arrival leave of it (`Buffered`); `geo` and `countries` are the
  maps by identity. Scores are exact: `ReachesMinScore` multiplies out the
  ratio and the rounding of `scoreFromThreshold`. Signals carry any times.
* **RateLimit.** One step per command: `INCR`, `PEXPIRE`, `PTTL`. Windows are
  numbered; the buckets in memory are per host; `degraded` is the fallback after a failure,
  and the distributed mode refuses instead.
* **XrplIssuer.** A request checks the policy, creates its rows, reserves the key,
  is prepared with the sequence of its account, is submitted up to `MaxAttempts`
  times, and records its result table by table. The routes differ in who signs, in
  the step that follows their action's row (`first`: an issuer payment has a
  distribution), and in the one that follows the transaction's row (`last`: a holder is marked,
  a distribution recorded, a program activated); `Routes` has a record for each.
  `SignerOf` names the account behind a role: the seed of the wallet stands in for
  one that is not configured, so that routes may share an account and its sequence.
  `limitBy` has the request whose limit each trust line holds, for both routes that send
  a `TrustSet`. `pool` and `ledger` are the network: a transaction is applied when its sequence is
  due, while or after the route waits. Reviews, changes of the policy, expiring
  keys and the end of a process come in anywhere.
* **PqcAnchor.** In the order of the route: publish the hash (unless it is there),
  reserve the key, ask for the provider, reserve the nonce, build and sign, send, mark the
  nonce, record the anchoring and then the chain transaction; the catch block releases the
  nonce only of what was not sent.
* **PrivacyRequest.** The transaction of an update is two steps where another one
  may come between its read and its write, and one step otherwise.
* **Accounts.** `FindUsername`, `FindEmail`, `CreateUser`; `PersistWallet`,
  `LinkWallet`, `CleanUp`, `CreationDies`. `hit` names the creations that died or
  could not clean up.

## 3. Runs

| run | checks | instance | distinct states |
|---|---|---|---|
| `nonce` | `TypeOK`, `NonceConflictUnreachable`, `ReplayReturnsSameReservation`, `NoUnexplainedGap`, `ReservationsArePermanent` | 3 calls, 2 actions, both backends | 2.0 M |
| `send` | `IntentOwnsItsNonce`, `RefusedLeavesNothing`, `AcceptsAtMostOnce` (refinement) | 2 requests, 1 key that may expire, 2 traces, explicit nonces, a moving chain, PostgreSQL | 8.2 M |
| `worker` | `TypeOK`, `SentAtMostOnce`, `ReleasedNonceNeverSent`, `SubmittedWasAccepted`, `OneActiveRowPerNonce` | 2 workers, 3 intents (two of one reservation), 1 crash, strict mode | 7.1 M |
| `sync` | `TypeOK`, `ConfirmedIsFinal`, `TablesAgreeAlone`, `FinalityRestored` (liveness) | 2 overlapping passes and 1 reorganisation; or 1 pass, reorganisations of 2 blocks, failing executions, evictions, outages, 1 cut; finality depth 3, head to 4 | 1.9 M |
| `services` | see below | one service at a time | 2.2 M |
| `workers` | `QueuedIntentsSettle`, `WatchedRowsAreSynced`, `StuckIsReported`, `IssuesBecomeTrue` (all liveness) | 2 intents, 2 workers, 1 crash; 2 rows of 2 wallets, one watched, 1 row per pass, 1 lost transaction or answer; 3 rows of the reconciliation, 2 passes | 407 k |
| `queues` | `DeliveredIsTrue`, `KeptUntilTried`, `QueuedIsTried` and `AdmittedInTheEnd` (liveness) | 2 alerts, 1 sink, 2 drains; 2 signals, 2 processes; both backends | 238 k |

The services, each with its instance:

| properties | instance |
|---|---|
| `ExclusiveReservation`, `ReplacesOnlyExpired` | 3 calls, 2 keys, a time to live of 2 of 3 ticks, both backends |
| `WindowEnds`, `LimitPerWindow` | 3 calls on 2 hosts (one of them alone at most), limit 1, the three modes |
| `SuppressedWasAnnounced` | 4 emitters, escalation after 2 and then each time |
| `AcceptedIsAccountedFor` | 2 signals, 2 processes, 1 retry, 2 mishaps |
| `SuspicionsAreAlerted` | 4 signals of which the buffer holds 3, thresholds 2, windows 2: a burst out of order, a journey, telemetry and probes |
| `AppliedOncePerKey`, `ValidatedWasApplied` | 2 requests of 3 kinds with one key, 2 attempts, 1 review or change of the policy, 1 key that expires, the wallet's account signs for the distributor too |
| `CommittedIsResolvable`, `ReleasedAnchorNonceNeverSent` | 3 calls with one key |
| `HistoryExplainsStatus` | 2 requests, 2 members of the staff, 2 purges |
| `AnswerIsKept` | 2 creations, 2 seeds, 2 registrations |
| `FinalMeansDepth`, `ReadsAlike` | the real depth 12, head to 15, every name of a status |

What they show:

* `NonceConflictUnreachable`: the branch that answers `NONCE_ALREADY_RESERVED` for
  a nonce conflict is dead code, because the counter under the lock is above every
  row. `NoUnexplainedGap`: each nonce below the counter has a row, was used on the
  chain, or was skipped by a client that asked for a higher one.
  `ReservationsArePermanent`: releasing a reservation never gives its nonce back;
  a released nonce is a hole the operator must fill.
* `ExclusiveReservation` needs prompt requests (`PromptHolders`): a request slower
  than the ten minutes releases the key of its successor. `AcceptsAtMostOnce` does
  not, and `send` sets `PromptHolders = FALSE`: the unique index on the intents is
  what makes it true, also when the rows of the idempotency service are gone. On the
  in-memory backend, which has no such index, it is not claimed. The run is on PostgreSQL,
  where every write has two ways to throw; `NoncesAreOwned` and `RefusalsCleanUp` (section 6)
  are about both backends, and `nonce` and `services` run the two services on both.
* `RefusedLeavesNothing` goes row by row: what a refused request leaves open is at
  most the rows whose own write or whose own cleanup had no good answer (`lost`). It
  fails when one lost answer costs a second row: when the cleanup stops at the first undo
  that fails, skips the key because the nonce was never learned, or a refusal returns
  without it (its mutant).
* `IntentOwnsItsNonce` needs `DistinctTraces`: the nonce is bound to the trace id,
  which clients may send. `worker` follows intents that do share one:
  `OneActiveRowPerNonce` holds for them, `ReleasedNonceNeverSent` is claimed for the
  others (`Unshared`).
* `SentAtMostOnce` rests on the compare-and-set of the claim and on nobody
  re-queueing an intent. The price is that an intent whose worker died after the
  claim stays `approved` for good; `QueuedIntentsSettle` excepts it (`orphaned`).
* `ConfirmedIsFinal` holds for overlapping passes because every write that claims
  finality follows from a receipt and a head that were both true at some time, and
  a final transaction is out of the reach of a reorganisation. The order of
  the reads (head first) matters.
* `FinalityRestored`: passes that overlap overwrite each other with older knowledge,
  and a cut pass leaves tables that disagree; both are repaired because final rows
  are still selected. It is asked of rows that are not given up as `failed` or
  `dropped`, which no later pass selects. `WatchedRowsAreSynced` says which rows are given up:
  those a pass saw fail, and those of ten minutes a node knew nothing of (`GivenUp`);
  reorganised rows, and rows a node once owed an answer of, become final when the chain
  lets them. `TablesAgreeAlone`: without overlap and cuts
  the row, the transfer, the nonce, the intent and the indexed block and token transfers
  tell one story whenever no pass is at work.
* `IssuesBecomeTrue`: overlapping reconciliations write issues about differences that
  are gone, and the next pass corrects them, for rows that stay in the window.
* `KeptUntilTried`: an alert leaves the stream only when its sinks were tried (or
  `MAXLEN` trimmed it), and `QueuedIsTried` that they are tried in the end; neither
  says that a sink answered, because a delivery that failed is acknowledged too and
  nothing repeats it. `DeliveredIsTrue`: no drain, however late, writes a
  delivery that did not happen.
* `SuppressedWasAnnounced` is claimed for Redis. `LimitPerWindow` is about one
  window of Redis, and in memory about each host. `AcceptedIsAccountedFor` excepts
  the signal of which nothing was left but what a drain had between the two commands of a
  retry; drains that overlap on an entry keep it for each other, and the first
  acknowledgement must not cost the signal.
* `SuspicionsAreAlerted`: the last call of a burst to be evaluated has all of the
  others in the buffer and in its window, because the push comes before the wait and
  the window has no end; whichever call that is, it raises the alert, whatever order the signals came in.
  A window that ended at the call's own time would overlook a burst (its mutant).
* `AppliedOncePerKey` holds because a transaction is prepared once, with one
  sequence, and submitted again unchanged, and because a key is not released when
  the request fails. `CommittedIsResolvable`: the hash is published before the
  contract commits to it. `AnswerIsKept`: a wallet the route answered for has its owner.

Runs that show a disagreement between a text of the repository and the code
(expected violations; `findings` quotes the lines):

| run | property | what happens |
|---|---|---|
| `send_limit` | `DailyLimitRespected` | two accepted transfers exceed the daily limit: queued intents are not counted |
| `worker_tracked` | `AcceptedIsTracked` | an accepted broadcast with a lost answer is recorded as failed, without its hash |
| `schedule_starved` | `EveryRowIsSynced` | 50 final rows keep the worker from a submitted one |
| `usernames` | `UsernamesAreUnique` | two registrations at once take the same username: `User.name` has no unique index |
| `xrpl_review` | `RowAnswersReview` | a holder is revoked while its authorization is on its way, and ends up `authorized` |

Each property of a passing run has a mutant: a definition changed the way a
plausible bug would, defined beside it and named in `PROJECT.json`.

## 4. Bounds

Bounds are constants, each named where it is declared, and stand in guards.

* Two or three requests, workers or passes: the races in this code are between a
  reader and a writer, or two writers, of one row; the third call of the nonce and
  idempotency services lets a race happen over the row a race left behind, and four
  emitters reach an escalation that two of them read at once.
* `MaxNonce`, `MaxTime` and `TTL`: enough for a stale pending nonce, an explicit
  nonce beyond the next, and for a key to expire while its holder runs and again
  for its successor.
* `MaxHead`, `MaxForks`, `ReorgDepth`, `FinalConfirmations`: the depth is 3
  instead of 12, so that `included`, `confirmed_soft` and `confirmed_final` are
  all reached and the deepest reorganisation that the depth allows for takes the
  transaction back; `services` runs `FinalityCalls` with the real depth of 12. `ReorgDepth` is
  below the finality depth by assumption: this is what the code takes finality for.
* `MaxCrashes`, `MaxCuts`, `MaxMishaps`, `MaxAlertFaults`, `MaxOverdue`,
  `MaxPassThrows`: one or two of each, at every step. A slow drain is a mishap. Outages begin and end any
  number of times.
* `MaxAttempts`, `MaxReviews`, `MaxExpiries`: one retry after an attempt whose
  answer was lost, one review or change of the policy at any moment,
  one key that is used again. The three kinds of `services` are those with steps of their
  own (`first`, `last`, the limit of a trust line); the other eight have nothing else.
* `MaxLosses`: one transaction that a block or the pool loses, or one answer a node owes,
  at every step of the schedule; the run that shows a row starved has none, so that nothing
  but the order of the rows is to blame.
* `send` has one key, nonces up to 1 and one tick: a second request with the key, an explicit
  nonce beyond the next one, and a key that expires under its holder.
* `MaxEntries`, `AlertDepth`, `SignalDepth`, batches: streams shorter than what is
  written to them, so that the limit and `MAXLEN` act, and batches of two, so that
  one entry of a batch fails and the other does not.
* Batches of one row out of two (`MaxTake = 1`) stand for 50 out of more.

The proofs hold for any number of requests, workers and passes. Symmetry is used
only in runs that check invariants or an action property without liveness (`nonce`,
`send`, `services`). The runs with `CHECK_DEADLOCK FALSE` are of systems that end: each
request runs once, the queue drains, and the chain stops at `MaxHead`.

## 5. Fairness

* **Signing workers**: weak fairness of a worker's steps.
  `startWalletSigningIntentWorker` starts a pass with `setInterval` and a running
  pass goes on after each `await`. There is none on crashes, on successes
  of a call, or on which intent is found.
* **Passes of the sync**: the same for the steps of a pass that the scenario
  allows, and for mining, since a chain grows. None on reorganisations, on inclusion,
  on the mempool or on the end of an outage.
* **Schedule**: the worker's passes; the passes of the pages in `Watched`, which is
  the assumption this constant names; and the passing of time. `schedule_starved` adds the growth
  of the chain, as its row must be mined to be starved. None on lost transactions, on owed
  answers, or on rows growing old.
* **Reconciliation**: the steps of a pass, which an interval starts again, and the
  passing of the grace period. None on the writers.
* **Alerts**: the drains, which the worker starts every second, and the time after
  which a pending entry may be reclaimed. None on the sinks.
* **Signals**: requests and drains go on, delays pass, and a client whose signal
  was refused sends it again. None on slow drains.

## 6. Proofs

`tlapm` checks eight modules. Each has the same layout: lemmas about the operators,
one lemma per group of actions, `NextPreserves` or `NextInv`, the theorem that the
invariant holds, and the theorems that follow from it.

* **`NonceReservationProofs`**: `TypeCorrect`, `ConflictUnreachable`,
  `GapsExplained`, `ReplaySafe`, `Permanence`. "The counter is above every row" is
  almost inductive alone; the rest of `IInv` says that a row belongs to the call
  that created it and that no action has two rows, which the replay path needs, and
  that every pending nonce a call carries is covered by `highestPending`, which the
  absence of gaps needs. Assumption: `None` is no constant's member.
* **`IdempotencyKeyProofs`**: `Exclusive`, `RemovalsAreExpired`. Exclusion alone
  is not inductive: `ProtectedByRow` says that a call that still protects its key
  is the one whose row is stored, and `FoundRowsExpired` that the row a call is
  about to delete was expired when it was found, and remains so.
* **`WalletSendProofs`**: `SendImplementsAtMostOnce`, the refinement of `AtMostOnce`
  by `accepted <- Accepted`, the requests queued in PostgreSQL by key. The only invariant it needs is
  that a request past the idempotency service has a key that stays as it is: the
  index on the intents does the rest, and no lemma mentions time.
  `SendUsesServices`, `TypeCorrect`, `NoncesAreOwned`, `RefusalsCleanUp`: the two service
  proofs are instantiated with the requests as calls and the traces as action ids, and
  every step of the route is shown to be a step of each service or none, so that the
  services' invariants hold in the route. `SendIInv` adds what a request has of key, nonce,
  log and intent at each step of the handler (`KeyStage`, `NonceStage`, `LogStage`,
  `QueuedStage`), that no two rows have one nonce, and that the row of a request which
  shares its trace with nobody stays RESERVED until that request releases it
  (`OwnedIsReserved`; without `DistinctTraces` this is false, and so is `NoncesAreOwned`).
  `RefusalsCleanUp` follows without any assumption on what failed: a row the request was not told of
  is in `lost` from the step that made it (a nonce row of a request that has none, a key
  call that ended as `lost`), and every other row is taken back at its own step of the
  cleanup or enters `lost` there.
  Assumption: `ServicesAssumption`, which says that `None` and the error names are no
  values of the other constants, nor `None` a status of the log, and gives the bounds their types.
* **`SigningIntentWorkerProofs`**: `TypeCorrect`, `NeverSentTwice`,
  `SubmittedIsReal`, `ActiveRowsAreUnique`, and `ReleaseIsSafe` for
  the intents that are `Unshared`. A claimed intent has one worker (`OneHolder`, `HeldIsTaken`),
  is unsent until that worker broadcasts, and `attempted` tells the error path the
  truth afterwards (`UndoKnowsTheNetwork`).
* **`ChainTransactionSyncProofs`**: `TypeCorrect`, `FinalIsFinal`. A pass carries
  a decision from its reads to later writes, so `ConfirmedIsFinal` has to be said
  of the decision as well (`DecisionIsFinal`), of each table by itself
  (`TablesAreFinal`), and the head a pass measured with was a height of the chain
  (`OnChain`). Assumption: reorganisations are shallower than the finality depth.
  `TablesAgreeWithoutOverlap` and `TablesAgreeOnePass` say of any number of passes, no two of
  which overlap and none of which is cut off or passes over an error of a write, that the tables
  agree between them. The
  invariant (`Stage`) says for every step of a pass which tables already hold its decision,
  and for the steps before it what the tables and the chain still have to say to each other:
  that the head a pass has read keeps a final row final (`FinalStaysDeep`), that a pass asks
  for the transaction only when it knows no block of it or has just written that the block is
  gone (`AsksForTransaction`), and that token transfers are removed unless the row
  becomes final (`ClearsTokens`). `RunsAreBehaviours` shows that the behaviours of the run
  are behaviours of the module.
* **`XrplIssuerProofs`**: `KeyAppliesOnce`, `ValidatedIsReal`. A request that is not
  prepared is unknown to the network; the ledger never is ahead of an account's
  sequence count, so that a transaction has one sequence to be applied at and is
  applied at most once; the holders of a key are unique per kind; and the
  steps that record a result are reached through the ledger only. The theorems
  are about every choice of routes and every sharing of accounts.
  `SubmitImplementsAtMostOnce` is the refinement of `AtMostOnce` by `accepted <- AppliedFor`,
  the requests the ledger has applied by key and route, for behaviours in which no key expires
  (after that it is false, as section 7 tells). Its invariant is that whoever works for a key
  is among those that hold it (`KeyInv`), so that `HolderIsAlone` makes the second one impossible.
* **`ServiceProofs`**: `CommitmentsResolve` (what is committed was published before),
  `SentNonceIsKept` (an unexpired key has one active call, and its nonce is
  unreleased when it is sent), `HistoriesExplain` (what a transaction has selected is
  resolved by it or gone), `AnswersAreKept` (what each step of a creation leaves
  in the two databases). `WindowsEnd`, `LimitHolds`: in Redis the counts of a window
  are handed out once and only counts up to the limit are let through, so that those let
  through map one to one into `1..Limit`; in memory what remains of a bucket and what was
  let through fit the limit. `NoEscalationIsSkipped`: whatever count is stored or was come
  to, every lower one was come to before (`CountsAreReached`).
  `SuspicionsRaiseAlerts`: a burst that was evaluated contains its finder
  (`BurstsAreFound`), by `LastFindsBurst`, which rests on `ObservedGrows` and
  `ScoreGrows`: more signals are never counted as fewer, nor scored lower. `StatusIsDepth`
  and `NamesAreReadAlike` are about every call of the functions of `EvmFinality`, with any
  finality depth above one.
* **`SecurityQueueProofs`** begins with what each operation of `SecurityQueue` does to a
  queue with any bodies: it leaves a queue, and on a stream a dequeue loses nothing
  (`StreamDequeue`: the entries up to the last one given are those that were read before and the
  first unread ones, which is where the order of ids is needed), an acknowledgement takes
  one entry, and an addition pushes out old ones down to the limit. `DeliveriesAreTrue` and
  `AlertsAreKept` follow for `AlertDelivery`, with an invariant that an entry a drain has in
  its batch was read and is known by its id. `AcceptedSignalsAreKept` says it for
  `SignalIngest`, where the same signal may have several entries: the newest one is
  its live entry (`IsLive`), an acknowledged one was processed, and between
  an acknowledgement and the addition that follows it the drain carries the signal. Drains
  may hold the same entry, since a slow one loses it to a reclaim: no step uses that an entry
  has one holder, and `CutOffAccounts` says that a drain which is cut off costs a signal only
  when neither a live entry nor another drain has it.

All safety properties of the passing runs are theorems. Model-checked only: the liveness properties (`FinalityRestored`,
`QueuedIntentsSettle`, `WatchedRowsAreSynced`, `StuckIsReported`, `IssuesBecomeTrue`,
`QueuedIsTried`, `AdmittedInTheEnd`), for which the prover has no fairness reasoning. The
runs that expect a violation show what the code does on one instance and have no theorem.

## 7. What no property covers

`hazards` in `PROJECT.json` lists the hazards at their lines, with a note where
a property covers them only in part. Met while modelling, and told
here because the properties make an exception for them:

* **Transfers.** A write of the send that commits and loses its answer leaves its own row
  behind a refused request: a key until it expires, a reserved nonce, which is a hole the
  chain waits at until the same trace asks again, a transfer log that stays `created`, or an
  intent that will be sent although the client was told otherwise (and whose nonce the
  cleanup has released). `RefusedLeavesNothing` says that it is no more than that row. An intent that a worker claimed before it died, or whose row could
  not be read back, is never looked at again (`signing-intent.service.ts:698` selects
  queued ones only), while `docs/wallet-multi-chain-ops.md:38` says that the worker
  later moves the transfer to `submitted`. The nonce stays RESERVED when no
  provider is available (`signing-intent.worker.ts:227`); the intent of a replaced
  transaction stays submitted.
* **Sync.** A row that became `dropped` (after ten minutes without a sighting,
  `chain-transaction-sync.service.ts:666`) or `failed` (a receipt of status 0 in a
  block that is one deep, line 463) is not selected again, also when the transaction
  is mined, or succeeds in the block that replaces that one, later, while
  `README.md:104` speaks of reconciling "until finality depth is restored"; when the
  pass was cut, its nonce and intent keep their status. One look at a node that knows nothing of an
  old row's transaction is enough. An RPC error reads as a missing
  receipt or block and rolls a confirmed row back to `reorged` (line 580), while
  `README.md:103` names only the loss of the canonical block; `sync` shows that such a
  row recovers.
* **Reconciliation.** An issue whose row has left the window stays open for ever,
  and each risk decision about a send that is older than the grace period is flagged
  `RISK_DECISION_MISSING_IDEMPOTENCY_KEY`, because `assessTransferRisk` stores no key
  (`transfer-risk.service.ts:204`).
* **Alerts and signals.** A delivery whose sinks failed is acknowledged and never
  tried again. With the strategy `reject_new` a stream that once reached its limit refuses
  everything, since acknowledged entries count and nothing removes them. Where Redis does
  not report the lag of a group (before version 7) the depth stands for it, and a refused
  signal may be refused for ever. A crash between the two commands of a retry loses
  the signal when nothing else of it is left (`docs/security-hardening.md:102` accepts this); an
  entry whose drain is slow is processed twice. Deduplication on the
  map may skip an escalation (`docs/security-hardening.md:155`).
* **Anomaly rules.** Impossible travel is compared with the signal that was evaluated
  last, not with the one before in time: a signal that comes late has a negative interval,
  raises nothing, and takes the place of the later one (`security-anomaly.service.ts:748`, 765),
  where `docs/security-hardening.md:138` lists "impossible-travel geo jumps for the same
  session/device". As the windows have no end, a late signal is judged by everything
  after it; a signal that the queue gives twice counts twice; and a burst that is spread over
  processes is counted by each for itself.
* **Rate limits.** The first failure to connect leaves a null client behind, so that
  the process stays on its memory; more than 10 000 buckets clear the limits in memory.
* **XRP Ledger.** A key is never released, so a payment that failed is refused until
  its key expires, and afterwards the same request is applied again. A `tec` result is
  `validated` in the action and the distribution and `failed` in `XrplTransaction`
  (`README.md:83`). The row of a trust line takes the limit of a `TrustSet` whatever its
  result was, and two of them may write it in another order than the ledger
  applied them. Changing the account's settings makes a paused program active.
* **Anchoring.** A record stays `submitted` for ever; once its key has expired a
  repeated call may release the nonce the first call has sent.
* **Retention.** `forensic-retention.service.ts:80` deletes signals after 90 days, and the
  cascade (`prisma/pg/schema.prisma:448`) takes their anomalies along, which
  `docs/security-hardening.md:253` keeps for 180. Line 161 deletes actions by id without
  asking for their age again.
* **Accounts.** A wallet whose creation died has no owner, and as `accountRef` is
  unique its mnemonic can never be used again.

## 8. Not modelled, and what is left of the plan

Not modelled on purpose:

* the user interface, styles and texts, which are the largest files of the repository;
  routes and servers that only read or forward a request; telemetry; schemas; scripts
  run by hand. Because of them the map covers a modest share of all lines, and most
  of the lines that keep state several actors share;
* cryptography and key derivation (their results are taken as success or failure);
* mail and HTTP to third parties;
* quotes, scores of risk, and policies: arithmetic over a window of
  rows, whose outcome is a choice in the modules that ask for it;
* the retention of forensic data (section 7 tells what was met) and governance
  records, which are updated like privacy requests with one more check in the
  transaction;
* of the XRPL routes, those that only read (quotes, prepared transactions, lists, order
  books), and the tokens and ledger events that the store copies.

Left of the plan, in this order: the composition of send, worker and sync over one
set of tables, with the intent and its transfer as one abstract state machine that all
three refine; the evaluation of risk and
policies as operators checked against a reference; retention.

## 9. Running

    tlc -config MCNonceReservation.cfg MCNonceReservation.tla
    tlapm NonceReservationProofs.tla

The longest runs, `send`, `worker`, `sync`, `services`, `workers`, `nonce` and `queues`, take
one to three minutes each with two workers.

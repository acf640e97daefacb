------------------------------ MODULE XrplIssuer ------------------------------
(***************************************************************************)
(* The routes that submit to the XRP Ledger: those of the issuer, which    *)
(* authorize a holder's trust line or pay a holder when the policy allows  *)
(* it, and those of the wallet's own account (trust lines, offers, swaps,  *)
(* tokens).  A request records an action (and a distribution), reserves    *)
(* its idempotency key, prepares one transaction and submits it until the  *)
(* ledger answers; then it records the outcome in one table after the      *)
(* other.  Reviews of the holder, other requests and the ledger go on in   *)
(* between.                                                                *)
(***************************************************************************)
EXTENDS Naturals, FiniteSets

CONSTANTS
    Requests,        \* requests that may arrive
    Holders,         \* holders of the asset
    XrplKeys,        \* idempotency keys clients use
    NoKey,           \* a request that has none yet
    Kinds,           \* kinds of requests, of those below
    SignerOf,        \* the account that signs for a role
    Policies,        \* policies of the program and the asset the run looks at
    Decisions,       \* statuses a review may give
    MaxAttempts,     \* retries ?? 2: submissions of one transaction
    MaxReviews,      \* bound: reviews of holders and changes of the policy
    MaxExpiries      \* bound: keys that expire

ASSUME XrplBounds ==
    /\ Holders # {} /\ MaxAttempts \in Nat \ {0} /\ NoKey \notin XrplKeys
    /\ Policies \subseteq [programActive : BOOLEAN, assetActive : BOOLEAN, requireAuth : BOOLEAN,
                           requireApproval : BOOLEAN, allow : BOOLEAN]
    /\ Decisions \subseteq {"pending", "approved", "rejected", "revoked"}

---------------------------------------------------------------------------
\* A route that submits: the role that signs, the step that follows the action's
\* row, and the one that follows the row of the transaction.
Plain(role) == [role |-> role, first |-> "risk", last |-> "done"]

AccountSet == [Plain("issuer") EXCEPT !.last = "activate"]
AuthorizeTrustline == [Plain("issuer") EXCEPT !.last = "markHolder"]
IssuerPayment ==
    [role |-> "distributor", first |-> "distribution", last |-> "recordDist"]
TrustlineSet == Plain("default")
SwapPayment == Plain("default")
OfferCreate == Plain("default")
OfferCancel == Plain("default")
NftMint == Plain("default")
NftOfferCreate == Plain("default")
NftOfferAccept == Plain("default")
NftOfferCancel == Plain("default")

Routes ==
    [account_set |-> AccountSet, trustline_authorize |-> AuthorizeTrustline,
     issuer_payment |-> IssuerPayment, trustset |-> TrustlineSet,
     swap_payment |-> SwapPayment, offer_create |-> OfferCreate,
     offer_cancel |-> OfferCancel, nft_mint |-> NftMint,
     nft_offer_create |-> NftOfferCreate, nft_offer_accept |-> NftOfferAccept,
     nft_offer_cancel |-> NftOfferCancel]

\* The account that signs, which the seed of another role may stand in for.
AccountOf(kind) == SignerOf[Routes[kind].role]

ASSUME XrplKinds ==
    /\ Kinds # {} /\ Kinds \subseteq DOMAIN Routes
    /\ DOMAIN SignerOf = {"default", "issuer", "distributor"}

VARIABLES
    policy,      \* the statuses of program and asset, requiresAuthorizedTrustlines,
                 \* requireHolderApproval, and whether distributions are allowed
    holder,      \* XrplIssuerHolder.status, or "none" without a row
    reviewed,    \* what the last review of each holder said
    reviews,     \* bounded count
    reservedBy,  \* the requests whose reservation of a key has not expired
    expiries,    \* bounded count
    req,         \* locals of each request
    pool,        \* requests whose transaction the network may still apply
    ledger,      \* applied transactions
    action,      \* XrplAction.status of each request
    dist,        \* XrplIssuerDistribution.status of each payment
    txRow,       \* XrplTransaction.status of each request
    limitBy      \* the requests whose limits the XrplTrustLine rows hold

xrplVars == <<policy, holder, reviewed, reviews, reservedBy, expiries, req, pool, ledger,
              action, dist, txRow, limitBy>>

rowVars == <<action, dist, txRow, limitBy>>
recordVars == <<txRow, limitBy>>
policyVars == <<policy, holder, reviewed, reviews>>
keyVars == <<reservedBy, expiries>>
chainVars == <<pool, ledger>>

NewRequest == [step |-> "new", kind |-> CHOOSE k \in Kinds : TRUE, to |-> CHOOSE h \in Holders : TRUE, key |-> NoKey,
               seq |-> 0, attempts |-> 0, result |-> "none"]

XrplInit ==
    /\ policy \in Policies
    /\ holder = [h \in Holders |-> "none"]
    /\ reviewed = [h \in Holders |-> "none"] /\ reviews = 0
    /\ reservedBy = [k \in XrplKeys |-> {}] /\ expiries = 0
    /\ req = [r \in Requests |-> NewRequest]
    /\ pool = {} /\ ledger = {}
    /\ action = [r \in Requests |-> "none"]
    /\ dist = [r \in Requests |-> "none"]
    /\ txRow = [r \in Requests |-> "none"]
    /\ limitBy = {}

RequestGoto(r, step) == req' = [req EXCEPT ![r].step = step]

---------------------------------------------------------------------------
\* assertActivePolicy.
ActivePolicy == policy.programActive /\ policy.assetActive

\* assertHolderApprovalForAuthorization.
MayAuthorize(h) ==
    /\ ActivePolicy
    /\ policy.requireAuth \/ policy.requireApproval => holder[h] \in {"approved", "authorized"}

\* assertHolderApprovalForDistribution, for amounts within the limit.
MayDistribute(h) ==
    /\ ActivePolicy /\ policy.allow
    /\ policy.requireAuth => holder[h] = "authorized"
    /\ policy.requireApproval => holder[h] \in {"approved", "authorized"}

Eligible(kind, h) ==
    /\ kind = "trustline_authorize" => MayAuthorize(h)
    /\ kind = "issuer_payment" => MayDistribute(h)

\* requireXrplIssuerHolderEligibility and createXrplAction, whose row may get lost.
Arrive(r, kind, h, k) ==
    /\ req[r].step = "new"
    /\ Eligible(kind, h)
    /\ req' = [req EXCEPT ![r] = [NewRequest EXCEPT !.kind = kind, !.to = h, !.key = k,
                                    !.step = Routes[kind].first]]
    /\ \E row \in {"queued", "none"} : action' = [action EXCEPT ![r] = row]
    /\ UNCHANGED <<policyVars, keyVars, chainVars, dist, recordVars>>

\* A row that exists takes a status, unless the write is lost.
Write(rows, r, status) ==
    {rows} \cup (IF rows[r] = "none" THEN {} ELSE {[rows EXCEPT ![r] = status]})

\* The catch of the route: action and distribution are marked as failed.
Fail(r) ==
    /\ RequestGoto(r, "done")
    /\ action' \in Write(action, r, "failed")
    /\ dist' \in Write(dist, r, "failed")

\* createXrplIssuerDistribution, which checks the holder again.
CreateDistribution(r) ==
    /\ req[r].step = "distribution"
    /\ \/ /\ MayDistribute(req[r].to)
          /\ dist' = [dist EXCEPT ![r] = "queued"] /\ RequestGoto(r, "risk")
          /\ UNCHANGED action
       \/ Fail(r)
    /\ UNCHANGED <<policyVars, keyVars, chainVars, recordVars>>

\* assessXrplActionRisk and what a decision other than allow leaves.
AssessRisk(r) ==
    /\ req[r].step = "risk"
    /\ \/ RequestGoto(r, "reserve") /\ UNCHANGED <<action, dist>>
       \/ \E decision \in {"denied", "review"} :
            /\ action' \in Write(action, r, decision)
            /\ dist' \in Write(dist, r, "failed")
            /\ RequestGoto(r, "done")
       \/ Fail(r)
    /\ UNCHANGED <<policyVars, keyVars, chainVars, recordVars>>

---------------------------------------------------------------------------
\* The scope of a key is the route and its account.
Holding(k, kind) == {r \in reservedBy[k] : req[r].kind = kind}

\* reserveIdempotencyKey of submitXrplTx: one call of a scope gets the key until
\* it expires, also when the call throws after its write; nothing releases it.
ReserveKey(r) ==
    /\ req[r].step = "reserve"
    /\ \/ /\ Holding(req[r].key, req[r].kind) = {}
          /\ reservedBy' = [reservedBy EXCEPT ![req[r].key] = @ \cup {r}]
          /\ \/ RequestGoto(r, "prepare") /\ UNCHANGED <<action, dist>>
             \/ Fail(r)
       \/ Fail(r) /\ UNCHANGED reservedBy
    /\ UNCHANGED <<policyVars, expiries, chainVars, recordVars>>

\* The sequence the ledger expects next of an account.
NextSequence(account) ==
    Cardinality({t \in ledger : AccountOf(req[t.by].kind) = account}) + 1

\* autofill and signing, once: the transaction has one sequence from now on.
Prepare(r) ==
    /\ req[r].step = "prepare"
    /\ \/ req' = [req EXCEPT ![r].step = "submit", ![r].seq = NextSequence(AccountOf(req[r].kind))]
          /\ UNCHANGED <<action, dist>>
       \/ Fail(r)
    /\ UNCHANGED <<policyVars, keyVars, chainVars, recordVars>>

\* Mutants: every attempt is prepared anew; an attempt counts as its outcome.
AttemptAnew(r) ==
    [req EXCEPT ![r].step = "wait", ![r].attempts = @ + 1, ![r].seq = NextSequence(AccountOf(req[r].kind))]
AttemptTrusted(r) == [req EXCEPT ![r].step = "recordAction"]

\* What an attempt leaves: it hands the same transaction to the network.
Attempt(r) == [req EXCEPT ![r].step = "wait", ![r].attempts = @ + 1]

\* submitAndWait, an attempt: the network has the transaction, or never sees it.
Submit(r) ==
    /\ req[r].step = "submit"
    /\ req' = Attempt(r)
    /\ pool' \in {pool, pool \cup {r}}
    /\ UNCHANGED <<policyVars, keyVars, ledger, rowVars>>

\* The ledger applies a transaction whose turn it is: it does what it says, or
\* only takes the fee (a result of the tec class).
Applied(r) == {t \in ledger : t.by = r /\ t.seq = req[r].seq}

LedgerApplies(r) ==
    /\ r \in pool /\ req[r].seq = NextSequence(AccountOf(req[r].kind))
    /\ \E result \in {"tes", "tec"} :
        ledger' = ledger \cup {[by |-> r, seq |-> req[r].seq, result |-> result]}
    /\ pool' = pool \ {r}
    /\ UNCHANGED <<policyVars, keyVars, req, rowVars>>

\* LastLedgerSequence has passed.
PoolExpires(r) ==
    /\ r \in pool
    /\ pool' = pool \ {r}
    /\ UNCHANGED <<policyVars, keyVars, ledger, req, rowVars>>

\* The answer names the transaction that was applied.
HasAnswer(r) == Applied(r) # {}

\* An error, of a transaction that was applied too: the same one is submitted
\* again when the error looks temporary, and is given up otherwise.
AwaitAnswer(r) ==
    /\ req[r].step = "wait"
    /\ \/ /\ HasAnswer(r)
          /\ \E t \in Applied(r) :
                req' = [req EXCEPT ![r].step = "recordAction", ![r].result = t.result]
          /\ UNCHANGED <<action, dist>>
       \/ req[r].attempts < MaxAttempts /\ RequestGoto(r, "submit") /\ UNCHANGED <<action, dist>>
       \/ Fail(r)
    /\ UNCHANGED <<policyVars, keyVars, chainVars, recordVars>>

---------------------------------------------------------------------------
\* updateXrplAction: validated, whatever the engine result is.
RecordAction(r) ==
    /\ req[r].step = "recordAction"
    /\ action' \in Write(action, r, "validated")
    /\ RequestGoto(r, "recordTx")
    /\ UNCHANGED <<policyVars, keyVars, chainVars, dist, recordVars>>

\* A trust line is a row for its account and the peer.
SetsTrustLine(kind) == kind \in {"trustset", "trustline_authorize"}

SameTrustLine(r, s) ==
    req[r].to = req[s].to /\ AccountOf(req[r].kind) = AccountOf(req[s].kind)

\* recordXrplTransactionSubmission, whose errors are caught: the transaction and
\* then, of a TrustSet, whatever its result was, the limit of the trust line.
RecordTransaction(r) ==
    /\ req[r].step = "recordTx"
    /\ \/ UNCHANGED recordVars
       \/ /\ txRow' = [txRow EXCEPT ![r] = IF req[r].result = "tes" THEN "validated" ELSE "failed"]
          /\ \/ UNCHANGED limitBy
             \/ /\ SetsTrustLine(req[r].kind)
                /\ limitBy' = {s \in limitBy : ~SameTrustLine(r, s)} \cup {r}
    /\ RequestGoto(r, Routes[req[r].kind].last)
    /\ UNCHANGED <<policyVars, keyVars, chainVars, action, dist>>

\* updateXrplIssuerDistribution; its error goes to the catch of the route, after
\* the row was written or before.
RecordDistribution(r) ==
    /\ req[r].step = "recordDist"
    /\ \/ dist' = [dist EXCEPT ![r] = "validated"] /\ RequestGoto(r, "done") /\ UNCHANGED action
       \/ /\ RequestGoto(r, "done") /\ action' \in Write(action, r, "failed")
          /\ dist' \in Write(dist, r, "failed") \cup {[dist EXCEPT ![r] = "validated"]}
    /\ UNCHANGED <<policyVars, keyVars, chainVars, recordVars>>

\* markXrplIssuerHolderAuthorized, whose errors are caught.
MarkHolder(r) ==
    /\ req[r].step = "markHolder"
    /\ holder' \in {holder, [holder EXCEPT ![req[r].to] = "authorized"]}
    /\ RequestGoto(r, "done")
    /\ UNCHANGED <<policy, reviewed, reviews, keyVars, chainVars, rowVars>>

\* upsertXrplIssuerProgram after the settings of the account were changed on the
\* ledger: it names the program active, whatever it was; its errors are caught.
Activate(r) ==
    /\ req[r].step = "activate"
    /\ policy' \in {policy, [policy EXCEPT !.programActive = TRUE]}
    /\ RequestGoto(r, "done")
    /\ UNCHANGED <<holder, reviewed, reviews, keyVars, chainVars, rowVars>>

---------------------------------------------------------------------------
\* upsertXrplIssuerAsset: each of its two writes, of the program and the asset.
ChangePolicy(settings) ==
    /\ reviews < MaxReviews
    /\ reviews' = reviews + 1
    /\ policy' = settings
    /\ UNCHANGED <<holder, reviewed, keyVars, chainVars, req, rowVars>>

\* reviewXrplIssuerHolder: the status the reviewer gave, whatever it was.
Review(h, status) ==
    /\ ActivePolicy /\ reviews < MaxReviews
    /\ reviews' = reviews + 1
    /\ holder' = [holder EXCEPT ![h] = status]
    /\ reviewed' = [reviewed EXCEPT ![h] = status]
    /\ UNCHANGED <<policy, keyVars, chainVars, req, rowVars>>

InFlight(r) == req[r].step \notin {"new", "done"} \/ r \in pool

\* The time to live of a key is over; it is longer than a request and the
\* validity of its transaction.
KeyExpires(k) ==
    /\ expiries < MaxExpiries
    /\ \E r \in reservedBy[k] :
        /\ ~InFlight(r)
        /\ reservedBy' = [reservedBy EXCEPT ![k] = @ \ {r}]
    /\ expiries' = expiries + 1
    /\ UNCHANGED <<policyVars, chainVars, req, rowVars>>

\* The process ends.
RequestDies(r) ==
    /\ req[r].step \notin {"new", "done"}
    /\ RequestGoto(r, "done")
    /\ UNCHANGED <<policyVars, keyVars, chainVars, rowVars>>

RequestStep(r) ==
    \/ CreateDistribution(r) \/ AssessRisk(r) \/ ReserveKey(r) \/ Prepare(r) \/ Submit(r)
    \/ AwaitAnswer(r) \/ RecordAction(r) \/ RecordTransaction(r) \/ RecordDistribution(r)
    \/ MarkHolder(r) \/ Activate(r)

XrplNext ==
    \/ \E r \in Requests :
        \/ \E kind \in Kinds, h \in Holders, k \in XrplKeys : Arrive(r, kind, h, k)
        \/ RequestStep(r) \/ RequestDies(r) \/ LedgerApplies(r) \/ PoolExpires(r)
    \/ \E h \in Holders, status \in Decisions : Review(h, status)
    \/ \E settings \in Policies : ChangePolicy(settings)
    \/ \E k \in XrplKeys : KeyExpires(k)

XrplSpec == XrplInit /\ [][XrplNext]_xrplVars

---------------------------------------------------------------------------
\* A key that is used again applies nothing again until it expires, and a request
\* whose answers got lost is applied at most once, however often it is submitted.
AppliedOncePerKey ==
    \A t, u \in ledger :
        t # u => t.by # u.by /\ (\A k \in XrplKeys : ~({t.by, u.by} \subseteq reservedBy[k])
                                    \/ req[t.by].kind # req[u.by].kind)

\* What the tables call validated, or hold as the limit of a trust line, came from
\* a transaction the ledger applied: neither a retry nor an error on the way
\* invents a result.
ValidatedWasApplied ==
    \A r \in Requests :
        "validated" \in {action[r], dist[r], txRow[r]} \/ r \in limitBy
            => \E t \in ledger : t.by = r

\* prisma/pg/schema.prisma:590: the row answers "was this wallet approved,
\* revoked, or rejected under our off-ledger policy?"
RowAnswersReview ==
    \A h \in Holders :
        reviewed[h] \in {"revoked", "rejected"} => holder[h] = reviewed[h]
=============================================================================

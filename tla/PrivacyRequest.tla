----------------------------- MODULE PrivacyRequest -----------------------------
(***************************************************************************)
(* Privacy requests: users file them, staff move them from status to       *)
(* status (src/app/api/privacy/requests/route.ts), and a worker deletes    *)
(* them, with the history of their status, some time after they were       *)
(* resolved (src/services/privacy-request-retention.service.ts).           *)
(*                                                                         *)
(* An update reads the request in its transaction and writes it on         *)
(* condition that the status is still the same; PostgreSQL evaluates the   *)
(* condition when the lock of the row is free, so that what other          *)
(* transactions committed after the read is seen there and only there.     *)
(***************************************************************************)
EXTENDS Naturals, Sequences

CONSTANTS
    PrivacyIds,  \* requests
    Staff,       \* members of the staff, each with one update at a time
    Purgers      \* retention workers

VARIABLES
    privacyStatus, \* status of each request, or NoRequest
    resolvedLong,  \* requests resolved longer ago than REQUEST_RETENTION_DAYS
    privacyEvents, \* the PrivacyRequestEvent rows of each request, in order
    update,        \* the request and the status an update has read, or no update
    selected       \* what a purge has selected

privacyVars == <<privacyStatus, resolvedLong, privacyEvents, update, selected>>

NoRequest == "none"

NoUpdate == [id |-> NoRequest, status |-> NoRequest]

\* STATUS_TRANSITIONS
TransitionsOf(status) ==
    CASE status = "received" -> {"under_review", "rejected"}
      [] status = "under_review" -> {"fulfilled", "rejected"}
      [] OTHER -> {}

Resolved == {"fulfilled", "rejected"}

PrivacyInit ==
    /\ privacyStatus = [id \in PrivacyIds |-> NoRequest]
    /\ resolvedLong = {}
    /\ privacyEvents = [id \in PrivacyIds |-> << >>]
    /\ update = [s \in Staff |-> NoUpdate]
    /\ selected = [p \in Purgers |-> {}]

AddEvent(id, from, to) ==
    privacyEvents' = [privacyEvents EXCEPT ![id] = Append(@, [from |-> from, to |-> to])]

\* createPrivacyRequest; an id is not used again.
CreatePrivacyRequest(id) ==
    /\ privacyStatus[id] = NoRequest
    /\ privacyStatus' = [privacyStatus EXCEPT ![id] = "received"]
    /\ AddEvent(id, NoRequest, "received")
    /\ UNCHANGED <<resolvedLong, update, selected>>

\* updatePrivacyRequest, the first statement of its transaction
ReadPrivacyRequest(s, id) ==
    /\ update[s] = NoUpdate
    /\ TransitionsOf(privacyStatus[id]) # {}
    /\ update' = [update EXCEPT ![s] = [id |-> id, status |-> privacyStatus[id]]]
    /\ UNCHANGED <<privacyStatus, resolvedLong, privacyEvents, selected>>

\* Mutant: the status is written on no condition.
StillExists(id, status) == privacyStatus[id] # NoRequest

\* The condition of updateMany.
StillAsRead(id, status) == privacyStatus[id] = status

\* updateMany, the event, and the commit of both.
CommitUpdate(s) ==
    LET read == update[s] IN
    /\ read # NoUpdate
    /\ StillAsRead(read.id, read.status)
    /\ \E status \in TransitionsOf(read.status) :
           /\ privacyStatus' = [privacyStatus EXCEPT ![read.id] = status]
           /\ AddEvent(read.id, read.status, status)
    /\ update' = [update EXCEPT ![s] = NoUpdate]
    /\ UNCHANGED <<resolvedLong, selected>>

\* The conflict, an error, or the end of the process: the transaction is rolled back.
AbandonUpdate(s) ==
    /\ update[s] # NoUpdate
    /\ update' = [update EXCEPT ![s] = NoUpdate]
    /\ UNCHANGED <<privacyStatus, resolvedLong, privacyEvents, selected>>

\* The cutoff passes the time at which the request was resolved.
RetentionPasses(id) ==
    /\ privacyStatus[id] \in Resolved
    /\ id \notin resolvedLong
    /\ resolvedLong' = resolvedLong \cup {id}
    /\ UNCHANGED <<privacyStatus, privacyEvents, update, selected>>

\* purgeResolvedPrivacyRequests: a batch is selected, and deleted in a transaction.
SelectResolved(p) ==
    /\ selected[p] = {}
    /\ selected' = [selected EXCEPT ![p] = resolvedLong]
    /\ UNCHANGED <<privacyStatus, resolvedLong, privacyEvents, update>>

DeleteSelected(p) ==
    /\ selected[p] # {}
    /\ privacyEvents' = [id \in PrivacyIds |-> IF id \in selected[p] THEN << >>
                                               ELSE privacyEvents[id]]
    /\ privacyStatus' = [id \in PrivacyIds |-> IF id \in selected[p] \cap resolvedLong
                                               THEN "deleted" ELSE privacyStatus[id]]
    /\ resolvedLong' = resolvedLong \ selected[p]
    /\ selected' = [selected EXCEPT ![p] = {}]
    /\ UNCHANGED update

\* The transaction is rolled back, or the process ends.
AbandonPurge(p) ==
    /\ selected[p] # {}
    /\ selected' = [selected EXCEPT ![p] = {}]
    /\ UNCHANGED <<privacyStatus, resolvedLong, privacyEvents, update>>

PrivacyNext ==
    \/ \E id \in PrivacyIds : CreatePrivacyRequest(id) \/ RetentionPasses(id)
    \/ \E s \in Staff, id \in PrivacyIds : ReadPrivacyRequest(s, id)
    \/ \E s \in Staff : CommitUpdate(s) \/ AbandonUpdate(s)
    \/ \E p \in Purgers : SelectResolved(p) \/ DeleteSelected(p) \/ AbandonPurge(p)

PrivacySpec == PrivacyInit /\ [][PrivacyNext]_privacyVars

---------------------------------------------------------------------------
\* The history of a request leads, by transitions the route allows, from its
\* filing to the status it has, whoever updates it at the same time, and it goes
\* when the request does (updatePrivacyRequest, purgeResolvedPrivacyRequests).
HistoryExplainsStatus ==
    \A id \in PrivacyIds :
        LET events == privacyEvents[id] IN
        IF privacyStatus[id] \in {NoRequest, "deleted"} THEN events = << >>
        ELSE /\ events # << >>
             /\ events[1] = [from |-> NoRequest, to |-> "received"]
             /\ events[Len(events)].to = privacyStatus[id]
             /\ \A i \in 2..Len(events) : /\ events[i].from = events[i - 1].to
                                               /\ events[i].to \in TransitionsOf(events[i].from)

=============================================================================

---------------------------- MODULE SecurityQueue ----------------------------
(***************************************************************************)
(* The queue behind security alerts and security signals: an in-memory     *)
(* array, or a Redis stream that is read by a consumer group.              *)
(* A queue is a record:                                                    *)
(*   log   entries that are stored, acknowledged ones too on Redis         *)
(*   next  id of the next entry                                            *)
(*   read  last id the group was given (Redis only)                        *)
(*   held  ids given to a consumer and not acknowledged                    *)
(*   idle  held ids whose acknowledgement is overdue                       *)
(* An entry has an id, its place in the order, a body, and whether its     *)
(* delay has passed.                                                       *)
(***************************************************************************)
EXTENDS Naturals, FiniteSets

QueueBackends == {"redis", "memory"}

EmptyQueue(b) ==
    [backend |-> b, next |-> 1, log |-> {}, read |-> 0, held |-> {}, idle |-> {}]

\* Entries no consumer was given yet.
Unread(q) ==
    {e \in q.log : IF q.backend = "redis" THEN e.id > q.read ELSE e.id \notin q.held}

\* XLEN counts what is stored; the array holds only what is unread.
Depth(q) == Cardinality(IF q.backend = "redis" THEN q.log ELSE Unread(q))

\* What is left to be read: lag of XINFO GROUPS, and the length of the array.
Lag(q) == Cardinality(Unread(q))

\* The first n entries of a set, all of them when there are fewer.
First(S, n) == {e \in S : Cardinality({f \in S : f.place < e.place}) < n}

\* Entries that will still be given to somebody.
InQueue(q) == Unread(q) \cup {e \in q.log : e.id \in q.held}

\* What a new entry may push out: on Redis MAXLEN ~ trims, from the oldest and
\* as far down to the limit as it likes, whatever the entries' state; the array
\* drops its oldest.
PushedOut(q, limit) ==
    IF q.backend = "redis"
    THEN {out \in SUBSET q.log :
            /\ \A e \in out, f \in q.log \ out : e.place < f.place
            /\ out = {} \/ Cardinality(q.log \ out) + 1 >= limit}
    ELSE {IF Depth(q) >= limit THEN First(Unread(q), 1) ELSE {}}

\* XADD and push.
AddLast(q, body, ready) ==
    [q EXCEPT !.next = @ + 1,
              !.log = @ \cup {[id |-> q.next, place |-> q.next, body |-> body, ready |-> ready]}]

\* The queues that enqueue may leave.
Add(q, body, ready, limit) ==
    {AddLast([q EXCEPT !.log = @ \ out], body, ready) : out \in PushedOut(q, limit)}

\* XAUTOCLAIM gives overdue entries to the caller and forgets trimmed ones; the
\* array puts them at its end.
Reclaim(q) ==
    LET trimmed == {i \in q.idle : \A e \in q.log : e.id # i}
        Rank(i) == Cardinality({j \in q.idle : j < i})
    IN IF q.backend = "redis"
       THEN [q EXCEPT !.held = @ \ trimmed, !.idle = @ \ trimmed]
       ELSE [q EXCEPT !.next = @ + Cardinality(q.idle),
                      !.held = @ \ q.idle,
                      !.idle = {},
                      !.log = {IF e.id \in q.idle
                               THEN [e EXCEPT !.place = q.next + Rank(e.id)] ELSE e : e \in @}]

\* Mutant: entries a dead consumer holds are not claimed.
GivenFresh(q, n) ==
    First(IF q.backend = "redis" THEN Unread(q) ELSE {e \in Unread(q) : e.ready}, n)

\* What a dequeue of n gives: overdue entries first on Redis, then unread ones;
\* the array passes over entries whose delay has not passed.
Given(q, n) ==
    LET overdue == IF q.backend = "redis"
                   THEN First({e \in q.log : e.id \in q.idle}, n) ELSE {}
        fresh == IF q.backend = "redis" THEN Unread(q) ELSE {e \in Unread(q) : e.ready}
    IN overdue \cup First(fresh, n - Cardinality(overdue))

\* Mutant: what was given is not kept for its acknowledgement.
GiveNoAck(q, entries) ==
    LET ids == {e.id : e \in entries} IN
    [q EXCEPT !.read = IF \E i \in ids : i > @
                       THEN CHOOSE i \in ids : \A j \in ids : j <= i ELSE @]

Give(q, entries) ==
    LET ids == {e.id : e \in entries} IN
    [q EXCEPT !.held = @ \cup ids,
              !.idle = @ \ ids,
              !.read = IF \E i \in ids : i > @
                       THEN CHOOSE i \in ids : \A j \in ids : j <= i ELSE @]

\* XACK leaves the entry in the stream; the array forgets what is in flight.
Ack(q, i) ==
    [q EXCEPT !.held = @ \ {i}, !.idle = @ \ {i},
              !.log = IF q.backend = "memory" /\ i \in q.held
                      THEN {e \in @ : e.id # i} ELSE @]

Overdue(q, i) == [q EXCEPT !.idle = @ \cup {i}]
=============================================================================

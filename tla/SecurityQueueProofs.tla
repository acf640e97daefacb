-------------------------- MODULE SecurityQueueProofs --------------------------
(***************************************************************************)
(* Proofs about the queues behind security alerts and security signals,    *)
(* for any number of alerts, signals, sinks, drains and processes, any     *)
(* limits and any number of errors: what SecurityQueue does to a queue,    *)
(* that AlertDelivery records only what it delivered and keeps an alert    *)
(* until its sinks were tried, and that SignalIngest accounts for every    *)
(* signal it accepted.                                                     *)
(***************************************************************************)
EXTENDS AlertDelivery, SignalIngest, Integers, FiniteSetTheorems, WellFoundedInduction, TLAPS

Entry(Bodies) == [id : Nat, place : Nat, body : Bodies, ready : BOOLEAN]

QueueOf(Bodies) ==
    [backend : QueueBackends, next : Nat, log : SUBSET Entry(Bodies), read : Nat,
     held : SUBSET Nat, idle : SUBSET Nat]

IsQueueOf(q, Bodies) ==
    /\ q \in QueueOf(Bodies) /\ IsFiniteSet(q.log) /\ IsFiniteSet(q.idle)
    /\ \A e \in q.log : e.id < q.next

\* A set of naturals has a least member, and a bounded one a greatest.
LEMMA LeastOf ==
    ASSUME NEW S \in SUBSET Nat, S # {}
    PROVE  \E x \in S : \A y \in S : x <= y
<1>1. OpToRel(<, Nat) = {p \in Nat \X Nat : p[1] < p[2]}
    BY DEF OpToRel
<1>2. PICK x \in S : \A y \in S : ~ (<<y, x>> \in OpToRel(<, Nat))
    BY NatLessThanWellFounded, WFMin, Zenon
<1>3. ASSUME NEW y \in S, y < x
      PROVE  FALSE
    <2>1. <<y, x>> \in {p \in Nat \X Nat : p[1] < p[2]}
        BY <1>3
    <2> QED BY <1>1, <1>2, <2>1, Zenon
<1> QED BY <1>3

LEMMA GreatestOf ==
    ASSUME NEW S \in SUBSET Nat, S # {}, NEW b \in Nat, \A x \in S : x <= b
    PROVE  \E x \in S : \A y \in S : y <= x
<1> DEFINE U == {u \in Nat : \A x \in S : x <= u}
<1>1. PICK u \in U : \A v \in U : u <= v
    BY LeastOf, b \in U, U \in SUBSET Nat
<1>2. CASE u \in S
    BY <1>2
<1>3. CASE u \notin S
    <2>1. PICK x \in S : TRUE
        OBVIOUS
    <2>2. \A y \in S : y < u
        BY <1>3
    <2>3. u - 1 \in U
        BY <2>1, <2>2
    <2> QED BY <1>1, <2>3
<1> QED BY <1>2, <1>3

\* The first entries of a set are downward closed in it.
LEMMA FirstIsClosed ==
    ASSUME NEW Bodies, NEW S \in SUBSET Entry(Bodies), IsFiniteSet(S), NEW n \in Int,
           NEW f \in First(S, n), NEW e \in S, e.place <= f.place
    PROVE  e \in First(S, n)
<1> DEFINE Before(g) == {h \in S : h.place < g.place}
<1>1. Before(e) \subseteq Before(f)
    <2>1. f \in S /\ f.place \in Nat /\ e.place \in Nat
        BY DEF First, Entry
    <2>2. \A h \in S : h.place \in Nat
        BY DEF Entry
    <2> QED BY <2>1, <2>2
<1>2. IsFiniteSet(Before(e)) /\ IsFiniteSet(Before(f))
    BY FS_Subset
<1>3. Cardinality(Before(e)) <= Cardinality(Before(f))
    BY <1>1, <1>2, FS_Subset
<1>4. Cardinality(Before(e)) \in Nat /\ Cardinality(Before(f)) \in Nat
    BY <1>2, FS_CardinalityType
<1> HIDE DEF Before
<1>5. Cardinality(Before(f)) < n
    BY DEF First, Before
<1>6. Cardinality(Before(e)) < n
    BY <1>3, <1>4, <1>5
<1> QED BY <1>6 DEF First, Before

\* What a dequeue gives is stored.
LEMMA GivenIsStored ==
    ASSUME NEW q, NEW n
    PROVE  Given(q, n) \subseteq q.log
BY DEF Given, First, Unread

\* enqueue adds one entry at the end.
LEMMA AddEffect ==
    ASSUME NEW Bodies, NEW q, IsQueueOf(q, Bodies), NEW body, NEW ready, NEW limit,
           NEW r \in Add(q, body, ready, limit)
    PROVE  \E out \in PushedOut(q, limit) :
               r = [backend |-> q.backend, next |-> q.next + 1,
                    log |-> (q.log \ out) \cup {[id |-> q.next, place |-> q.next,
                                                body |-> body, ready |-> ready]},
                    read |-> q.read, held |-> q.held, idle |-> q.idle]
<1>1. PICK out \in PushedOut(q, limit) : r = AddLast([q EXCEPT !.log = q.log \ out], body, ready)
    BY DEF Add
<1> DEFINE log == (q.log \ out) \cup {[id |-> q.next, place |-> q.next,
                                         body |-> body, ready |-> ready]}
           p == [q EXCEPT !.log = q.log \ out]
<1>2. /\ p.backend = q.backend /\ p.next = q.next /\ p.log = q.log \ out
      /\ p.read = q.read /\ p.held = q.held /\ p.idle = q.idle
      /\ p = [backend |-> p.backend, next |-> p.next, log |-> p.log,
              read |-> p.read, held |-> p.held, idle |-> p.idle]
    BY DEF IsQueueOf, QueueOf
<1>3. r = [backend |-> q.backend, next |-> q.next + 1, log |-> log,
           read |-> q.read, held |-> q.held, idle |-> q.idle]
    <2>1. r = [p EXCEPT !.next = p.next + 1,
                        !.log = p.log \cup {[id |-> p.next, place |-> p.next,
                                             body |-> body, ready |-> ready]}]
        BY <1>1 DEF AddLast
    <2>2. log = p.log \cup {[id |-> p.next, place |-> p.next, body |-> body, ready |-> ready]}
        BY <1>2
    <2> HIDE DEF p, log
    <2>3. r = [p EXCEPT !.next = q.next + 1, !.log = log]
        BY <1>2, <2>1, <2>2, Zenon
    <2> QED BY <1>2, <2>3
<1> HIDE DEF log
<1> QED BY <1>3 DEF log

\* Field by field.
LEMMA AddFields ==
    ASSUME NEW Bodies, NEW q, IsQueueOf(q, Bodies), NEW body, NEW ready, NEW limit,
           NEW r \in Add(q, body, ready, limit)
    PROVE  \E out \in PushedOut(q, limit) :
               /\ r.backend = q.backend /\ r.next = q.next + 1 /\ r.read = q.read
               /\ r.log = (q.log \ out) \cup {[id |-> q.next, place |-> q.next,
                                               body |-> body, ready |-> ready]}
               /\ r.held = q.held /\ r.idle = q.idle
<1> DEFINE Log(out) == (q.log \ out) \cup {[id |-> q.next, place |-> q.next,
                                            body |-> body, ready |-> ready]}
<1>1. PICK out \in PushedOut(q, limit) :
        r = [backend |-> q.backend, next |-> q.next + 1, log |-> Log(out),
             read |-> q.read, held |-> q.held, idle |-> q.idle]
    BY AddEffect
<1> HIDE DEF Log
<1>2. /\ r.backend = q.backend /\ r.next = q.next + 1 /\ r.read = q.read
      /\ r.log = Log(out) /\ r.held = q.held /\ r.idle = q.idle
    BY <1>1
<1> QED BY <1>2 DEF Log

\* Without a limit, and on a stream whatever the limit, it may push nothing out.
LEMMA AddLastAdds ==
    ASSUME NEW Bodies, NEW q, IsQueueOf(q, Bodies), NEW body, NEW ready, NEW limit \in Nat,
           q.backend = "redis" \/ limit > Depth(q)
    PROVE  AddLast(q, body, ready) \in Add(q, body, ready, limit)
<1>1. {} \in PushedOut(q, limit)
    <2>1. CASE q.backend = "redis"
        BY <2>1 DEF PushedOut
    <2>2. CASE q.backend # "redis" /\ limit > Depth(q)
        <3>1. Depth(q) \in Nat
            <4>1. Unread(q) \subseteq q.log
                BY DEF Unread
            <4> QED BY <4>1, FS_Subset, FS_CardinalityType DEF Depth, IsQueueOf
        <3>2. ~ (Depth(q) >= limit)
            BY <2>2, <3>1
        <3> QED BY <2>2, <3>2 DEF PushedOut
    <2> QED BY <2>1, <2>2
<1>2. [q EXCEPT !.log = q.log \ {}] = q
    BY DEF IsQueueOf, QueueOf
<1>3. AddLast([q EXCEPT !.log = q.log \ {}], body, ready) \in Add(q, body, ready, limit)
    BY <1>1 DEF Add
<1> QED BY <1>2, <1>3, Zenon

\* So it leaves a queue.
LEMMA AddIsQueue ==
    ASSUME NEW Bodies, NEW q, IsQueueOf(q, Bodies), NEW body \in Bodies,
           NEW ready \in BOOLEAN, NEW limit, NEW r \in Add(q, body, ready, limit)
    PROVE  IsQueueOf(r, Bodies)
<1> DEFINE new == [id |-> q.next, place |-> q.next, body |-> body, ready |-> ready]
<1>1. PICK out \in PushedOut(q, limit) :
        r = [backend |-> q.backend, next |-> q.next + 1, log |-> (q.log \ out) \cup {new},
             read |-> q.read, held |-> q.held, idle |-> q.idle]
    BY AddEffect
<1>2. IsFiniteSet((q.log \ out) \cup {new})
    BY FS_Subset, FS_AddElement DEF IsQueueOf
<1>3. new \in Entry(Bodies)
    BY DEF IsQueueOf, QueueOf, Entry
<1>4. \A e \in (q.log \ out) \cup {new} : e.id < q.next + 1
    <2>1. \A e \in q.log : e.id \in Nat /\ e.id < q.next
        BY DEF IsQueueOf, QueueOf, Entry
    <2>2. new.id = q.next /\ q.next \in Nat
        BY DEF IsQueueOf, QueueOf
    <2> QED BY <2>1, <2>2
<1> HIDE DEF new
<1> QED BY <1>1, <1>2, <1>3, <1>4 DEF IsQueueOf, QueueOf

\* So does giving overdue entries back,
LEMMA ReclaimIsQueue ==
    ASSUME NEW Bodies, NEW q, IsQueueOf(q, Bodies)
    PROVE  IsQueueOf(Reclaim(q), Bodies) /\ Reclaim(q).backend = q.backend
<1> DEFINE Rank(i) == Cardinality({j \in q.idle : j < i})
           Moved(e) == IF e.id \in q.idle THEN [e EXCEPT !.place = q.next + Rank(e.id)] ELSE e
           trimmed == {i \in q.idle : \A e \in q.log : e.id # i}
<1>1. \A i : Rank(i) \in Nat
    BY FS_Subset, FS_CardinalityType DEF IsQueueOf
<1>2. Cardinality(q.idle) \in Nat
    BY FS_CardinalityType DEF IsQueueOf
<1> HIDE DEF Rank
<1>3. \A e \in q.log : Moved(e) \in Entry(Bodies)
    BY <1>1 DEF IsQueueOf, QueueOf, Entry
<1>4. IsFiniteSet({Moved(e) : e \in q.log})
    <2> DEFINE m == [e \in q.log |-> Moved(e)]
               T == {Moved(e) : e \in q.log}
    <2>1. m \in Surjection(q.log, T)
        BY DEF Surjection
    <2> QED BY <2>1, FS_Surjection DEF IsQueueOf
<1>5. IsFiniteSet(q.idle \ trimmed) /\ IsFiniteSet({})
    BY FS_Subset, FS_EmptySet DEF IsQueueOf
<1> HIDE DEF Moved, trimmed
<1>6. CASE q.backend = "redis"
    <2>1. Reclaim(q) = [q EXCEPT !.held = @ \ trimmed, !.idle = @ \ trimmed]
        BY <1>6 DEF Reclaim, trimmed
    <2>2. Reclaim(q) = [backend |-> q.backend, next |-> q.next, log |-> q.log,
                        read |-> q.read, held |-> q.held \ trimmed, idle |-> q.idle \ trimmed]
        BY <2>1 DEF IsQueueOf, QueueOf
    <2> QED BY <1>5, <2>2 DEF IsQueueOf, QueueOf
<1>7. CASE q.backend # "redis"
    <2>1. Reclaim(q) = [q EXCEPT !.next = @ + Cardinality(q.idle),
                                 !.held = @ \ q.idle,
                                 !.idle = {},
                                 !.log = {Moved(e) : e \in q.log}]
        BY <1>7 DEF Reclaim, Moved, Rank, IsQueueOf, QueueOf
    <2>2. Reclaim(q) = [backend |-> q.backend, next |-> q.next + Cardinality(q.idle),
                        log |-> {Moved(e) : e \in q.log}, read |-> q.read,
                        held |-> q.held \ q.idle, idle |-> {}]
        BY <2>1 DEF IsQueueOf, QueueOf
    <2>3. q.next + Cardinality(q.idle) \in Nat /\ {Moved(e) : e \in q.log} \subseteq Entry(Bodies)
        BY <1>2, <1>3 DEF IsQueueOf, QueueOf
    <2>4. \A e \in {Moved(f) : f \in q.log} : e.id < q.next + Cardinality(q.idle)
        <3>1. \A f \in q.log : Moved(f).id = f.id /\ f.id \in Nat
            BY DEF Moved, IsQueueOf, QueueOf, Entry
        <3> QED BY <1>2, <3>1 DEF IsQueueOf, QueueOf
    <2> QED BY <1>4, <1>5, <2>2, <2>3, <2>4 DEF IsQueueOf, QueueOf
<1> QED BY <1>6, <1>7

\* And giving entries to a consumer: on what it is given the group has read.
LEMMA GiveIsQueue ==
    ASSUME NEW Bodies, NEW q, IsQueueOf(q, Bodies), NEW batch \in SUBSET q.log
    PROVE  /\ IsQueueOf(Give(q, batch), Bodies)
           /\ \A e \in batch : e.id <= Give(q, batch).read
           /\ \/ Give(q, batch).read = q.read
              \/ /\ Give(q, batch).read > q.read
                 /\ \E e \in batch : e.id = Give(q, batch).read
<1> DEFINE ids == {e.id : e \in batch}
           read == IF \E i \in ids : i > q.read
                   THEN CHOOSE i \in ids : \A j \in ids : j <= i ELSE q.read
<1>1. q.next \in Nat /\ ids \in SUBSET Nat /\ \A i \in ids : i <= q.next
    BY DEF IsQueueOf, QueueOf, Entry
<1>2. Give(q, batch) = [q EXCEPT !.held = q.held \cup ids, !.idle = q.idle \ ids, !.read = read]
    BY Zenon DEF Give
<1>3. q.read \in Nat
    BY DEF IsQueueOf, QueueOf
<1>4. \A e \in batch : e.id \in ids
    OBVIOUS
<1>5. \A i \in ids : \E e \in batch : e.id = i
    OBVIOUS
<1> HIDE DEF ids
<1>6. \/ read = q.read /\ \A i \in ids : i <= read
      \/ read \in ids /\ read > q.read /\ \A i \in ids : i <= read
    <2>1. CASE \E i \in ids : i > q.read
        <3>1. \E i \in ids : \A j \in ids : j <= i
            BY <1>1, <2>1, GreatestOf
        <3>2. read \in ids /\ \A j \in ids : j <= read
            BY <2>1, <3>1
        <3> HIDE DEF read
        <3>3. PICK i \in ids : i > q.read
            BY <2>1
        <3>4. i \in Nat /\ read \in Nat /\ i <= read
            BY <1>1, <3>2, <3>3
        <3>5. read > q.read
            BY <1>3, <3>3, <3>4
        <3> QED BY <3>2, <3>5
    <2>2. CASE ~ \E i \in ids : i > q.read
        BY <1>1, <1>3, <2>2
    <2> QED BY <2>1, <2>2
<1> HIDE DEF read
<1>7. read \in Nat
    BY <1>1, <1>3, <1>6
<1>8. IsFiniteSet(q.idle \ ids)
    BY FS_Subset DEF IsQueueOf
<1>9. Give(q, batch) = [backend |-> q.backend, next |-> q.next, log |-> q.log, read |-> read,
                        held |-> q.held \cup ids, idle |-> q.idle \ ids]
    BY <1>2 DEF IsQueueOf, QueueOf
<1>10. IsQueueOf(Give(q, batch), Bodies) /\ Give(q, batch).read = read
    <2>1. q.held \cup ids \in SUBSET Nat /\ q.idle \ ids \in SUBSET Nat
        BY <1>1 DEF IsQueueOf, QueueOf
    <2>2. q.backend \in QueueBackends /\ q.next \in Nat /\ q.log \in SUBSET Entry(Bodies)
        BY DEF IsQueueOf, QueueOf
    <2>3. IsFiniteSet(q.log)
        BY DEF IsQueueOf
    <2> QED BY <1>7, <1>8, <1>9, <2>1, <2>2, <2>3 DEF IsQueueOf, QueueOf
<1> QED BY <1>4, <1>5, <1>6, <1>10

\* An acknowledgement, an overdue entry and an empty queue leave queues too.
LEMMA AckIsQueue ==
    ASSUME NEW Bodies, NEW q, IsQueueOf(q, Bodies), NEW i
    PROVE  IsQueueOf(Ack(q, i), Bodies)
<1> DEFINE log == IF q.backend = "memory" /\ i \in q.held
                  THEN {e \in q.log : e.id # i} ELSE q.log
           held == q.held \ {i}
           idle == q.idle \ {i}
<1>1. Ack(q, i) = [q EXCEPT !.held = held, !.idle = idle, !.log = log]
    BY Zenon DEF Ack
<1>2. log \subseteq q.log /\ held \subseteq q.held /\ idle \subseteq q.idle
    OBVIOUS
<1> HIDE DEF log, held, idle
<1>3. IsFiniteSet(log) /\ IsFiniteSet(idle)
    BY <1>2, FS_Subset DEF IsQueueOf
<1>4. Ack(q, i) = [backend |-> q.backend, next |-> q.next, log |-> log, read |-> q.read,
                   held |-> held, idle |-> idle]
    BY <1>1 DEF IsQueueOf, QueueOf
<1> QED BY <1>2, <1>3, <1>4 DEF IsQueueOf, QueueOf

LEMMA OverdueIsQueue ==
    ASSUME NEW Bodies, NEW q, IsQueueOf(q, Bodies), NEW i \in Nat
    PROVE  IsQueueOf(Overdue(q, i), Bodies)
<1> DEFINE idle == q.idle \cup {i}
<1>1. IsFiniteSet(idle)
    BY FS_AddElement DEF IsQueueOf
<1>2. idle \in SUBSET Nat
    BY DEF IsQueueOf, QueueOf
<1>3. Overdue(q, i) = [q EXCEPT !.idle = idle]
    BY Zenon DEF Overdue
<1> HIDE DEF idle
<1>4. Overdue(q, i) = [backend |-> q.backend, next |-> q.next, log |-> q.log, read |-> q.read,
                       held |-> q.held, idle |-> idle]
    BY <1>3 DEF IsQueueOf, QueueOf
<1> QED BY <1>1, <1>2, <1>4 DEF IsQueueOf, QueueOf

LEMMA EmptyIsQueue ==
    ASSUME NEW Bodies, NEW b \in QueueBackends
    PROVE  IsQueueOf(EmptyQueue(b), Bodies)
BY FS_EmptySet DEF EmptyQueue, IsQueueOf, QueueOf

\* What holds of a stream: an entry keeps its place and is known by its id, the
\* group has been given every entry up to the last one it read, and what is held
\* or overdue was given.
StreamOrder(q) ==
    /\ \A e \in q.log : e.place = e.id
    /\ \A e, f \in q.log : e.id = f.id => e = f
    /\ q.read < q.next
    /\ \A i \in q.held : i <= q.read
    /\ q.idle \subseteq q.held

\* A dequeue of a stream gives entries to its caller and loses none.
LEMMA StreamDequeue ==
    ASSUME NEW Bodies, NEW q, IsQueueOf(q, Bodies), q.backend = "redis", StreamOrder(q),
           NEW n \in Nat
    PROVE  LET batch == Given(Reclaim(q), n)
               r == Give(Reclaim(q), batch)
           IN  /\ r.backend = "redis" /\ r.log = q.log /\ r.next = q.next
               /\ batch \subseteq q.log /\ StreamOrder(r)
               /\ r.read \in Nat /\ q.read <= r.read /\ \A e \in batch : e.id <= r.read
               /\ InQueue(q) \subseteq InQueue(r)
<1> DEFINE trimmed == {i \in q.idle : \A e \in q.log : e.id # i}
           p == Reclaim(q)
           batch == Given(p, n)
           r == Give(p, batch)
           ids == {e.id : e \in batch}
<1>1. p = [q EXCEPT !.held = @ \ trimmed, !.idle = @ \ trimmed]
    BY DEF Reclaim
<1>2. IsQueueOf(p, Bodies)
    BY ReclaimIsQueue
<1>3. batch \in SUBSET p.log
    BY GivenIsStored
<1>4. /\ p.backend = "redis" /\ p.log = q.log /\ p.next = q.next /\ p.read = q.read
      /\ p.held = q.held \ trimmed /\ p.idle = q.idle \ trimmed
    BY <1>1 DEF IsQueueOf, QueueOf
<1> HIDE DEF p, trimmed
<1>5. /\ r.backend = "redis" /\ r.log = q.log /\ r.next = q.next
      /\ r.held = p.held \cup ids /\ r.idle = p.idle \ ids
    BY <1>2, <1>4 DEF Give, IsQueueOf, QueueOf
<1>6. /\ IsQueueOf(r, Bodies) /\ \A e \in batch : e.id <= r.read
      /\ \/ r.read = q.read
         \/ r.read > q.read /\ \E e \in batch : e.id = r.read
    BY <1>2, <1>3, <1>4, GiveIsQueue
<1>7. /\ q.read \in Nat /\ q.next \in Nat /\ r.read \in Nat
      /\ \A e \in q.log : e.id \in Nat /\ e.id < q.next
    BY <1>6 DEF IsQueueOf, QueueOf, Entry
<1>8. \A i \in ids : \E e \in batch : e.id = i
    OBVIOUS
<1>9. \A e \in batch : e.id \in ids
    OBVIOUS
\* An unread entry up to the last one given is among the first unread ones.
<1>10. ASSUME NEW e \in q.log, e.id > q.read, e.id <= r.read
       PROVE  e \in batch
    <2>1. PICK f \in batch : f.id = r.read /\ f.id > q.read
        BY <1>6, <1>7, <1>10
    <2> DEFINE overdue == First({g \in p.log : g.id \in p.idle}, n)
               m == n - Cardinality(overdue)
    <2>2. batch = overdue \cup First(Unread(p), m)
        BY <1>4 DEF Given
    <2>3. f \notin overdue
        <3>1. \A g \in overdue : g.id \in q.idle
            BY <1>4 DEF First
        <3>2. \A i \in q.idle : i <= q.read /\ i \in Nat
            BY DEF StreamOrder, IsQueueOf, QueueOf
        <3> QED BY <1>7, <2>1, <3>1, <3>2
    <2>4. IsFiniteSet(overdue) /\ IsFiniteSet(Unread(p))
        <3>1. overdue \subseteq p.log /\ Unread(p) \subseteq p.log
            BY DEF First, Unread
        <3> QED BY <1>2, <3>1, FS_Subset DEF IsQueueOf
    <2>5. m \in Int
        BY <2>4, FS_CardinalityType
    <2>6. Unread(p) = {g \in q.log : g.id > q.read}
        BY <1>4 DEF Unread
    <2>7. Unread(p) \in SUBSET Entry(Bodies) /\ e \in Unread(p) /\ e.place <= f.place
        <3>1. e.place = e.id /\ f.place = f.id
            BY <1>3, <1>4 DEF StreamOrder
        <3> QED BY <1>10, <2>1, <2>6, <3>1 DEF IsQueueOf, QueueOf
    <2> HIDE DEF m, overdue, batch
    <2> QED BY <2>1, <2>2, <2>3, <2>4, <2>5, <2>7, FirstIsClosed
<1> HIDE DEF batch, r, ids
<1>11. InQueue(q) \subseteq InQueue(r)
    <2> SUFFICES ASSUME NEW e \in InQueue(q) PROVE e \in InQueue(r)
        OBVIOUS
    <2>1. e \in q.log /\ (e.id > q.read \/ e.id \in q.held)
        BY DEF InQueue, Unread
    <2>2. e.id \in q.held => e.id \in r.held
        BY <1>4, <1>5, <2>1 DEF trimmed, StreamOrder
    <2>3. e.id > q.read => e.id > r.read \/ e.id \in r.held
        BY <1>5, <1>7, <1>9, <1>10, <2>1
    <2> QED BY <1>5, <2>1, <2>2, <2>3 DEF InQueue, Unread
<1>12. StreamOrder(r)
    <2>1. r.read < r.next /\ r.read >= q.read
        BY <1>3, <1>4, <1>5, <1>6, <1>7 DEF StreamOrder
    <2>2. \A i \in r.held : i <= r.read
        <3>1. \A i \in p.held : i \in Nat /\ i <= q.read
            BY <1>4 DEF StreamOrder, IsQueueOf, QueueOf
        <3> QED BY <1>5, <1>6, <1>7, <1>8, <2>1, <3>1
    <2>3. r.idle \subseteq r.held
        BY <1>4, <1>5 DEF StreamOrder
    <2> QED BY <1>5, <2>1, <2>2, <2>3 DEF StreamOrder
<1>13. q.read <= r.read
    BY <1>6, <1>7
<1> QED BY <1>3, <1>4, <1>5, <1>6, <1>7, <1>11, <1>12, <1>13 DEF p, batch, r

\* An acknowledgement takes one entry out, and only when it was given.
LEMMA StreamAck ==
    ASSUME NEW Bodies, NEW q, IsQueueOf(q, Bodies), q.backend = "redis", StreamOrder(q),
           NEW i
    PROVE  LET r == Ack(q, i) IN
           /\ r.backend = "redis" /\ r.log = q.log /\ r.next = q.next /\ r.read = q.read
           /\ StreamOrder(r)
           /\ \A e \in InQueue(q) : e.id # i => e \in InQueue(r)
<1>1. LET r == Ack(q, i) IN
      /\ r.backend = "redis" /\ r.log = q.log /\ r.next = q.next /\ r.read = q.read
      /\ r.held = q.held \ {i} /\ r.idle = q.idle \ {i}
    BY DEF Ack, IsQueueOf, QueueOf
<1> QED BY <1>1 DEF StreamOrder, InQueue, Unread

\* Queue r is q with a new entry at its end, which nobody was given, and without
\* the entries out.
Appended(q, r, out, new) ==
    /\ new.id = q.next
    /\ r.backend = "redis" /\ r.next = q.next + 1 /\ r.read = q.read
    /\ r.log = (q.log \ out) \cup {new} /\ StreamOrder(r)
    /\ new \in InQueue(r) /\ InQueue(q) \ out \subseteq InQueue(r)
    /\ Cardinality(r.log) = Cardinality(q.log \ out) + 1

\* On a stream enqueue appends, and pushes entries out only down to the limit.
LEMMA StreamAdd ==
    ASSUME NEW Bodies, NEW q, IsQueueOf(q, Bodies), q.backend = "redis", StreamOrder(q),
           NEW limit, NEW out \in PushedOut(q, limit), NEW new,
           new.id = q.next, new.place = q.next,
           NEW r, r.backend = q.backend, r.next = q.next + 1, r.read = q.read,
           r.log = (q.log \ out) \cup {new}, r.held = q.held, r.idle = q.idle
    PROVE  /\ Appended(q, r, out, new) /\ out \subseteq q.log
           /\ out = {} \/ Cardinality(r.log) >= limit
<1>1. /\ q.next \in Nat /\ q.read \in Nat
      /\ \A e \in q.log : e.id \in Nat /\ e.id < q.next
    BY DEF IsQueueOf, QueueOf, Entry
<1>2. r.backend = "redis"
    OBVIOUS
<1>3. out \in SUBSET q.log /\ (out = {} \/ Cardinality(q.log \ out) + 1 >= limit)
    BY DEF PushedOut
<1>4. new \notin q.log
    BY <1>1
<1>5. Cardinality(r.log) = Cardinality(q.log \ out) + 1
    <2>1. IsFiniteSet(q.log \ out)
        BY FS_Subset DEF IsQueueOf
    <2> QED BY <1>4, <2>1, FS_AddElement
<1>6. StreamOrder(r)
    BY <1>1, <1>2 DEF StreamOrder
<1>7. new \in InQueue(r) /\ InQueue(q) \ out \subseteq InQueue(r)
    BY <1>1, <1>2 DEF StreamOrder, InQueue, Unread
<1> QED BY <1>1, <1>2, <1>3, <1>5, <1>6, <1>7 DEF Appended

---------------------------------------------------------------------------
AlertSteps == {"dequeue", "read", "deliver", "record", "ack"}

AlertTypes ==
    /\ IsQueueOf(queue, Alerts)
    /\ alertRow \in [Alerts -> [stored : BOOLEAN, delivered : SUBSET Sinks]]
    /\ alertStage \in [Alerts -> {"new", "stored", "skipped", "queued", "unqueued"}]
    /\ drainer \in [Drainers -> [step : AlertSteps, batch : SUBSET Entry(Alerts),
                                 view : SUBSET Sinks]]
    /\ \A d \in Drainers : drainer[d].step # "dequeue" => drainer[d].batch # {}
    /\ received \in [Alerts -> SUBSET Sinks]
    /\ tried \subseteq Alerts

\* What a drain is about to record, and what is recorded, reached the sinks.
ViewIsTrue ==
    /\ DeliveredIsTrue
    /\ \A d \in Drainers :
        drainer[d].step \in {"deliver", "record", "ack"} =>
            drainer[d].view \subseteq received[Job(d)]

DeliveryInv == AlertTypes /\ ViewIsTrue

\* The message a drain works on is the first of its batch.
LEMMA MessageInBatch ==
    ASSUME AlertTypes, NEW d \in Drainers, drainer[d].step # "dequeue"
    PROVE  Message(d) \in drainer[d].batch /\ Message(d) \in Entry(Alerts) /\ Job(d) \in Alerts
<1> DEFINE places == {e.place : e \in drainer[d].batch}
<1>1. drainer[d].batch # {} /\ drainer[d].batch \subseteq Entry(Alerts)
    BY DEF AlertTypes
<1>2. places \in SUBSET Nat /\ places # {}
    BY <1>1 DEF Entry
<1>3. PICK p \in places : \A o \in places : p <= o
    BY <1>2, LeastOf
<1>4. PICK e \in drainer[d].batch : e.place = p
    OBVIOUS
<1>5. \A f \in drainer[d].batch : e.place <= f.place
    BY <1>3, <1>4
<1>6. Message(d) \in drainer[d].batch
    BY <1>5 DEF Message
<1> QED BY <1>1, <1>6 DEF Job, Entry

\* A message is that of the batch, which only Dequeue and AckMessage change.
LEMMA SameJob ==
    ASSUME NEW d \in Drainers, drainer'[d].batch = drainer[d].batch
    PROVE  Job(d)' = Job(d)
BY DEF Job, Message

LEMMA DeliveryInit == AlertInit => DeliveryInv
<1> SUFFICES ASSUME AlertInit PROVE DeliveryInv
    OBVIOUS
<1>1. PICK b \in QueueBackends : queue = EmptyQueue(b)
    BY AlertBounds DEF AlertInit
<1>2. IsQueueOf(queue, Alerts)
    BY <1>1, EmptyIsQueue
<1> QED
    BY <1>2
    DEF AlertInit, DeliveryInv, AlertTypes, ViewIsTrue, DeliveredIsTrue, Idle, NoRow, AlertSteps

\* An alert that is emitted disturbs no drain.
LEMMA EmitKeeps ==
    ASSUME DeliveryInv, NEW a \in Alerts, PersistAlert(a) \/ EnqueueAlert(a)
    PROVE  DeliveryInv'
<1>1. IsQueueOf(queue, Alerts)'
    <2>1. queue' = queue \/ queue' \in Add(queue, a, TRUE, AlertDepth)
        BY DEF PersistAlert, EnqueueAlert
    <2>2. IsQueueOf(queue, Alerts)
        BY DEF DeliveryInv, AlertTypes
    <2> QED BY <2>1, <2>2, AddIsQueue
<1>2. UNCHANGED <<drainer, received, tried>>
    BY DEF PersistAlert, EnqueueAlert
<1>3. /\ alertRow' \in [Alerts -> [stored : BOOLEAN, delivered : SUBSET Sinks]]
      /\ \A k \in Alerts : alertRow'[k].delivered = alertRow[k].delivered
    <2>1. \/ alertRow' = alertRow
          \/ \E stored \in BOOLEAN : alertRow' = [alertRow EXCEPT ![a].stored = stored]
        BY DEF PersistAlert, EnqueueAlert
    <2> QED BY <2>1 DEF DeliveryInv, AlertTypes
<1>4. alertStage' \in [Alerts -> {"new", "stored", "skipped", "queued", "unqueued"}]
    BY DEF DeliveryInv, AlertTypes, PersistAlert, EnqueueAlert
<1>5. \A d \in Drainers : Job(d)' = Job(d)
    BY <1>2, SameJob
<1> QED
    BY <1>1, <1>2, <1>3, <1>4, <1>5
    DEF DeliveryInv, AlertTypes, ViewIsTrue, DeliveredIsTrue

\* The steps of a drain: others keep their batch, its own view is about its message.
LEMMA DequeueKeeps ==
    ASSUME DeliveryInv, NEW d \in Drainers, Dequeue(d)
    PROVE  DeliveryInv'
<1> DEFINE q == Reclaim(queue)
           batch == Given(q, AlertBatch)
<1>1. IsQueueOf(q, Alerts)
    BY ReclaimIsQueue DEF DeliveryInv, AlertTypes
<1>2. batch \in SUBSET q.log /\ batch \in SUBSET Entry(Alerts)
    BY <1>1, GivenIsStored DEF IsQueueOf, QueueOf
<1>3. IsQueueOf(queue, Alerts)'
    BY <1>1, <1>2, GiveIsQueue DEF Dequeue
<1>4. drainer' = [drainer EXCEPT ![d] = IF batch = {} THEN Idle
                                        ELSE [Idle EXCEPT !.step = "read", !.batch = batch]]
    BY DEF Dequeue
<1>5. UNCHANGED <<alertRow, alertStage, received, tried>>
    BY DEF Dequeue
<1> HIDE DEF q, batch
<1>6. AlertTypes'
    BY <1>2, <1>3, <1>4, <1>5 DEF DeliveryInv, AlertTypes, AlertSteps, Idle
<1>7. ASSUME NEW c \in Drainers, drainer'[c].step \in {"deliver", "record", "ack"}
      PROVE  drainer'[c] = drainer[c]
    BY <1>4, <1>7 DEF DeliveryInv, AlertTypes, Idle
<1>8. \A c \in Drainers : drainer'[c] = drainer[c] => Job(c)' = Job(c)
    BY SameJob
<1> QED BY <1>5, <1>6, <1>7, <1>8 DEF DeliveryInv, ViewIsTrue, DeliveredIsTrue

\* A step of a drain records only what it delivered.
LEMMA DrainKeeps ==
    ASSUME DeliveryInv, NEW d \in Drainers,
           ReadDelivered(d) \/ Deliver(d) \/ RecordDelivered(d)
    PROVE  DeliveryInv'
<1> DEFINE job == Job(d)
<1>1. job \in Alerts /\ drainer[d].step # "dequeue"
    BY MessageInBatch DEF DeliveryInv, ReadDelivered, Deliver, RecordDelivered
<1>2. UNCHANGED <<queue, alertStage>>
    BY DEF ReadDelivered, Deliver, RecordDelivered
<1>3. \A c \in Drainers : drainer'[c].batch = drainer[c].batch
    <2>1. drainer \in [Drainers -> [step : AlertSteps, batch : SUBSET Entry(Alerts),
                                    view : SUBSET Sinks]]
        BY DEF DeliveryInv, AlertTypes
    <2>2. CASE ReadDelivered(d)
        <3>1. PICK view : drainer' = [drainer EXCEPT ![d].step = "deliver", ![d].view = view]
            BY <2>2 DEF ReadDelivered
        <3> QED BY <2>1, <3>1
    <2>3. CASE Deliver(d)
        <3>1. PICK ok : drainer' = [drainer EXCEPT ![d].step = "record", ![d].view = Marks(d, ok)]
            BY <2>3 DEF Deliver
        <3> QED BY <2>1, <3>1
    <2>4. CASE RecordDelivered(d)
        BY <2>1, <2>4 DEF RecordDelivered
    <2> QED BY <2>2, <2>3, <2>4
<1>4. \A c \in Drainers : Job(c)' = Job(c)
    BY <1>3, SameJob
<1>5. CASE ReadDelivered(d)
    <2>1. PICK view \in {alertRow[job].delivered, {}} :
            drainer' = [drainer EXCEPT ![d].step = "deliver", ![d].view = view]
        BY <1>5 DEF ReadDelivered
    <2>2. view \subseteq received[job] /\ view \subseteq Sinks
        BY <1>1 DEF DeliveryInv, ViewIsTrue, DeliveredIsTrue, AlertTypes
    <2>3. UNCHANGED <<alertRow, received, tried>>
        BY <1>5 DEF ReadDelivered
    <2> HIDE DEF job
    <2>4. /\ drainer' \in [Drainers -> [step : AlertSteps, batch : SUBSET Entry(Alerts),
                                        view : SUBSET Sinks]]
          /\ drainer'[d].view = view
          /\ \A c \in Drainers \ {d} : drainer'[c] = drainer[c]
        BY <2>1, <2>2 DEF DeliveryInv, AlertTypes, AlertSteps
    <2>5. AlertTypes'
        BY <1>1, <1>2, <1>3, <2>3, <2>4 DEF DeliveryInv, AlertTypes
    <2> QED
        BY <1>4, <2>2, <2>3, <2>4, <2>5 DEF DeliveryInv, ViewIsTrue, DeliveredIsTrue, job
<1>6. CASE Deliver(d)
    <2>1. PICK got \in SUBSET (Sinks \ drainer[d].view), ok \in SUBSET Sinks :
            /\ ok \subseteq got
            /\ received' = [received EXCEPT ![job] = @ \cup got]
            /\ drainer' = [drainer EXCEPT ![d].step = "record", ![d].view = Marks(d, ok)]
        BY <1>6 DEF Deliver
    <2>2. /\ UNCHANGED alertRow /\ tried' = tried \cup {job}
          /\ drainer[d].view \subseteq received[job] /\ drainer[d].view \subseteq Sinks
        <3>1. drainer[d].step = "deliver" /\ UNCHANGED alertRow /\ tried' = tried \cup {job}
            BY <1>6 DEF Deliver
        <3>2. drainer[d].view \subseteq received[job]
            BY <3>1 DEF DeliveryInv, ViewIsTrue
        <3>3. drainer[d].view \subseteq Sinks
            BY DEF DeliveryInv, AlertTypes
        <3> QED BY <3>1, <3>2, <3>3
    <2> DEFINE marks == Marks(d, ok)
    <2>3. marks \subseteq received'[job] /\ marks \subseteq Sinks
        BY <1>1, <2>1, <2>2 DEF Marks, DeliveryInv, AlertTypes
    <2>4. /\ received' \in [Alerts -> SUBSET Sinks]
          /\ \A a \in Alerts : received[a] \subseteq received'[a]
        BY <1>1, <2>1 DEF DeliveryInv, AlertTypes
    <2> HIDE DEF job, marks
    <2>5. /\ drainer' = [drainer EXCEPT ![d].step = "record", ![d].view = marks]
          /\ tried' \subseteq Alerts
        BY <1>1, <2>1, <2>2 DEF marks, DeliveryInv, AlertTypes
    <2>6. /\ drainer' \in [Drainers -> [step : AlertSteps, batch : SUBSET Entry(Alerts),
                                        view : SUBSET Sinks]]
          /\ drainer'[d].view = marks
          /\ \A c \in Drainers \ {d} : drainer'[c] = drainer[c]
        BY <2>3, <2>5 DEF DeliveryInv, AlertTypes, AlertSteps
    <2>7. AlertTypes'
        BY <1>1, <1>2, <1>3, <2>2, <2>4, <2>5, <2>6 DEF DeliveryInv, AlertTypes
    <2>8. DeliveredIsTrue'
        BY <2>2, <2>4 DEF DeliveryInv, ViewIsTrue, DeliveredIsTrue
    <2>9. ASSUME NEW c \in Drainers, drainer'[c].step \in {"deliver", "record", "ack"}
          PROVE  drainer'[c].view \subseteq received'[Job(c)']
        <3>1. CASE c = d
            BY <1>4, <2>3, <2>6, <3>1 DEF job
        <3>2. CASE c # d
            <4>1. drainer[c].view \subseteq received[Job(c)] /\ Job(c) \in Alerts
                BY <2>6, <2>9, <3>2, MessageInBatch DEF DeliveryInv, ViewIsTrue
            <4> QED BY <1>4, <2>4, <2>6, <3>2, <4>1
        <3> QED BY <3>1, <3>2
    <2> QED BY <2>7, <2>8, <2>9 DEF DeliveryInv, ViewIsTrue
<1>7. CASE RecordDelivered(d)
    <2>1. /\ drainer' = [drainer EXCEPT ![d].step = "ack"] /\ UNCHANGED <<received, tried>>
          /\ \/ alertRow' = [alertRow EXCEPT ![job].delivered = drainer[d].view]
             \/ UNCHANGED alertRow
          /\ drainer[d].step = "record"
        BY <1>7 DEF RecordDelivered
    <2>2. drainer[d].view \subseteq received[job] /\ drainer[d].view \subseteq Sinks
        BY <2>1 DEF DeliveryInv, ViewIsTrue, AlertTypes
    <2> HIDE DEF job
    <2>3. DeliveredIsTrue'
        BY <1>1, <2>1, <2>2 DEF DeliveryInv, ViewIsTrue, DeliveredIsTrue, AlertTypes
    <2>4. AlertTypes'
        BY <1>1, <1>2, <2>1, <2>2 DEF DeliveryInv, AlertTypes, AlertSteps
    <2>5. \A c \in Drainers : /\ drainer'[c].view = drainer[c].view
                              /\ drainer'[c].step = drainer[c].step \/ c = d
        BY <2>1 DEF DeliveryInv, AlertTypes
    <2> QED
        BY <1>4, <2>1, <2>2, <2>3, <2>4, <2>5 DEF DeliveryInv, ViewIsTrue, job
<1> QED BY <1>5, <1>6, <1>7

\* A drain that is done with a message, dies, or whose entry becomes overdue.
LEMMA SettleKeeps ==
    ASSUME DeliveryInv,
           \/ \E d \in Drainers : AckMessage(d) \/ DrainerDies(d)
           \/ BecomeOverdue \/ UNCHANGED alertVars
    PROVE  DeliveryInv'
<1>1. UNCHANGED <<alertRow, alertStage, received, tried>>
    BY DEF AckMessage, DrainerDies, BecomeOverdue, alertVars
<1>2. IsQueueOf(queue, Alerts)'
    <2>1. IsQueueOf(queue, Alerts)
        BY DEF DeliveryInv, AlertTypes
    <2>2. \A e \in queue.log : e.id \in Nat
        BY <2>1 DEF IsQueueOf, QueueOf, Entry
    <2>3. \/ queue' = queue
          \/ \E i : queue' = Ack(queue, i)
          \/ queue' = EmptyQueue("memory")
          \/ \E e \in queue.log : queue' = Overdue(queue, e.id)
        BY DEF AckMessage, DrainerDies, BecomeOverdue, alertVars
    <2>4. "memory" \in QueueBackends
        BY DEF QueueBackends
    <2> QED BY <2>1, <2>2, <2>3, <2>4, AckIsQueue, EmptyIsQueue, OverdueIsQueue
<1>3. Idle \in [step : AlertSteps, batch : SUBSET Entry(Alerts), view : SUBSET Sinks]
    BY DEF Idle, AlertSteps
<1>4. /\ drainer' \in [Drainers -> [step : AlertSteps, batch : SUBSET Entry(Alerts),
                                    view : SUBSET Sinks]]
      /\ \A c \in Drainers :
            \/ drainer'[c] = drainer[c]
            \/ drainer'[c].step = "dequeue"
            \/ drainer'[c].step = "read" /\ drainer'[c].batch # {}
    <2>1. CASE UNCHANGED drainer
        BY <2>1 DEF DeliveryInv, AlertTypes
    <2>2. CASE \E d \in Drainers : DrainerDies(d)
        BY <1>3, <2>2 DEF DeliveryInv, AlertTypes, DrainerDies, Idle
    <2>3. ASSUME NEW d \in Drainers, AckMessage(d)
          PROVE  \E next \in {Idle, NextMessage(d)} : drainer' = [drainer EXCEPT ![d] = next]
        BY <2>3 DEF AckMessage
    <2>4. \A d \in Drainers :
            /\ NextMessage(d) \in
                    [step : AlertSteps, batch : SUBSET Entry(Alerts), view : SUBSET Sinks]
            /\ NextMessage(d).step = "dequeue"
                \/ (NextMessage(d).step = "read" /\ NextMessage(d).batch # {})
        BY <1>3 DEF NextMessage, DeliveryInv, AlertTypes, Idle, AlertSteps
    <2>5. Idle.step = "dequeue"
        BY DEF Idle
    <2>6. ASSUME NEW d \in Drainers, AckMessage(d)
          PROVE  /\ drainer' \in [Drainers -> [step : AlertSteps, batch : SUBSET Entry(Alerts),
                                               view : SUBSET Sinks]]
                 /\ \A c \in Drainers :
                       \/ drainer'[c] = drainer[c]
                       \/ drainer'[c].step = "dequeue"
                       \/ drainer'[c].step = "read" /\ drainer'[c].batch # {}
        <3>1. PICK next \in {Idle, NextMessage(d)} : drainer' = [drainer EXCEPT ![d] = next]
            BY <2>3, <2>6
        <3>2. /\ next \in [step : AlertSteps, batch : SUBSET Entry(Alerts),
                            view : SUBSET Sinks]
              /\ next.step = "dequeue" \/ (next.step = "read" /\ next.batch # {})
            BY <1>3, <2>4, <2>5
        <3>3. drainer \in [Drainers -> [step : AlertSteps, batch : SUBSET Entry(Alerts),
                                        view : SUBSET Sinks]]
            BY DEF DeliveryInv, AlertTypes
        <3> QED BY <3>1, <3>2, <3>3
    <2> QED BY <2>1, <2>2, <2>6 DEF BecomeOverdue, alertVars
<1>5. \A c \in Drainers : drainer'[c] = drainer[c] => Job(c)' = Job(c)
    BY SameJob
<1>6. AlertTypes'
    BY <1>1, <1>2, <1>4 DEF DeliveryInv, AlertTypes
<1> QED BY <1>1, <1>4, <1>5, <1>6 DEF DeliveryInv, ViewIsTrue, DeliveredIsTrue

LEMMA DeliveryNext == DeliveryInv /\ [AlertNext]_alertVars => DeliveryInv'
BY EmitKeeps, DequeueKeeps, DrainKeeps, SettleKeeps DEF AlertNext, AlertStep

\* What the security team reads as delivered was delivered.
THEOREM DeliveriesAreTrue == AlertSpec => []DeliveredIsTrue
<1>1. DeliveryInv => DeliveredIsTrue
    BY DEF DeliveryInv, ViewIsTrue
<1> QED BY <1>1, DeliveryInit, DeliveryNext, PTL DEF AlertSpec

---------------------------------------------------------------------------
\* An alert in the queue was tried, will be given to somebody, or was trimmed away.
Kept(a) ==
    \/ a \in tried \/ \E e \in InQueue(queue) : e.body = a
    \/ Cardinality(queue.log) >= AlertDepth /\ \A e \in queue.log : e.body # a

StreamInv ==
    queue.backend = "redis" =>
        /\ StreamOrder(queue)
        /\ \A d \in Drainers : \A e \in drainer[d].batch :
                e.id <= queue.read /\ \A f \in queue.log : f.id = e.id => f = e
        /\ \A e, f \in queue.log : e.body = f.body => e = f
        /\ \A a \in Alerts : alertStage[a] \in {"new", "stored"} =>
                \A e \in queue.log : e.body # a
        /\ \A d \in Drainers : drainer[d].step \in {"record", "ack"} => Job(d) \in tried
        /\ \A a \in Alerts : alertStage[a] = "queued" => Kept(a)

LEMMA StreamInit == AlertInit => StreamInv
BY DEF AlertInit, EmptyQueue, StreamInv, StreamOrder, Idle

\* A step that leaves the queue and the batches alone.
LEMMA StreamFrame ==
    ASSUME StreamInv, queue' = queue, tried \subseteq tried',
           \A d \in Drainers : /\ drainer'[d].batch = drainer[d].batch
                               /\ queue.backend = "redis" /\ drainer'[d].step \in {"record", "ack"}
                                    => Job(d) \in tried',
           \A a \in Alerts : /\ alertStage'[a] \in {"new", "stored"}
                                    => alertStage[a] \in {"new", "stored"}
                             /\ alertStage'[a] = "queued" => alertStage[a] = "queued"
    PROVE  StreamInv'
<1>1. \A d \in Drainers : Job(d)' = Job(d)
    BY SameJob
<1>2. \A a \in Alerts : Kept(a) => Kept(a)'
    BY DEF Kept
<1> QED BY <1>1, <1>2 DEF StreamInv

\* An alert that is added is kept, and pushes older ones out at most.
LEMMA StreamEnqueue ==
    ASSUME DeliveryInv, StreamInv, NEW a \in Alerts, EnqueueAlert(a)
    PROVE  StreamInv'
<1>1. CASE UNCHANGED queue /\ alertStage' = [alertStage EXCEPT ![a] = "unqueued"]
    <2>1. UNCHANGED <<drainer, tried>>
        BY DEF EnqueueAlert
    <2> QED BY <1>1, <2>1, StreamFrame DEF StreamInv, DeliveryInv, AlertTypes
<1>2. CASE /\ queue' \in Add(queue, a, TRUE, AlertDepth) /\ queue.backend = "redis"
           /\ \/ alertStage' = [alertStage EXCEPT ![a] = "queued"]
              \/ alertStage' = [alertStage EXCEPT ![a] = "unqueued"]
    <2>1. IsQueueOf(queue, Alerts) /\ StreamOrder(queue) /\ AlertDepth \in Nat
        BY <1>2, AlertBounds DEF DeliveryInv, AlertTypes, StreamInv
    <2> DEFINE new == [id |-> queue.next, place |-> queue.next, body |-> a, ready |-> TRUE]
    <2>2. PICK out \in PushedOut(queue, AlertDepth) :
            queue' = AddLast([queue EXCEPT !.log = @ \ out], a, TRUE)
        BY <1>2 DEF Add
    <2>3. /\ Appended(queue, queue', out, new) /\ out \subseteq queue.log
          /\ out = {} \/ Cardinality(queue'.log) >= AlertDepth
        <3>1. /\ queue'.backend = queue.backend /\ queue'.next = queue.next + 1
              /\ queue'.read = queue.read /\ queue'.log = (queue.log \ out) \cup {new}
              /\ queue'.held = queue.held /\ queue'.idle = queue.idle
            BY <2>2, <2>1 DEF AddLast, IsQueueOf, QueueOf
        <3>2. new.id = queue.next /\ new.place = queue.next
            OBVIOUS
        <3> HIDE DEF new
        <3> QED BY <1>2, <2>1, <3>1, <3>2, StreamAdd
    <2>4. new.body = a
        OBVIOUS
    <2> HIDE DEF new
    <2> USE DEF Appended
    <2>5. UNCHANGED <<drainer, tried>> /\ alertStage[a] = "stored"
        BY DEF EnqueueAlert
    <2>6. \A e \in queue.log : e.body # a
        BY <1>2, <2>5 DEF StreamInv
    <2>7. \A d \in Drainers : \A e \in drainer'[d].batch :
                e.id <= queue'.read /\ \A f \in queue'.log : f.id = e.id => f = e
        <3>1. queue.read < queue.next /\ queue.read \in Nat /\ queue.next \in Nat
            BY <2>1 DEF StreamOrder, IsQueueOf, QueueOf
        <3>2. \A d \in Drainers : \A e \in drainer[d].batch :
                e.id \in Nat /\ e.id <= queue.read /\ \A f \in queue.log : f.id = e.id => f = e
            BY <1>2 DEF StreamInv, DeliveryInv, AlertTypes, Entry
        <3> QED BY <2>3, <2>5, <3>1, <3>2
    <2>8. \A e, f \in queue'.log : e.body = f.body => e = f
        BY <1>2, <2>3, <2>6, <2>4 DEF StreamInv
    <2>9. \A k \in Alerts : alertStage'[k] \in {"new", "stored"} =>
                \A e \in queue'.log : e.body # k
        BY <1>2, <2>3, <2>4 DEF StreamInv, DeliveryInv, AlertTypes
    <2>10. \A d \in Drainers : drainer'[d].step \in {"record", "ack"} => (Job(d) \in tried)'
        BY <1>2, <2>5, SameJob DEF StreamInv
    <2>11. ASSUME NEW k \in Alerts, alertStage'[k] = "queued"
          PROVE  Kept(k)'
        <3>1. CASE k = a
            BY <2>3, <2>4, <3>1 DEF Kept
        <3>2. CASE k # a
            <4>1. Kept(k)
                BY <1>2, <2>11, <3>2 DEF StreamInv, DeliveryInv, AlertTypes
            <4>2. CASE \E e \in InQueue(queue) : e.body = k
                <5>1. PICK e \in InQueue(queue) : e.body = k /\ e \in queue.log
                    BY <4>2 DEF InQueue, Unread
                <5>2. CASE e \in out
                    <6>1. \A f \in queue'.log : f.body # k
                        BY <1>2, <2>3, <2>4, <3>2, <5>1, <5>2 DEF StreamInv
                    <6> QED BY <2>3, <5>2, <6>1 DEF Kept
                <5>3. CASE e \notin out
                    BY <2>3, <5>1, <5>3 DEF Kept
                <5> QED BY <5>2, <5>3
            <4>3. CASE Cardinality(queue.log) >= AlertDepth /\ \A e \in queue.log : e.body # k
                <5>1. Cardinality(queue.log) \in Nat
                    BY <2>1, FS_CardinalityType DEF IsQueueOf
                <5>2. Cardinality(queue'.log) >= AlertDepth
                    <6>1. CASE out = {}
                        <7>1. queue.log \ out = queue.log
                            BY <6>1
                        <7>2. Cardinality(queue.log \ out) = Cardinality(queue.log)
                            BY <7>1
                        <7>3. Cardinality(queue'.log) = Cardinality(queue.log) + 1
                            BY <2>3, <7>2
                        <7> QED BY <2>1, <4>3, <5>1, <7>3
                    <6> QED BY <2>3, <6>1
                <5> QED BY <2>3, <2>4, <3>2, <4>3, <5>2 DEF Kept
            <4>4. CASE k \in tried
                BY <2>5, <4>4 DEF Kept
            <4> QED BY <4>1, <4>2, <4>3, <4>4 DEF Kept
        <3> QED BY <3>1, <3>2
    <2> QED BY <2>3, <2>7, <2>8, <2>9, <2>10, <2>11 DEF StreamInv
<1>3. CASE queue.backend # "redis"
    <2>1. queue'.backend # "redis"
        <3>1. queue' = queue \/ queue' \in Add(queue, a, TRUE, AlertDepth)
            BY DEF EnqueueAlert
        <3>2. IsQueueOf(queue, Alerts)
            BY DEF DeliveryInv, AlertTypes
        <3>3. ASSUME NEW r \in Add(queue, a, TRUE, AlertDepth)
              PROVE  r.backend = queue.backend
            BY <3>2, <3>3 DEF Add, AddLast, IsQueueOf, QueueOf
        <3> QED BY <1>3, <3>1, <3>3
    <2> QED BY <2>1 DEF StreamInv
<1> QED BY <1>1, <1>2, <1>3 DEF EnqueueAlert

\* A dequeue loses no alert.
LEMMA StreamGives ==
    ASSUME DeliveryInv, StreamInv, NEW d \in Drainers, Dequeue(d)
    PROVE  StreamInv'
<1> DEFINE batch == Given(Reclaim(queue), AlertBatch)
<1>1. queue' = Give(Reclaim(queue), batch) /\ UNCHANGED <<alertStage, tried>>
    BY DEF Dequeue
<1>2. drainer' = [drainer EXCEPT ![d] = IF batch = {} THEN Idle
                                        ELSE [Idle EXCEPT !.step = "read", !.batch = batch]]
    BY DEF Dequeue
<1>3. IsQueueOf(queue, Alerts)
    BY DEF DeliveryInv, AlertTypes
<1>4. CASE queue.backend = "redis"
    <2>1. StreamOrder(queue) /\ AlertBatch \in Nat
        BY <1>4, AlertBounds DEF StreamInv
    <2>2. /\ queue'.backend = "redis" /\ queue'.log = queue.log /\ queue'.next = queue.next
          /\ batch \subseteq queue.log /\ StreamOrder(queue')
          /\ \A e \in batch : e.id <= queue'.read
          /\ InQueue(queue) \subseteq InQueue(queue')
          /\ queue.read <= queue'.read /\ queue'.read \in Nat /\ queue.read \in Nat
        <3>1. queue.read \in Nat
            BY <1>3 DEF IsQueueOf, QueueOf
        <3> QED BY <1>1, <1>3, <1>4, <2>1, <3>1, StreamDequeue
    <2> HIDE DEF batch
    <2>3. /\ \A c \in Drainers \ {d} : drainer'[c] = drainer[c]
          /\ drainer'[d].batch \subseteq batch /\ drainer'[d].step \notin {"record", "ack"}
        BY <1>2 DEF DeliveryInv, AlertTypes, Idle
    <2>4. \A c \in Drainers : \A e \in drainer'[c].batch :
                e.id <= queue'.read /\ \A f \in queue'.log : f.id = e.id => f = e
        <3>1. \A e \in batch : e.id <= queue'.read /\ \A f \in queue'.log : f.id = e.id => f = e
            BY <2>2 DEF StreamOrder
        <3>2. \A c \in Drainers : \A e \in drainer[c].batch :
                e.id \in Nat /\ e.id <= queue.read /\ \A f \in queue.log : f.id = e.id => f = e
            BY <1>4 DEF StreamInv, DeliveryInv, AlertTypes, Entry
        <3> QED BY <2>2, <2>3, <3>1, <3>2
    <2>5. \A c \in Drainers : drainer'[c] = drainer[c] => Job(c)' = Job(c)
        BY SameJob
    <2>6. \A a \in Alerts : Kept(a) => Kept(a)'
        BY <1>1, <2>2 DEF Kept
    <2>7. \A c \in Drainers : drainer'[c].step \in {"record", "ack"} => (Job(c) \in tried)'
        BY <1>1, <1>4, <2>3, <2>5 DEF StreamInv
    <2> QED BY <1>1, <1>4, <2>2, <2>4, <2>6, <2>7 DEF StreamInv
<1>5. CASE queue.backend # "redis"
    <2>1. queue'.backend # "redis"
        BY <1>1, <1>3, <1>5 DEF Give, Reclaim, IsQueueOf, QueueOf
    <2> QED BY <2>1 DEF StreamInv
<1> QED BY <1>4, <1>5

\* What is acknowledged was tried.
LEMMA StreamAcks ==
    ASSUME DeliveryInv, StreamInv, NEW d \in Drainers, AckMessage(d)
    PROVE  StreamInv'
<1>1. UNCHANGED <<alertStage, tried>> /\ drainer[d].step = "ack" /\ IsQueueOf(queue, Alerts)
    BY DEF AckMessage, DeliveryInv, AlertTypes
<1>2. queue' = queue \/ queue' = Ack(queue, Message(d).id)
    BY DEF AckMessage
<1>3. CASE queue.backend = "redis"
    <2>1. StreamOrder(queue)
        BY <1>3 DEF StreamInv
    <2>2. /\ queue'.backend = "redis" /\ queue'.log = queue.log
          /\ queue'.next = queue.next /\ queue'.read = queue.read /\ StreamOrder(queue')
          /\ \A e \in InQueue(queue) : e.id # Message(d).id => e \in InQueue(queue')
        BY <1>1, <1>2, <1>3, <2>1, StreamAck
    <2>3. Message(d) \in drainer[d].batch
        BY <1>1, MessageInBatch DEF DeliveryInv
    <2>4. \A c \in Drainers : /\ drainer'[c].batch \subseteq drainer[c].batch
                              /\ drainer'[c] = drainer[c] \/ drainer'[c].step \in {"dequeue", "read"}
        <3>1. PICK next \in {Idle, NextMessage(d)} : drainer' = [drainer EXCEPT ![d] = next]
            BY DEF AckMessage
        <3>2. next.batch \subseteq drainer[d].batch /\ next.step \in {"dequeue", "read"}
            <4>1. CASE next = Idle
                BY <4>1 DEF Idle
            <4>2. CASE next = NextMessage(d)
                <5> DEFINE rest == drainer[d].batch \ {Message(d)}
                <5>1. next = Idle \/ next = [Idle EXCEPT !.step = "read", !.batch = rest]
                    BY <4>2 DEF NextMessage
                <5>2. rest \subseteq drainer[d].batch
                    OBVIOUS
                <5> HIDE DEF rest
                <5>3. ASSUME next = [Idle EXCEPT !.step = "read", !.batch = rest]
                      PROVE  next.batch = rest /\ next.step = "read"
                    BY <5>3 DEF Idle
                <5> QED BY <4>1, <5>1, <5>2, <5>3 DEF Idle
            <4> QED BY <3>1, <4>1, <4>2
        <3> QED BY <3>1, <3>2 DEF DeliveryInv, AlertTypes
    <2>5. \A c \in Drainers : drainer'[c] = drainer[c] => Job(c)' = Job(c)
        BY SameJob
    <2>6. ASSUME NEW a \in Alerts, Kept(a)
          PROVE  Kept(a)'
        <3>1. ASSUME NEW e \in InQueue(queue), e.body = a, e.id = Message(d).id
              PROVE  a \in tried
            <4>1. e = Message(d)
                BY <1>3, <2>3, <3>1 DEF StreamInv, InQueue, Unread
            <4> QED BY <1>1, <1>3, <3>1, <4>1 DEF StreamInv, Job
        <3> QED BY <1>1, <2>2, <2>6, <3>1 DEF Kept
    <2>7. \A c \in Drainers : drainer'[c].step \in {"record", "ack"} => (Job(c) \in tried)'
        BY <1>1, <1>3, <2>4, <2>5 DEF StreamInv
    <2>8. \A c \in Drainers : \A e \in drainer'[c].batch :
                e.id <= queue'.read /\ \A f \in queue'.log : f.id = e.id => f = e
        BY <1>3, <2>2, <2>4 DEF StreamInv
    <2> QED BY <1>1, <1>3, <2>2, <2>6, <2>7, <2>8 DEF StreamInv
<1>4. CASE queue.backend # "redis"
    <2>1. queue'.backend # "redis"
        BY <1>1, <1>2, <1>4 DEF Ack, IsQueueOf, QueueOf
    <2> QED BY <2>1 DEF StreamInv
<1> QED BY <1>3, <1>4

\* A drain that dies leaves the stream as it is.
LEMMA StreamDies ==
    ASSUME DeliveryInv, StreamInv, NEW d \in Drainers, DrainerDies(d)
    PROVE  StreamInv'
<1>1. CASE queue.backend = "redis"
    <2>1. UNCHANGED <<queue, alertStage, tried>>
        BY <1>1 DEF DrainerDies
    <2>2. \A c \in Drainers : drainer'[c] = drainer[c] \/ drainer'[c] = Idle
        BY <1>1 DEF DrainerDies
    <2>3. \A c \in Drainers : drainer'[c] = drainer[c] => Job(c)' = Job(c)
        BY SameJob
    <2>4. \A a \in Alerts : Kept(a) => Kept(a)'
        BY <2>1 DEF Kept
    <2>5. Idle.batch = {} /\ Idle.step = "dequeue"
        BY DEF Idle
    <2> QED BY <1>1, <2>1, <2>2, <2>3, <2>4, <2>5 DEF StreamInv
<1>2. CASE queue.backend = "memory"
    BY <1>2 DEF DrainerDies, EmptyQueue, StreamInv
<1>3. queue.backend \in QueueBackends
    BY DEF DeliveryInv, AlertTypes, IsQueueOf, QueueOf
<1> QED BY <1>1, <1>2, <1>3 DEF QueueBackends

LEMMA StreamOverdue ==
    ASSUME DeliveryInv, StreamInv, BecomeOverdue
    PROVE  StreamInv'
<1>1. PICK e \in queue.log : e.id \in queue.held /\ queue' = Overdue(queue, e.id)
    BY DEF BecomeOverdue
<1>2. /\ queue'.backend = queue.backend /\ queue'.log = queue.log
      /\ queue'.next = queue.next /\ queue'.read = queue.read /\ queue'.held = queue.held
      /\ queue'.idle = queue.idle \cup {e.id}
    BY <1>1 DEF Overdue, DeliveryInv, AlertTypes, IsQueueOf, QueueOf
<1>3. UNCHANGED <<drainer, alertStage, tried>>
    BY DEF BecomeOverdue
<1>4. \A d \in Drainers : Job(d)' = Job(d)
    BY <1>3, SameJob
<1>5. InQueue(queue') = InQueue(queue)
    BY <1>2 DEF InQueue, Unread
<1>6. \A a \in Alerts : Kept(a) => Kept(a)'
    BY <1>2, <1>3, <1>5 DEF Kept
<1>7. StreamOrder(queue) => StreamOrder(queue')
    BY <1>1, <1>2 DEF StreamOrder
<1> QED BY <1>2, <1>3, <1>4, <1>6, <1>7 DEF StreamInv

LEMMA StreamNext == DeliveryInv /\ StreamInv /\ [AlertNext]_alertVars => StreamInv'
<1> SUFFICES ASSUME DeliveryInv, StreamInv, [AlertNext]_alertVars PROVE StreamInv'
    OBVIOUS
<1>1. CASE UNCHANGED alertVars
    BY <1>1, StreamFrame DEF alertVars, StreamInv, Job, Message
<1>2. ASSUME NEW a \in Alerts, PersistAlert(a)
      PROVE  StreamInv'
    <2>1. UNCHANGED <<queue, drainer, tried>> /\ alertStage[a] = "new"
        BY <1>2 DEF PersistAlert
    <2>2. \E stage \in {"stored", "skipped"} : alertStage' = [alertStage EXCEPT ![a] = stage]
        BY <1>2 DEF PersistAlert
    <2>3. \A k \in Alerts : /\ alertStage'[k] \in {"new", "stored"} => alertStage[k] \in {"new", "stored"}
                            /\ alertStage'[k] = "queued" => alertStage[k] = "queued"
        BY <2>1, <2>2 DEF DeliveryInv, AlertTypes
    <2>4. \A d \in Drainers : /\ drainer'[d].batch = drainer[d].batch
                              /\ queue.backend = "redis" /\ drainer'[d].step \in {"record", "ack"}
                                    => Job(d) \in tried'
        BY <2>1 DEF StreamInv
    <2> QED BY <2>1, <2>3, <2>4, StreamFrame
<1>3. ASSUME NEW d \in Drainers, ReadDelivered(d) \/ Deliver(d) \/ RecordDelivered(d)
      PROVE  StreamInv'
    <2>1. UNCHANGED <<queue, alertStage>> /\ tried \subseteq tried'
        BY <1>3 DEF ReadDelivered, Deliver, RecordDelivered
    <2>2. ASSUME NEW c \in Drainers
          PROVE  /\ drainer'[c].batch = drainer[c].batch
                 /\ queue.backend = "redis" /\ drainer'[c].step \in {"record", "ack"}
                      => Job(c) \in tried'
        <3>1. CASE c = d
            <4>1. CASE ReadDelivered(d)
                BY <3>1, <4>1 DEF ReadDelivered, DeliveryInv, AlertTypes
            <4>2. CASE Deliver(d)
                BY <3>1, <4>2 DEF Deliver, DeliveryInv, AlertTypes
            <4>3. CASE RecordDelivered(d)
                BY <2>1, <3>1, <4>3 DEF RecordDelivered, DeliveryInv, AlertTypes, StreamInv
            <4> QED BY <1>3, <4>1, <4>2, <4>3
        <3>2. CASE c # d
            <4>1. drainer'[c] = drainer[c]
                BY <1>3, <3>2 DEF ReadDelivered, Deliver, RecordDelivered, DeliveryInv, AlertTypes
            <4> QED BY <2>1, <4>1 DEF StreamInv
        <3> QED BY <3>1, <3>2
    <2> QED BY <2>1, <2>2, StreamFrame
<1> QED
    BY <1>1, <1>2, <1>3, StreamEnqueue, StreamGives, StreamAcks, StreamDies, StreamOverdue
    DEF AlertNext, AlertStep

\* An alert in the stream leaves it when its sinks were tried or MAXLEN trims it,
\* whatever dies and however drains overlap.
THEOREM AlertsAreKept == AlertSpec => []KeptUntilTried
<1>1. DeliveryInv /\ StreamInv => KeptUntilTried
    <2> SUFFICES ASSUME DeliveryInv, StreamInv, NEW a \in Alerts,
                        alertStage[a] = "queued", queue.backend = "redis", Kept(a)
                 PROVE  a \in tried \/ Trimmed(a) \/ \E e \in InQueue(queue) : e.body = a
        BY DEF StreamInv, KeptUntilTried
    <2>1. ASSUME \A e \in queue.log : e.body # a
          PROVE  {e \in queue.log : e.body # a} = queue.log
        BY <2>1
    <2> QED BY <2>1 DEF Kept, Trimmed
<1> QED
    BY <1>1, DeliveryInit, StreamInit, DeliveryNext, StreamNext, PTL DEF AlertSpec

---------------------------------------------------------------------------
Bodies == [signal : Signals, retry : Nat]

\* A drain that works on the first entry of its batch, or on a delayed one.
AtEntry == {"process", "ack", "retry", "requeue", "drop"}

AtDelayed == {"giveBack", "putBack"}

DrainType ==
    [step : AtEntry \cup AtDelayed \cup {"idle", "dequeue", "end"}, batch : SUBSET Entry(Bodies)]

IngestTypes ==
    /\ IsQueueOf(signals, Bodies)
    /\ sent \in [Signals -> [stage : {"new", "passed", "refused", "accepted"}, by : Nat]]
    /\ drain \in [Processes -> DrainType]
    /\ \A p \in Processes :
        /\ drain[p].step \in AtEntry => drain[p].batch # {}
        /\ drain[p].step \in AtDelayed => Delayed(drain[p].batch) # {}

\* The live entry of a signal is its newest.
IsLive(s) ==
    \E e \in InQueue(signals) :
        e.body.signal = s /\ \A f \in signals.log : f.body.signal = s => f.id <= e.id

IsTrimmed(s) ==
    Cardinality(signals.log) >= SignalDepth /\ \A e \in signals.log : e.body.signal # s

Settled(s) == s \in processed \cup failed \cup cut

Accounted(s) ==
    Settled(s) \/ IsLive(s) \/ IsTrimmed(s) \/ \E p \in Processes : s \in Carried(p)

IngestInv ==
    /\ IngestTypes
    /\ signals.backend = "redis" =>
        /\ StreamOrder(signals)
        /\ \A p \in Processes : \A e \in drain[p].batch :
                e.id <= signals.read /\ \A f \in signals.log : f.id = e.id => f.body = e.body
        /\ \A p \in Processes : drain[p].step = "ack" => CurrentEntry(p).body.signal \in processed
        /\ \A s \in Signals : sent[s].stage = "accepted" => Accounted(s)

\* The earliest entry of a set is one of it.
LEMMA EarliestIn ==
    ASSUME NEW S \in SUBSET Entry(Bodies), S # {}
    PROVE  Earliest(S) \in S
<1> DEFINE places == {e.place : e \in S}
<1>1. places \in SUBSET Nat /\ places # {}
    BY DEF Entry
<1>2. PICK p \in places : \A o \in places : p <= o
    BY <1>1, LeastOf
<1>3. PICK e \in S : e.place = p
    OBVIOUS
<1>4. \A f \in S : e.place <= f.place
    BY <1>2, <1>3
<1> QED BY <1>4 DEF Earliest

LEMMA CurrentInBatch ==
    ASSUME IngestTypes, NEW p \in Processes, drain[p].step \in AtEntry
    PROVE  CurrentEntry(p) \in drain[p].batch /\ CurrentEntry(p) \in Entry(Bodies)
BY EarliestIn DEF IngestTypes, CurrentEntry, DrainType

LEMMA DelayedInBatch ==
    ASSUME IngestTypes, NEW p \in Processes, drain[p].step \in AtDelayed
    PROVE  LET e == Earliest(Delayed(drain[p].batch)) IN e \in drain[p].batch /\ e \in Entry(Bodies)
<1>1. /\ Delayed(drain[p].batch) # {} /\ Delayed(drain[p].batch) \in SUBSET drain[p].batch
      /\ drain[p].batch \in SUBSET Entry(Bodies)
    BY DEF IngestTypes, Delayed, DrainType
<1> QED BY <1>1, EarliestIn

\* What a drain works on is decided by its step and its batch.
LEMMA SameCarried ==
    ASSUME NEW p \in Processes, drain'[p].batch = drain[p].batch
    PROVE  /\ CurrentEntry(p)' = CurrentEntry(p)
           /\ drain'[p].step = drain[p].step => Carried(p)' = Carried(p)
BY DEF CurrentEntry, Carried

LEMMA IngestInit == SignalInit => IngestInv
<1> SUFFICES ASSUME SignalInit PROVE IngestInv
    OBVIOUS
<1>1. PICK b \in QueueBackends : signals = EmptyQueue(b)
    BY SignalBounds DEF SignalInit
<1>2. IsQueueOf(signals, Bodies)
    BY <1>1, EmptyIsQueue
<1>3. StreamOrder(signals)
    BY <1>1 DEF StreamOrder, EmptyQueue
<1>4. /\ \A p \in Processes : drain[p].step = "idle" /\ drain[p].batch = {} /\ drain[p] \in DrainType
      /\ drain = [p \in Processes |-> Resting]
    BY DEF SignalInit, Resting, DrainType
<1>5. /\ sent \in [Signals -> [stage : {"new", "passed", "refused", "accepted"}, by : Nat]]
      /\ \A s \in Signals : sent[s].stage # "accepted"
    BY DEF SignalInit, NotSent
<1>6. drain \in [Processes -> DrainType]
    BY <1>4
<1> QED BY <1>2, <1>3, <1>4, <1>5, <1>6 DEF IngestInv, IngestTypes, AtEntry, AtDelayed

---------------------------------------------------------------------------
\* What becomes of the live entries and of the trimmed signals.
LEMMA LogStays ==
    ASSUME signals'.log = signals.log, InQueue(signals) \subseteq InQueue(signals'),
           NEW s
    PROVE  (IsLive(s) => IsLive(s)') /\ (IsTrimmed(s) => IsTrimmed(s)')
BY DEF IsLive, IsTrimmed

\* An acknowledgement takes the live entry of one signal at most.
LEMMA AckTakesOne ==
    ASSUME IsQueueOf(signals, Bodies), signals.backend = "redis", StreamOrder(signals),
           NEW i, signals' = Ack(signals, i), NEW s
    PROVE  /\ IsTrimmed(s) => IsTrimmed(s)'
           /\ IsLive(s) => IsLive(s)' \/ \E e \in signals.log : e.id = i /\ e.body.signal = s
<1>1. /\ signals'.log = signals.log
      /\ \A e \in InQueue(signals) : e.id # i => e \in InQueue(signals')
    BY StreamAck
<1>2. \A e \in InQueue(signals) : e \in signals.log
    BY DEF InQueue, Unread
<1> QED BY <1>1, <1>2 DEF IsLive, IsTrimmed

\* A new entry makes its signal live; another one stays so or is trimmed.
LEMMA AppendKeeps ==
    ASSUME IsQueueOf(signals, Bodies), signals.backend = "redis", StreamOrder(signals),
           NEW out \in PushedOut(signals, SignalDepth), NEW new,
           new.id = signals.next, new.place = signals.next, Appended(signals, signals', out, new),
           out = {} \/ Cardinality(signals'.log) >= SignalDepth
    PROVE  /\ IsLive(new.body.signal)'
           /\ \A s : IsLive(s) \/ IsTrimmed(s) =>
                    IsLive(s)' \/ IsTrimmed(s)' \/ s = new.body.signal
<1> USE DEF Appended
<1>1. /\ signals.next \in Nat /\ out \subseteq signals.log
      /\ \A e \in signals.log : e.id \in Nat /\ e.id < signals.next /\ e.place = e.id
      /\ \A e \in out, f \in signals.log \ out : e.place < f.place
    BY DEF IsQueueOf, QueueOf, Entry, PushedOut, StreamOrder
<1>2. IsLive(new.body.signal)'
    BY <1>1 DEF IsLive
<1>3. ASSUME NEW s, s # new.body.signal, IsLive(s)
      PROVE  IsLive(s)' \/ IsTrimmed(s)'
    <2>1. PICK e \in InQueue(signals) :
            e \in signals.log /\ e.body.signal = s
            /\ \A f \in signals.log : f.body.signal = s => f.id <= e.id
        BY <1>3 DEF IsLive, InQueue, Unread
    <2>2. CASE e \notin out
        BY <1>3, <2>1, <2>2 DEF IsLive
    <2>3. CASE e \in out
        <3>1. \A f \in signals.log \ out : f.body.signal # s
            BY <1>1, <2>1, <2>3
        <3> QED BY <1>3, <2>3, <3>1 DEF IsTrimmed
    <2> QED BY <2>2, <2>3
<1>4. ASSUME NEW s, s # new.body.signal, IsTrimmed(s)
      PROVE  IsTrimmed(s)'
    <2>1. Cardinality(signals'.log) >= SignalDepth
        <3>1. CASE out = {}
            <4>1. signals.log \ out = signals.log
                BY <3>1
            <4>2. Cardinality(signals'.log) = Cardinality(signals.log) + 1
                BY <4>1
            <4>3. Cardinality(signals.log) \in Nat /\ SignalDepth \in Nat
                BY SignalBounds, FS_CardinalityType DEF IsQueueOf
            <4> QED BY <1>4, <4>2, <4>3 DEF IsTrimmed
        <3> QED BY <3>1
    <2> QED BY <1>4, <2>1 DEF IsTrimmed
<1> QED BY <1>2, <1>3, <1>4

---------------------------------------------------------------------------
\* Where a drain may go, and the steps at which it carries no signal.
IsDrain(next) ==
    /\ next \in DrainType
    /\ next.step \in AtEntry => next.batch # {}
    /\ next.step \in AtDelayed => Delayed(next.batch) # {}

Calm == {"idle", "dequeue", "giveBack", "process", "end"}

\* After a message, or an error, a drain goes on with a part of its batch.
LEMMA Moves ==
    ASSUME NEW p \in Processes, NEW batch \in SUBSET Entry(Bodies),
           ContinueBatch(p, batch) \/ NextOf(p, batch) \/ Abandon(p)
    PROVE  \E next : /\ IsDrain(next) /\ next.batch \subseteq batch /\ next.step \in Calm
                     /\ drain' = [drain EXCEPT ![p] = next]
<1>1. ASSUME ContinueBatch(p, batch)
      PROVE  \E next : /\ IsDrain(next) /\ next.batch \subseteq batch /\ next.step \in Calm
                       /\ drain' = [drain EXCEPT ![p] = next]
    <2> DEFINE next == [step |-> IF Delayed(batch) # {} THEN "giveBack"
                                 ELSE IF batch # {} THEN "process" ELSE "end",
                        batch |-> batch]
    <2>1. drain' = [drain EXCEPT ![p] = next]
        BY <1>1 DEF ContinueBatch
    <2>2. IsDrain(next) /\ next.batch \subseteq batch /\ next.step \in Calm
        BY DEF IsDrain, DrainType, AtEntry, AtDelayed, Calm
    <2> HIDE DEF next
    <2> QED BY <2>1, <2>2
<1>2. ASSUME NEW step \in {"dequeue", "end"},
             drain' = [drain EXCEPT ![p] = [step |-> step, batch |-> {}]]
      PROVE  \E next : /\ IsDrain(next) /\ next.batch \subseteq batch /\ next.step \in Calm
                       /\ drain' = [drain EXCEPT ![p] = next]
    <2> DEFINE next == [step |-> step, batch |-> {}]
    <2>1. IsDrain(next) /\ next.batch \subseteq batch /\ next.step \in Calm
        BY DEF IsDrain, DrainType, AtEntry, AtDelayed, Calm
    <2>2. drain' = [drain EXCEPT ![p] = next]
        BY <1>2
    <2> HIDE DEF next
    <2> QED BY <2>1, <2>2
<1> QED BY <1>1, <1>2 DEF NextOf, Abandon

\* Inside a message a drain keeps its batch.
LEMMA Goes ==
    ASSUME IngestTypes, NEW p \in Processes, NEW step, DrainGoto(p, step),
           (drain[p].step \in AtEntry /\ step \in AtEntry)
               \/ (drain[p].step \in AtDelayed /\ step \in AtDelayed)
               \/ step \in {"idle", "dequeue", "end"}
    PROVE  \E next : /\ IsDrain(next) /\ next.batch = drain[p].batch /\ next.step = step
                     /\ drain' = [drain EXCEPT ![p] = next]
<1> DEFINE next == [step |-> step, batch |-> drain[p].batch]
<1>1. drain' = [drain EXCEPT ![p] = next]
    <2>1. drain[p] = [step |-> drain[p].step, batch |-> drain[p].batch]
        BY DEF IngestTypes, DrainType
    <2>2. drain' = [drain EXCEPT ![p] = [drain[p] EXCEPT !.step = step]]
        BY DEF DrainGoto
    <2>3. [drain[p] EXCEPT !.step = step] = next
        BY <2>1
    <2> QED BY <2>2, <2>3, Zenon
<1>2. IsDrain(next) /\ next.batch = drain[p].batch /\ next.step = step
    BY DEF IsDrain, IngestTypes, DrainType, AtEntry, AtDelayed
<1> HIDE DEF next
<1> QED BY <1>1, <1>2

\* No request is accepted by the step.
SentKeeps ==
    /\ sent' \in [Signals -> [stage : {"new", "passed", "refused", "accepted"}, by : Nat]]
    /\ \A s \in Signals : sent'[s].stage = "accepted" => sent[s].stage = "accepted"

\* A step of one drain keeps the invariant when what was live, trimmed or carried
\* by it is accounted for afterwards.
LEMMA DrainStepKeeps ==
    ASSUME IngestInv, NEW p \in Processes, NEW next, IsDrain(next),
           drain' = [drain EXCEPT ![p] = next], SentKeeps,
           IsQueueOf(signals', Bodies), signals'.backend = signals.backend,
           processed \subseteq processed', failed \subseteq failed', cut \subseteq cut',
           signals.backend = "redis" =>
               /\ StreamOrder(signals') /\ signals.read <= signals'.read
               /\ \A f \in signals'.log : f \in signals.log \/ f.id >= signals.next
               /\ \/ next.batch \subseteq drain[p].batch
                  \/ next.batch \subseteq signals'.log /\ \A e \in next.batch : e.id <= signals'.read
               /\ next.step = "ack" => Earliest(next.batch).body.signal \in processed'
               /\ \A s \in Signals :
                    IsLive(s) \/ IsTrimmed(s) \/ s \in Carried(p) => Accounted(s)'
    PROVE  IngestInv'
<1>1. drain'[p] = next /\ \A q \in Processes \ {p} : drain'[q] = drain[q]
    BY DEF IngestInv, IngestTypes
<1>2. IngestTypes'
    BY <1>1 DEF IngestInv, IngestTypes, IsDrain, SentKeeps
<1>3. SUFFICES ASSUME signals.backend = "redis"
               PROVE  IngestInv'
    BY <1>2 DEF IngestInv
<1>4. \A q \in Processes \ {p} : CurrentEntry(q)' = CurrentEntry(q) /\ Carried(q)' = Carried(q)
    BY <1>1, SameCarried
<1>5. /\ signals.read \in Nat /\ signals'.read \in Nat /\ signals.next \in Nat
      /\ signals.read < signals.next
      /\ \A q \in Processes : \A e \in drain[q].batch : e.id \in Nat
    BY <1>3 DEF IngestInv, IngestTypes, IsQueueOf, QueueOf, StreamOrder, DrainType, Entry
<1>6. \A q \in Processes : \A e \in drain[q].batch :
        e.id <= signals'.read /\ \A f \in signals'.log : f.id = e.id => f.body = e.body
    BY <1>3, <1>5 DEF IngestInv
<1>7. \A q \in Processes : \A e \in drain'[q].batch :
        e.id <= signals'.read /\ \A f \in signals'.log : f.id = e.id => f.body = e.body
    <2>1. \A e \in next.batch :
            e.id <= signals'.read /\ \A f \in signals'.log : f.id = e.id => f.body = e.body
        BY <1>3, <1>6 DEF StreamOrder
    <2> QED BY <1>1, <1>6, <2>1
<1>8. \A q \in Processes : drain'[q].step = "ack" => (CurrentEntry(q).body.signal \in processed)'
    BY <1>1, <1>3, <1>4 DEF IngestInv, CurrentEntry
<1>9. ASSUME NEW s \in Signals, Accounted(s)
      PROVE  Accounted(s)'
    BY <1>3, <1>4, <1>9 DEF Accounted, Settled
<1> QED BY <1>2, <1>3, <1>7, <1>8, <1>9 DEF IngestInv, SentKeeps

---------------------------------------------------------------------------
\* The three ways in which a drain changes the queue.
QueueMoves ==
    /\ IsQueueOf(signals', Bodies) /\ signals'.backend = signals.backend
    /\ signals.backend = "redis" =>
        /\ StreamOrder(signals') /\ signals.read <= signals'.read
        /\ \A f \in signals'.log : f \in signals.log \/ f.id >= signals.next

\* A queue that stays as it is.
LEMMA Unmoved ==
    ASSUME IngestInv, signals' = signals
    PROVE  QueueMoves /\ \A s : (IsLive(s) => IsLive(s)') /\ (IsTrimmed(s) => IsTrimmed(s)')
BY DEF IngestInv, IngestTypes, QueueMoves, IsQueueOf, QueueOf, IsLive, IsTrimmed

\* An entry of a batch that is acknowledged, or not when Redis fails.
LEMMA EntryAcked ==
    ASSUME IngestInv, NEW p \in Processes, NEW e \in drain[p].batch,
           signals' \in {signals, Ack(signals, e.id)}
    PROVE  /\ QueueMoves
           /\ signals.backend = "redis" => \A s :
                /\ IsTrimmed(s) => IsTrimmed(s)'
                /\ IsLive(s) => IsLive(s)' \/ s = e.body.signal
<1>1. CASE signals' = signals
    BY <1>1, Unmoved
<1>2. CASE signals' = Ack(signals, e.id)
    <2>1. IsQueueOf(signals, Bodies)
        BY DEF IngestInv, IngestTypes
    <2>2. IsQueueOf(signals', Bodies) /\ signals'.backend = signals.backend /\ signals.read \in Nat
        <3>1. IsQueueOf(signals', Bodies)
            BY <1>2, <2>1, AckIsQueue
        <3>2. signals'.backend = signals.backend
            BY <1>2, <2>1 DEF Ack, IsQueueOf, QueueOf
        <3> QED BY <2>1, <3>1, <3>2 DEF IsQueueOf, QueueOf
    <2>3. CASE signals.backend = "redis"
        <3>1. StreamOrder(signals)
            BY <2>3 DEF IngestInv
        <3>2. /\ signals'.log = signals.log /\ signals'.read = signals.read
              /\ StreamOrder(signals')
            BY <1>2, <2>1, <2>3, <3>1, StreamAck
        <3>3. \A f \in signals.log : f.id = e.id => f.body = e.body
            BY <2>3 DEF IngestInv
        <3>4. \A s : /\ IsTrimmed(s) => IsTrimmed(s)'
                     /\ IsLive(s) => IsLive(s)' \/ \E f \in signals.log : f.id = e.id /\ f.body.signal = s
            BY <1>2, <2>1, <2>3, <3>1, AckTakesOne
        <3> QED BY <2>2, <3>2, <3>3, <3>4 DEF QueueMoves
    <2> QED BY <2>2, <2>3 DEF QueueMoves
<1> QED BY <1>1, <1>2

\* The entry that enqueue adds.
NewEntry(body, ready) ==
    [id |-> signals.next, place |-> signals.next, body |-> body, ready |-> ready]

\* A signal that is added becomes live.
LEMMA EntryAdded ==
    ASSUME IngestInv, NEW body \in Bodies, NEW ready \in BOOLEAN, NEW limit \in Nat,
           signals' \in Add(signals, body, ready, limit)
    PROVE  /\ QueueMoves
           /\ signals.backend = "redis" /\ limit = SignalDepth =>
                /\ IsLive(body.signal)'
                /\ \A s : IsLive(s) \/ IsTrimmed(s) =>
                        IsLive(s)' \/ IsTrimmed(s)' \/ s = body.signal
<1> DEFINE new == NewEntry(body, ready)
<1>1. IsQueueOf(signals, Bodies)
    BY DEF IngestInv, IngestTypes
<1>2. PICK out \in PushedOut(signals, limit) :
        /\ signals'.backend = signals.backend /\ signals'.next = signals.next + 1
        /\ signals'.read = signals.read /\ signals'.log = (signals.log \ out) \cup {new}
        /\ signals'.held = signals.held /\ signals'.idle = signals.idle
    BY <1>1, AddFields DEF NewEntry
<1>3. new.id = signals.next /\ new.place = signals.next /\ new.body = body
    BY DEF NewEntry
<1> HIDE DEF new
<1>4. IsQueueOf(signals', Bodies)
    BY <1>1, AddIsQueue
<1>5. CASE signals.backend = "redis"
    <2>1. StreamOrder(signals)
        BY <1>5 DEF IngestInv
    <2> DEFINE after == signals'
    <2>2. /\ after.backend = signals.backend /\ after.next = signals.next + 1
          /\ after.read = signals.read /\ after.log = (signals.log \ out) \cup {new}
          /\ after.held = signals.held /\ after.idle = signals.idle
        BY <1>2
    <2> HIDE DEF after
    <2>3. Appended(signals, after, out, new) /\ (out = {} \/ Cardinality(after.log) >= limit)
        BY <1>1, <1>3, <1>5, <2>1, <2>2, StreamAdd
    <2>4. Appended(signals, signals', out, new) /\ (out = {} \/ Cardinality(signals'.log) >= limit)
        BY <2>3 DEF after
    <2>5. signals.read \in Nat /\ signals.next \in Nat
        BY <1>1 DEF IsQueueOf, QueueOf
    <2>6. QueueMoves
        BY <1>2, <1>3, <1>4, <1>5, <2>4, <2>5 DEF QueueMoves, Appended
    <2>7. ASSUME limit = SignalDepth
          PROVE  /\ IsLive(body.signal)'
                 /\ \A s : IsLive(s) \/ IsTrimmed(s) =>
                        IsLive(s)' \/ IsTrimmed(s)' \/ s = body.signal
        BY <1>1, <1>3, <1>5, <2>1, <2>4, <2>7, AppendKeeps
    <2> QED BY <1>5, <2>6, <2>7
<1>6. CASE signals.backend # "redis"
    BY <1>2, <1>4, <1>6 DEF QueueMoves
<1> QED BY <1>5, <1>6

---------------------------------------------------------------------------
\* Steps of a drain that hand nothing from one place to another.
LEMMA QueueStays ==
    ASSUME IngestInv, NEW p \in Processes, NEW next, IsDrain(next), Carried(p) = {},
           drain' = [drain EXCEPT ![p] = next], signals' = signals, sent' = sent,
           next.batch \subseteq drain[p].batch,
           next.step = "ack" => Earliest(next.batch).body.signal \in processed',
           processed \subseteq processed', failed \subseteq failed', cut \subseteq cut'
    PROVE  IngestInv'
<1>1. QueueMoves /\ \A s : (IsLive(s) => IsLive(s)') /\ (IsTrimmed(s) => IsTrimmed(s)')
    BY Unmoved
<1>2. SentKeeps
    BY DEF SentKeeps, IngestInv, IngestTypes
<1>3. \A s \in Signals : IsLive(s) \/ IsTrimmed(s) \/ s \in Carried(p) => Accounted(s)'
    BY <1>1 DEF Accounted
<1> QED BY <1>1, <1>2, <1>3, DrainStepKeeps DEF QueueMoves

\* A drain acknowledges an entry, or tries to, and its signal is accounted for.
LEMMA AckKeeps ==
    ASSUME IngestInv, NEW p \in Processes, NEW e \in drain[p].batch, NEW next, IsDrain(next),
           Carried(p) = {}, drain' = [drain EXCEPT ![p] = next],
           signals' \in {signals, Ack(signals, e.id)}, sent' = sent,
           next.batch \subseteq drain[p].batch, next.step # "ack",
           processed \subseteq processed', failed \subseteq failed', cut \subseteq cut',
           Accounted(e.body.signal)'
    PROVE  IngestInv'
<1>1. QueueMoves /\ (signals.backend = "redis" => \A s :
            (IsTrimmed(s) => IsTrimmed(s)') /\ (IsLive(s) => IsLive(s)' \/ s = e.body.signal))
    BY EntryAcked
<1>2. SentKeeps
    BY DEF SentKeeps, IngestInv, IngestTypes
<1>3. signals.backend = "redis" =>
        \A s \in Signals : IsLive(s) \/ IsTrimmed(s) \/ s \in Carried(p) => Accounted(s)'
    BY <1>1 DEF Accounted
<1> QED BY <1>1, <1>2, <1>3, DrainStepKeeps DEF QueueMoves

\* A signal a drain is cut off with has another copy or is a loss.
LEMMA CutOffAccounts ==
    ASSUME IngestInv, NEW p \in Processes, NEW next, drain' = [drain EXCEPT ![p] = next],
           NEW inHand, CutOff(p, inHand), NEW s \in inHand
    PROVE  Accounted(s)'
<1>1. CASE s \in cut'
    BY <1>1 DEF Accounted, Settled
<1>2. CASE \E e \in InQueue(signals') :
            e.body.signal = s /\ \A f \in signals'.log : f.body.signal = s => f.id <= e.id
    BY <1>2 DEF Accounted, IsLive
<1>3. CASE \E o \in Processes \ {p} : s \in Carried(o)
    <2>1. PICK o \in Processes \ {p} : s \in Carried(o)
        BY <1>3
    <2>2. drain'[o] = drain[o]
        BY DEF IngestInv, IngestTypes
    <2>3. Carried(o)' = Carried(o)
        BY <2>2, SameCarried
    <2> QED BY <2>1, <2>3 DEF Accounted
<1> QED BY <1>1, <1>2, <1>3 DEF CutOff, HasCopy

\* A drain adds the signal it carries, or leaves it accounted for.
LEMMA AddKeeps ==
    ASSUME IngestInv, NEW p \in Processes, NEW next, IsDrain(next), NEW s0,
           Carried(p) = {s0}, drain' = [drain EXCEPT ![p] = next], sent' = sent,
           QueueMoves, signals.backend = "redis" =>
               /\ Accounted(s0)'
               /\ \A s : IsLive(s) \/ IsTrimmed(s) => IsLive(s)' \/ IsTrimmed(s)' \/ s = s0,
           next.batch \subseteq drain[p].batch, next.step # "ack",
           processed \subseteq processed', failed \subseteq failed', cut \subseteq cut'
    PROVE  IngestInv'
<1>1. SentKeeps
    BY DEF SentKeeps, IngestInv, IngestTypes
<1>2. signals.backend = "redis" =>
        \A s \in Signals : IsLive(s) \/ IsTrimmed(s) \/ s \in Carried(p) => Accounted(s)'
    BY DEF Accounted
<1> QED BY <1>1, <1>2, DrainStepKeeps DEF QueueMoves

\* Requests and time leave the drains where they are, at most starting one.
LEMMA DrainsRest ==
    ASSUME IngestInv, IsQueueOf(signals', Bodies), signals'.backend = signals.backend,
           drain' \in [Processes -> DrainType],
           \A p \in Processes :
                /\ drain'[p].batch = drain[p].batch
                /\ drain'[p].step = drain[p].step
                   \/ (drain[p].step = "idle" /\ drain'[p].step = "dequeue"),
           sent' \in [Signals -> [stage : {"new", "passed", "refused", "accepted"}, by : Nat]],
           processed' = processed, failed' = failed, cut' = cut,
           signals.backend = "redis" =>
               /\ StreamOrder(signals') /\ signals.read <= signals'.read
               /\ \A f \in signals'.log :
                    f.id >= signals.next \/ \E g \in signals.log : g.id = f.id /\ g.body = f.body
               /\ \A s \in Signals : /\ IsLive(s) \/ IsTrimmed(s) => IsLive(s)' \/ IsTrimmed(s)'
                                     /\ sent'[s].stage = "accepted" =>
                                            sent[s].stage = "accepted" \/ IsLive(s)'
    PROVE  IngestInv'
<1>1. IngestTypes'
    BY DEF IngestInv, IngestTypes, AtEntry, AtDelayed
<1>2. SUFFICES ASSUME signals.backend = "redis"
               PROVE  IngestInv'
    BY <1>1 DEF IngestInv
<1>3. \A p \in Processes : CurrentEntry(p)' = CurrentEntry(p) /\ Carried(p)' = Carried(p)
    BY SameCarried DEF Carried, CurrentEntry
<1>4. /\ signals.read \in Nat /\ signals'.read \in Nat /\ signals.next \in Nat
      /\ signals.read < signals.next
      /\ \A p \in Processes : \A e \in drain[p].batch : e.id \in Nat
    BY <1>2 DEF IngestInv, IngestTypes, IsQueueOf, QueueOf, StreamOrder, DrainType, Entry
<1>5. \A p \in Processes : \A e \in drain'[p].batch :
        e.id <= signals'.read /\ \A f \in signals'.log : f.id = e.id => f.body = e.body
    BY <1>2, <1>4 DEF IngestInv
<1>6. \A p \in Processes : drain'[p].step = "ack" => (CurrentEntry(p).body.signal \in processed)'
    BY <1>2, <1>3 DEF IngestInv
<1>7. ASSUME NEW s \in Signals, sent'[s].stage = "accepted"
      PROVE  Accounted(s)'
    <2>1. CASE IsLive(s)'
        BY <2>1 DEF Accounted
    <2>2. CASE sent[s].stage = "accepted"
        BY <1>2, <1>3, <2>2 DEF IngestInv, Accounted, Settled
    <2> QED BY <1>2, <1>7, <2>1, <2>2
<1> QED BY <1>1, <1>2, <1>5, <1>6, <1>7 DEF IngestInv

---------------------------------------------------------------------------
\* One lemma for each step: a dequeue loses no signal,
LEMMA DequeueSignalsKeeps ==
    ASSUME IngestInv, NEW p \in Processes, DequeueSignals(p)
    PROVE  IngestInv'
<1> DEFINE batch == Given(Reclaim(signals), SignalBatch)
           after == Give(Reclaim(signals), batch)
<1>1. /\ drain[p].step = "dequeue" /\ sent' = sent /\ processed' = processed
      /\ failed' = failed /\ cut' = cut
      /\ \/ signals' = after /\ ContinueBatch(p, batch)
         \/ signals' \in {signals, after} /\ Abandon(p)
    BY DEF DequeueSignals, SignalCommandFails
<1>2. IsQueueOf(signals, Bodies) /\ IsQueueOf(Reclaim(signals), Bodies) /\ SignalBatch \in Nat
    BY ReclaimIsQueue, SignalBounds DEF IngestInv, IngestTypes
<1>3. batch \in SUBSET Reclaim(signals).log
    BY GivenIsStored
<1>4. batch \in SUBSET Entry(Bodies) /\ {} \in SUBSET Entry(Bodies)
    BY <1>2, <1>3 DEF IsQueueOf, QueueOf
<1>5. IsQueueOf(after, Bodies)
    BY <1>2, <1>3, GiveIsQueue
<1>6. after.backend = signals.backend
    <2>1. Reclaim(signals).backend = signals.backend
        BY <1>2, ReclaimIsQueue
    <2> HIDE DEF batch
    <2> QED BY <1>2, <2>1 DEF Give, IsQueueOf, QueueOf
<1>7. signals.backend = "redis" =>
        /\ after.log = signals.log /\ batch \subseteq after.log /\ StreamOrder(after)
        /\ signals.read <= after.read /\ \A e \in batch : e.id <= after.read
        /\ InQueue(signals) \subseteq InQueue(after)
    BY <1>2, StreamDequeue DEF IngestInv
<1>8. Carried(p) = {}
    BY <1>1 DEF Carried
<1>9. SentKeeps
    BY <1>1 DEF SentKeeps, IngestInv, IngestTypes
<1> HIDE DEF batch, after
<1>10. ASSUME signals' = signals, Abandon(p)
       PROVE  IngestInv'
    <2>1. PICK next : /\ IsDrain(next) /\ next.batch \subseteq {} /\ next.step \in Calm
                      /\ drain' = [drain EXCEPT ![p] = next]
        BY <1>4, <1>10, Moves
    <2> QED BY <1>1, <1>8, <1>10, <2>1, QueueStays DEF Calm
<1>11. ASSUME signals' = after, ContinueBatch(p, batch) \/ Abandon(p)
       PROVE  IngestInv'
    <2>1. PICK next : /\ IsDrain(next) /\ next.batch \subseteq batch /\ next.step \in Calm
                      /\ drain' = [drain EXCEPT ![p] = next]
        BY <1>4, <1>11, Moves
    <2>2. signals.backend = "redis" =>
            \A s \in Signals : IsLive(s) \/ IsTrimmed(s) \/ s \in Carried(p) => Accounted(s)'
        BY <1>7, <1>8, <1>11, LogStays DEF Accounted
    <2> QED
        BY <1>1, <1>5, <1>6, <1>7, <1>9, <1>11, <2>1, <2>2, DrainStepKeeps DEF Calm
<1> QED BY <1>1, <1>10, <1>11

\* a delayed entry is carried between its acknowledgement and its return,
LEMMA GiveBackKeeps ==
    ASSUME IngestInv, NEW p \in Processes, GiveBack(p)
    PROVE  IngestInv'
<1>1. drain[p].step = "giveBack" /\ IngestTypes
    BY DEF GiveBack, IngestInv
<1>2. PICK e \in drain[p].batch : e = Earliest(Delayed(drain[p].batch))
    BY <1>1, DelayedInBatch DEF AtDelayed
<1>3. /\ sent' = sent /\ processed' = processed /\ failed' = failed
      /\ signals' \in {signals, Ack(signals, e.id)}
      /\ \/ DrainGoto(p, "putBack") /\ cut' = cut
         \/ Abandon(p) /\ CutOff(p, {e.body.signal})
    BY <1>2 DEF GiveBack, SignalCommandFails
<1>4. Carried(p) = {} /\ drain[p].batch \in SUBSET Entry(Bodies)
    BY <1>1 DEF Carried, IngestTypes, DrainType
<1>5. ASSUME DrainGoto(p, "putBack"), cut' = cut
      PROVE  IngestInv'
    <2>1. PICK next : /\ IsDrain(next) /\ next.batch = drain[p].batch /\ next.step = "putBack"
                      /\ drain' = [drain EXCEPT ![p] = next]
        BY <1>1, <1>5, Goes DEF AtDelayed
    <2>2. drain'[p] = next
        BY <1>1, <2>1 DEF IngestTypes
    <2>3. Accounted(e.body.signal)'
        BY <1>2, <2>1, <2>2 DEF Carried, Accounted
    <2> QED BY <1>3, <1>4, <1>5, <2>1, <2>3, AckKeeps
<1>6. ASSUME Abandon(p), CutOff(p, {e.body.signal})
      PROVE  IngestInv'
    <2>1. PICK next : /\ IsDrain(next) /\ next.batch \subseteq drain[p].batch /\ next.step \in Calm
                      /\ drain' = [drain EXCEPT ![p] = next]
        BY <1>4, <1>6, Moves
    <2>2. /\ Accounted(e.body.signal)' /\ cut \subseteq cut'
          /\ next.step # "ack"
        BY <1>6, <2>1, CutOffAccounts DEF CutOff, Calm
    <2> QED BY <1>3, <1>4, <1>6, <2>1, <2>2, AckKeeps
<1> QED BY <1>3, <1>5, <1>6

\* What failed has another attempt or none left.
LEMMA FailureGoes ==
    ASSUME IngestInv, NEW p \in Processes, AfterFailure(p), drain[p].step \in AtEntry
    PROVE  \E next : /\ IsDrain(next) /\ next.batch = drain[p].batch
                     /\ next.step \in {"retry", "drop"}
                     /\ drain' = [drain EXCEPT ![p] = next]
<1> DEFINE step == IF CurrentEntry(p).body.retry + 1 <= MaxRetries THEN "retry" ELSE "drop"
<1>1. DrainGoto(p, step)
    BY DEF AfterFailure
<1>2. step \in {"retry", "drop"}
    OBVIOUS
<1> HIDE DEF step
<1> QED BY <1>1, <1>2, Goes DEF IngestInv, AtEntry

\* processing touches no queue,
LEMMA ProcessSignalKeeps ==
    ASSUME IngestInv, NEW p \in Processes, ProcessSignal(p)
    PROVE  IngestInv'
<1>1. /\ drain[p].step = "process" /\ sent' = sent /\ signals' = signals
      /\ failed' = failed /\ cut' = cut /\ IngestTypes
      /\ \/ processed' = processed \cup {CurrentEntry(p).body.signal} /\ DrainGoto(p, "ack")
         \/ AfterFailure(p) /\ processed' = processed
    BY DEF ProcessSignal, IngestInv
<1>2. Carried(p) = {}
    BY <1>1 DEF Carried
<1>3. CASE processed' = processed \cup {CurrentEntry(p).body.signal} /\ DrainGoto(p, "ack")
    <2>1. PICK next : /\ IsDrain(next) /\ next.batch = drain[p].batch /\ next.step = "ack"
                      /\ drain' = [drain EXCEPT ![p] = next]
        BY <1>1, <1>3, Goes DEF AtEntry
    <2>2. Earliest(next.batch).body.signal \in processed'
        BY <1>3, <2>1 DEF CurrentEntry
    <2> QED BY <1>1, <1>2, <1>3, <2>1, <2>2, QueueStays
<1>4. CASE AfterFailure(p) /\ processed' = processed
    <2>1. PICK next : /\ IsDrain(next) /\ next.batch = drain[p].batch
                      /\ next.step \in {"retry", "drop"}
                      /\ drain' = [drain EXCEPT ![p] = next]
        BY <1>1, <1>4, FailureGoes DEF AtEntry
    <2> QED BY <1>1, <1>2, <1>4, <2>1, QueueStays
<1> QED BY <1>1, <1>3, <1>4

\* What a drain goes on with after a message.
LEMMA NextGoes ==
    ASSUME IngestInv, NEW p \in Processes, NextOf(p, RestOfBatch(p))
    PROVE  \E next : /\ IsDrain(next) /\ next.batch \subseteq drain[p].batch /\ next.step \in Calm
                     /\ drain' = [drain EXCEPT ![p] = next]
<1>1. RestOfBatch(p) \in SUBSET Entry(Bodies) /\ RestOfBatch(p) \subseteq drain[p].batch
    BY DEF RestOfBatch, IngestInv, IngestTypes, DrainType
<1> QED BY <1>1, Moves

\* what is acknowledged was processed,
LEMMA AckSignalKeeps ==
    ASSUME IngestInv, NEW p \in Processes, AckSignal(p)
    PROVE  IngestInv'
<1>1. drain[p].step = "ack" /\ drain[p].step \in AtEntry /\ IngestTypes
    BY DEF AckSignal, IngestInv, AtEntry
<1>2. PICK e \in drain[p].batch : e = CurrentEntry(p)
    BY <1>1, CurrentInBatch
<1>3. /\ sent' = sent /\ processed' = processed /\ failed' = failed /\ cut' = cut
      /\ signals' \in {signals, Ack(signals, e.id)}
      /\ NextOf(p, RestOfBatch(p)) \/ AfterFailure(p)
    BY <1>2 DEF AckSignal, SignalCommandFails
<1>4. Carried(p) = {}
    BY <1>1 DEF Carried
<1>5. PICK next : /\ IsDrain(next) /\ next.batch \subseteq drain[p].batch /\ next.step # "ack"
                  /\ drain' = [drain EXCEPT ![p] = next]
    <2>1. CASE NextOf(p, RestOfBatch(p))
        BY <2>1, NextGoes DEF Calm
    <2>2. CASE AfterFailure(p)
        BY <1>1, <2>2, FailureGoes
    <2> QED BY <1>3, <2>1, <2>2
<1>6. CASE signals.backend = "redis"
    <2>1. Accounted(e.body.signal)'
        BY <1>1, <1>2, <1>3, <1>6 DEF IngestInv, Accounted, Settled
    <2> QED BY <1>3, <1>4, <1>5, <2>1, AckKeeps
<1>7. CASE signals.backend # "redis"
    <2>1. QueueMoves
        BY <1>3, EntryAcked
    <2>2. SentKeeps
        BY <1>3 DEF SentKeeps, IngestInv, IngestTypes
    <2> QED BY <1>3, <1>5, <1>7, <2>1, <2>2, DrainStepKeeps DEF QueueMoves
<1> QED BY <1>6, <1>7

\* a retry is carried between its acknowledgement and its addition,
LEMMA RetryAckKeeps ==
    ASSUME IngestInv, NEW p \in Processes, RetryAck(p)
    PROVE  IngestInv'
<1>1. drain[p].step = "retry" /\ drain[p].step \in AtEntry /\ "requeue" \in AtEntry /\ IngestTypes
    BY DEF RetryAck, IngestInv, AtEntry
<1>2. PICK e \in drain[p].batch : e = CurrentEntry(p)
    BY <1>1, CurrentInBatch
<1>3. /\ sent' = sent /\ processed' = processed /\ cut' = cut
      /\ signals' \in {signals, Ack(signals, e.id)}
      /\ \/ DrainGoto(p, "requeue") /\ failed' = failed
         \/ NextOf(p, RestOfBatch(p)) /\ failed' = failed \cup {e.body.signal}
    BY <1>2 DEF RetryAck, SignalCommandFails, CountFailed
<1>4. Carried(p) = {}
    BY <1>1 DEF Carried
<1>5. ASSUME DrainGoto(p, "requeue"), failed' = failed
      PROVE  IngestInv'
    <2>1. PICK next : /\ IsDrain(next) /\ next.batch = drain[p].batch /\ next.step = "requeue"
                      /\ drain' = [drain EXCEPT ![p] = next]
        BY <1>1, <1>5, Goes
    <2>2. drain'[p] = next
        BY <1>1, <2>1 DEF IngestTypes
    <2>3. Accounted(e.body.signal)'
        BY <1>2, <2>1, <2>2 DEF Carried, CurrentEntry, Accounted
    <2> QED BY <1>3, <1>4, <1>5, <2>1, <2>3, AckKeeps
<1>6. ASSUME NextOf(p, RestOfBatch(p)), failed' = failed \cup {e.body.signal}
      PROVE  IngestInv'
    <2>1. PICK next : /\ IsDrain(next) /\ next.batch \subseteq drain[p].batch /\ next.step \in Calm
                      /\ drain' = [drain EXCEPT ![p] = next]
        BY <1>6, NextGoes
    <2>2. Accounted(e.body.signal)' /\ next.step # "ack"
        BY <1>6, <2>1 DEF Accounted, Settled, Calm
    <2> QED BY <1>3, <1>4, <1>6, <2>1, <2>2, AckKeeps
<1> QED BY <1>3, <1>5, <1>6

\* what is dropped is counted as failed,
LEMMA DropSignalKeeps ==
    ASSUME IngestInv, NEW p \in Processes, DropSignal(p)
    PROVE  IngestInv'
<1>1. drain[p].step = "drop" /\ drain[p].step \in AtEntry /\ IngestTypes
    BY DEF DropSignal, IngestInv, AtEntry
<1>2. PICK e \in drain[p].batch : e = CurrentEntry(p)
    BY <1>1, CurrentInBatch
<1>3. /\ sent' = sent /\ processed' = processed /\ cut' = cut
      /\ signals' \in {signals, Ack(signals, e.id)}
      /\ NextOf(p, RestOfBatch(p)) /\ failed' = failed \cup {e.body.signal}
    BY <1>2 DEF DropSignal, SignalCommandFails, CountFailed
<1>4. Carried(p) = {}
    BY <1>1 DEF Carried
<1>5. PICK next : /\ IsDrain(next) /\ next.batch \subseteq drain[p].batch /\ next.step \in Calm
                  /\ drain' = [drain EXCEPT ![p] = next]
    BY <1>3, NextGoes
<1>6. Accounted(e.body.signal)' /\ next.step # "ack"
    BY <1>3, <1>5 DEF Accounted, Settled, Calm
<1> QED BY <1>3, <1>4, <1>5, <1>6, AckKeeps

\* what is carried is added again or counted as failed,
LEMMA RequeueKeeps ==
    ASSUME IngestInv, NEW p \in Processes, Requeue(p)
    PROVE  IngestInv'
<1>1. drain[p].step = "requeue" /\ drain[p].step \in AtEntry /\ IngestTypes
    BY DEF Requeue, IngestInv, AtEntry
<1>2. PICK e \in drain[p].batch : e = CurrentEntry(p) /\ e \in Entry(Bodies)
    BY <1>1, CurrentInBatch
<1> DEFINE again == Body(e.body.signal, e.body.retry + 1)
<1>3. /\ sent' = sent /\ processed' = processed /\ cut' = cut
      /\ NextOf(p, RestOfBatch(p))
      /\ \/ signals' \in Add(signals, again, FALSE, SignalDepth) /\ failed' = failed
         \/ /\ signals' = signals \/ signals' \in Add(signals, again, FALSE, SignalDepth)
            /\ failed' = failed \cup {e.body.signal}
    BY <1>2 DEF Requeue, SignalCommandFails, CountFailed
<1>4. Carried(p) = {e.body.signal}
    BY <1>1, <1>2 DEF Carried
<1>5. PICK next : /\ IsDrain(next) /\ next.batch \subseteq drain[p].batch /\ next.step \in Calm
                  /\ drain' = [drain EXCEPT ![p] = next]
    BY <1>3, NextGoes
<1>6. again \in Bodies /\ again.signal = e.body.signal /\ SignalDepth \in Nat
    BY <1>2, SignalBounds DEF Body, Bodies, Entry
<1> HIDE DEF again
<1>7. CASE signals' \in Add(signals, again, FALSE, SignalDepth)
    <2>1. /\ QueueMoves
          /\ signals.backend = "redis" =>
                /\ Accounted(e.body.signal)'
                /\ \A s : IsLive(s) \/ IsTrimmed(s) =>
                        IsLive(s)' \/ IsTrimmed(s)' \/ s = e.body.signal
        BY <1>6, <1>7, EntryAdded DEF Accounted
    <2>2. failed \subseteq failed' /\ next.step # "ack"
        BY <1>3, <1>5 DEF Calm
    <2> QED BY <1>3, <1>4, <1>5, <2>1, <2>2, AddKeeps
<1>8. CASE signals' = signals /\ failed' = failed \cup {e.body.signal}
    <2>1. QueueMoves /\ \A s : (IsLive(s) => IsLive(s)') /\ (IsTrimmed(s) => IsTrimmed(s)')
        BY <1>8, Unmoved
    <2>2. Accounted(e.body.signal)' /\ next.step # "ack"
        BY <1>5, <1>8 DEF Accounted, Settled, Calm
    <2> QED BY <1>3, <1>4, <1>5, <1>8, <2>1, <2>2, AddKeeps
<1> QED BY <1>3, <1>7, <1>8

\* the end of a drain leaves nothing behind,
LEMMA EndDrainKeeps ==
    ASSUME IngestInv, NEW p \in Processes, EndDrain(p)
    PROVE  IngestInv'
<1>1. IsDrain(Resting) /\ Resting.batch = {} /\ Resting.step # "ack"
    BY DEF IsDrain, Resting, DrainType, AtEntry, AtDelayed
<1>2. Carried(p) = {}
    BY DEF EndDrain, Carried
<1> QED BY <1>1, <1>2, QueueStays DEF EndDrain

\* and a delayed entry is put back or cut off.
LEMMA PutBackKeeps ==
    ASSUME IngestInv, NEW p \in Processes, PutBack(p)
    PROVE  IngestInv'
<1>1. drain[p].step = "putBack" /\ IngestTypes /\ IsQueueOf(signals, Bodies)
    BY DEF PutBack, IngestInv, IngestTypes
<1>2. PICK e \in drain[p].batch : e = Earliest(Delayed(drain[p].batch)) /\ e \in Entry(Bodies)
    BY <1>1, DelayedInBatch DEF AtDelayed
<1>3. Carried(p) = {e.body.signal} /\ e.body \in Bodies
    BY <1>1, <1>2 DEF Carried, Entry
<1> DEFINE ready == signals.next > MaxEntries
           rest == drain[p].batch \ {e}
<1>4. /\ sent' = sent /\ processed' = processed /\ failed' = failed
      /\ \/ signals' = AddLast(signals, e.body, ready) /\ ContinueBatch(p, rest) /\ cut' = cut
         \/ /\ signals' = signals \/ signals' = AddLast(signals, e.body, ready)
            /\ Abandon(p) /\ CutOff(p, {e.body.signal})
    BY <1>2, <1>3 DEF PutBack, SignalCommandFails
<1>5. ready \in BOOLEAN
    OBVIOUS
<1>6. rest \in SUBSET Entry(Bodies) /\ rest \subseteq drain[p].batch
    BY <1>1 DEF IngestTypes, DrainType
<1> HIDE DEF ready, rest
<1>7. PICK next : /\ IsDrain(next) /\ next.batch \subseteq drain[p].batch /\ next.step \in Calm
                  /\ drain' = [drain EXCEPT ![p] = next]
    BY <1>4, <1>6, Moves
<1>8. next.step # "ack" /\ cut \subseteq cut'
    BY <1>4, <1>7 DEF Calm, CutOff
<1>9. CASE signals' = AddLast(signals, e.body, ready)
    <2>1. PICK limit \in Nat : /\ signals.backend = "redis" => limit = SignalDepth
                               /\ AddLast(signals, e.body, ready) \in Add(signals, e.body, ready, limit)
        <3>1. CASE signals.backend = "redis"
            BY <1>1, <3>1, AddLastAdds, SignalBounds
        <3>2. CASE signals.backend # "redis"
            <4>1. Unread(signals) \subseteq signals.log
                BY DEF Unread
            <4>2. Depth(signals) \in Nat
                BY <1>1, <4>1, FS_Subset, FS_CardinalityType DEF Depth, IsQueueOf
            <4>3. Depth(signals) + 1 \in Nat /\ Depth(signals) + 1 > Depth(signals)
                BY <4>2
            <4> QED BY <1>1, <3>2, <4>3, AddLastAdds
        <3> QED BY <3>1, <3>2
    <2>2. signals' \in Add(signals, e.body, ready, limit)
        BY <1>9, <2>1
    <2>3. /\ QueueMoves
          /\ signals.backend = "redis" =>
                /\ Accounted(e.body.signal)'
                /\ \A s : IsLive(s) \/ IsTrimmed(s) =>
                        IsLive(s)' \/ IsTrimmed(s)' \/ s = e.body.signal
        BY <1>3, <1>5, <2>1, <2>2, EntryAdded DEF Accounted
    <2> QED BY <1>3, <1>4, <1>7, <1>8, <2>3, AddKeeps
<1>10. CASE signals' = signals /\ CutOff(p, {e.body.signal})
    <2>1. QueueMoves /\ \A s : (IsLive(s) => IsLive(s)') /\ (IsTrimmed(s) => IsTrimmed(s)')
        BY <1>10, Unmoved
    <2>2. Accounted(e.body.signal)'
        BY <1>7, <1>10, CutOffAccounts
    <2> QED BY <1>3, <1>4, <1>7, <1>8, <2>1, <2>2, AddKeeps
<1> QED BY <1>4, <1>9, <1>10

---------------------------------------------------------------------------
\* A request starts a drain where none runs.
LEMMA Starts ==
    ASSUME IngestInv, NEW p \in Processes, StartDrain(p) \/ UNCHANGED drain
    PROVE  /\ drain' \in [Processes -> DrainType]
           /\ \A q \in Processes :
                /\ drain'[q].batch = drain[q].batch
                /\ drain'[q].step = drain[q].step
                   \/ (drain[q].step = "idle" /\ drain'[q].step = "dequeue")
<1>1. CASE UNCHANGED drain
    BY <1>1 DEF IngestInv, IngestTypes
<1>2. CASE StartDrain(p)
    <2> DEFINE step == IF drain[p].step = "idle" THEN "dequeue" ELSE drain[p].step
    <2>1. drain' = [drain EXCEPT ![p] = [drain[p] EXCEPT !.step = step]]
        BY <1>2 DEF StartDrain, DrainGoto
    <2>2. drain[p] \in DrainType /\ drain \in [Processes -> DrainType]
        BY DEF IngestInv, IngestTypes
    <2>3. step = drain[p].step \/ (drain[p].step = "idle" /\ step = "dequeue")
        OBVIOUS
    <2>4. step \in AtEntry \cup AtDelayed \cup {"idle", "dequeue", "end"}
        BY <2>2 DEF DrainType
    <2> HIDE DEF step
    <2>5. [drain[p] EXCEPT !.step = step] = [step |-> step, batch |-> drain[p].batch]
        BY <2>2 DEF DrainType
    <2>6. drain' = [drain EXCEPT ![p] = [step |-> step, batch |-> drain[p].batch]]
        BY <2>1, <2>5, Zenon
    <2>7. [step |-> step, batch |-> drain[p].batch] \in DrainType
        BY <2>2, <2>4 DEF DrainType
    <2> QED BY <2>2, <2>3, <2>6, <2>7
<1> QED BY <1>1, <1>2

\* A request at the gate accepts nothing yet.
LEMMA PassGateKeeps ==
    ASSUME IngestInv, NEW p \in Processes, NEW s \in Signals, PassGate(p, s)
    PROVE  IngestInv'
<1>1. /\ processed' = processed /\ failed' = failed /\ cut' = cut
      /\ StartDrain(p) \/ UNCHANGED drain
      /\ signals' = IF signals.backend = "memory" THEN Reclaim(signals) ELSE signals
      /\ \/ sent' = [sent EXCEPT ![s].stage = "refused"]
         \/ sent' = [sent EXCEPT ![s] = [stage |-> "passed", by |-> p]]
    BY DEF PassGate
<1>2. IsQueueOf(signals, Bodies) /\ p \in Nat
    BY SignalBounds DEF IngestInv, IngestTypes
<1>3. IsQueueOf(signals', Bodies) /\ signals'.backend = signals.backend
    BY <1>1, <1>2, ReclaimIsQueue
<1>4. SentKeeps
    BY <1>1, <1>2 DEF SentKeeps, IngestInv, IngestTypes
<1>5. ASSUME signals.backend = "redis"
      PROVE  /\ StreamOrder(signals') /\ signals.read <= signals'.read
             /\ \A f \in signals'.log :
                  f.id >= signals.next \/ \E g \in signals.log : g.id = f.id /\ g.body = f.body
             /\ \A k \in Signals : /\ IsLive(k) \/ IsTrimmed(k) => IsLive(k)' \/ IsTrimmed(k)'
                                   /\ sent'[k].stage = "accepted" =>
                                          sent[k].stage = "accepted" \/ IsLive(k)'
    <2>1. signals' = signals
        BY <1>1, <1>5
    <2>2. \A k : (IsLive(k) => IsLive(k)') /\ (IsTrimmed(k) => IsTrimmed(k)')
        BY <2>1, Unmoved
    <2>3. signals.read \in Nat
        BY <1>2 DEF IsQueueOf, QueueOf
    <2> QED BY <1>4, <1>5, <2>1, <2>2, <2>3 DEF IngestInv, SentKeeps
<1> QED BY <1>1, <1>3, <1>4, <1>5, Starts, DrainsRest DEF SentKeeps

\* A request whose signal is accepted has made it live.
LEMMA EnqueueSignalKeeps ==
    ASSUME IngestInv, NEW p \in Processes, NEW s \in Signals, EnqueueSignal(p, s)
    PROVE  IngestInv'
<1> DEFINE first == Body(s, 0)
           after == Add(signals, first, TRUE, SignalDepth)
           Stage(stage) == [NotSent EXCEPT !.stage = stage]
<1>1. /\ processed' = processed /\ failed' = failed /\ cut' = cut /\ StartDrain(p)
      /\ \/ signals' \in after /\ sent' = [sent EXCEPT ![s] = Stage("accepted")]
         \/ /\ signals' = signals \/ signals' \in after
            /\ sent' = [sent EXCEPT ![s] = Stage("refused")]
    BY DEF EnqueueSignal, SignalCommandFails
<1>2. first \in Bodies /\ first.signal = s /\ SignalDepth \in Nat /\ TRUE \in BOOLEAN
    BY SignalBounds DEF Body, Bodies
<1>3. /\ \A stage \in {"accepted", "refused"} : /\ Stage(stage) = [stage |-> stage, by |-> 0]
                                                /\ Stage(stage).stage = stage
      /\ sent \in [Signals -> [stage : {"new", "passed", "refused", "accepted"}, by : Nat]]
    BY DEF NotSent, IngestInv, IngestTypes
<1> HIDE DEF first, Stage
<1>4. PICK stage \in {"accepted", "refused"} :
        /\ sent' = [sent EXCEPT ![s] = Stage(stage)]
        /\ signals' = signals \/ signals' \in after
        /\ stage = "accepted" => signals' \in after
    BY <1>1
<1>5. /\ sent' \in [Signals -> [stage : {"new", "passed", "refused", "accepted"}, by : Nat]]
      /\ \A k \in Signals : sent'[k].stage = "accepted" =>
            sent[k].stage = "accepted" \/ (k = s /\ stage = "accepted")
    <2>1. Stage(stage) \in [stage : {"new", "passed", "refused", "accepted"}, by : Nat]
        BY <1>3
    <2> QED BY <1>3, <1>4, <2>1
<1>6. /\ QueueMoves
      /\ signals.backend = "redis" =>
            /\ stage = "accepted" => IsLive(s)'
            /\ \A k : IsLive(k) \/ IsTrimmed(k) => IsLive(k)' \/ IsTrimmed(k)'
    <2>1. CASE signals' \in after
        <3>1. /\ QueueMoves
              /\ signals.backend = "redis" =>
                    /\ IsLive(s)'
                    /\ \A k : IsLive(k) \/ IsTrimmed(k) => IsLive(k)' \/ IsTrimmed(k)' \/ k = s
            BY <1>2, <2>1, EntryAdded
        <3> QED BY <3>1
    <2>2. CASE signals' = signals /\ stage # "accepted"
        BY <2>2, Unmoved
    <2> QED BY <1>4, <2>1, <2>2
<1> HIDE DEF after
<1> QED BY <1>1, <1>5, <1>6, Starts, DrainsRest DEF QueueMoves

\* A process that dies carries nothing any more: it is cut off with what it carried.
LEMMA ProcessDiesKeeps ==
    ASSUME IngestInv, NEW p \in Processes, ProcessDies(p)
    PROVE  IngestInv'
<1>1. /\ drain' = [drain EXCEPT ![p] = Resting] /\ CutOff(p, Carried(p))
      /\ processed' = processed /\ failed' = failed
      /\ signals' = IF signals.backend = "memory" THEN EmptyQueue("memory") ELSE signals
      /\ sent' = [k \in Signals |-> IF sent[k] = [stage |-> "passed", by |-> p]
                                    THEN [NotSent EXCEPT !.stage = "refused"] ELSE sent[k]]
    BY DEF ProcessDies
<1>2. IsDrain(Resting) /\ Resting.batch = {} /\ Resting.step # "ack"
    BY DEF IsDrain, Resting, DrainType, AtEntry, AtDelayed
<1>3. IsQueueOf(signals, Bodies) /\ "memory" \in QueueBackends
    BY DEF IngestInv, IngestTypes, QueueBackends
<1>4. IsQueueOf(signals', Bodies) /\ signals'.backend = signals.backend
    <2>1. CASE signals.backend = "memory"
        <3>1. EmptyQueue("memory").backend = "memory"
            BY DEF EmptyQueue
        <3> QED BY <1>1, <1>3, <2>1, <3>1, EmptyIsQueue
    <2>2. CASE signals.backend # "memory"
        <3>1. signals' = signals
            BY <1>1, <2>2
        <3> QED BY <1>3, <3>1
    <2> QED BY <2>1, <2>2
<1>5. SentKeeps
    <2>1. [NotSent EXCEPT !.stage = "refused"] = [stage |-> "refused", by |-> 0]
        BY DEF NotSent
    <2>2. sent \in [Signals -> [stage : {"new", "passed", "refused", "accepted"}, by : Nat]]
        BY DEF IngestInv, IngestTypes
    <2>3. \A k \in Signals : sent'[k] = sent[k] \/ sent'[k] = [stage |-> "refused", by |-> 0]
        BY <1>1, <2>1
    <2>4. sent' \in [Signals -> [stage : {"new", "passed", "refused", "accepted"}, by : Nat]]
        BY <1>1, <2>1, <2>2
    <2> QED BY <2>3, <2>4 DEF SentKeeps
<1>6. ASSUME signals.backend = "redis"
      PROVE  /\ QueueMoves
             /\ \A s \in Signals : IsLive(s) \/ IsTrimmed(s) \/ s \in Carried(p) => Accounted(s)'
    <2>1. signals' = signals
        BY <1>1, <1>6
    <2>2. QueueMoves /\ \A s : (IsLive(s) => IsLive(s)') /\ (IsTrimmed(s) => IsTrimmed(s)')
        BY <2>1, Unmoved
    <2>3. \A s \in Carried(p) : Accounted(s)'
        BY <1>1, CutOffAccounts
    <2>4. \A s : IsLive(s) \/ IsTrimmed(s) => Accounted(s)'
        BY <2>2 DEF Accounted
    <2> QED BY <2>2, <2>3, <2>4
<1>7. cut \subseteq cut'
    BY <1>1 DEF CutOff
<1> QED BY <1>1, <1>2, <1>4, <1>5, <1>6, <1>7, DrainStepKeeps DEF QueueMoves

\* A delay that passes changes an entry in no other way.
LEMMA DelayPassesKeeps ==
    ASSUME IngestInv, DelayPasses
    PROVE  IngestInv'
<1>1. PICK e \in signals.log :
        signals' = [signals EXCEPT !.log = (signals.log \ {e}) \cup {[e EXCEPT !.ready = TRUE]}]
    BY DEF DelayPasses
<1> DEFINE late == [e EXCEPT !.ready = TRUE]
           log == (signals.log \ {e}) \cup {late}
<1>2. IsQueueOf(signals, Bodies) /\ e \in Entry(Bodies)
    BY DEF IngestInv, IngestTypes, IsQueueOf, QueueOf
<1>3. late \in Entry(Bodies) /\ late.id = e.id /\ late.place = e.place /\ late.body = e.body
    BY <1>2 DEF Entry
<1>4. signals' = [signals EXCEPT !.log = log]
    BY <1>1
<1> HIDE DEF late
<1>5. /\ log \in SUBSET Entry(Bodies)
      /\ \A f \in log : \E g \in signals.log :
            g.id = f.id /\ g.place = f.place /\ g.body = f.body /\ (f = g \/ (f = late /\ g = e))
      /\ \A g \in signals.log : \E f \in log : g.id = f.id /\ g.body = f.body
    <2>1. log \in SUBSET Entry(Bodies)
        BY <1>2, <1>3 DEF IsQueueOf, QueueOf
    <2>2. ASSUME NEW f \in log
          PROVE  \E g \in signals.log :
                    g.id = f.id /\ g.place = f.place /\ g.body = f.body /\ (f = g \/ (f = late /\ g = e))
        <3>1. CASE f = late
            BY <1>3, <3>1
        <3>2. CASE f # late
            <4>1. f \in signals.log
                BY <3>2
            <4> QED BY <4>1
        <3> QED BY <3>1, <3>2
    <2>3. ASSUME NEW g \in signals.log
          PROVE  \E f \in log : g.id = f.id /\ g.body = f.body
        <3>1. CASE g = e
            BY <1>3, <3>1
        <3>2. CASE g # e
            <4>1. g \in log
                BY <3>2
            <4> QED BY <4>1
        <3> QED BY <3>1, <3>2
    <2> QED BY <2>1, <2>2, <2>3
<1>6. IsFiniteSet(log)
    BY <1>2, FS_Subset, FS_AddElement DEF IsQueueOf
<1>7. Cardinality(log) >= Cardinality(signals.log) \/ signals.backend # "redis"
    <2>1. CASE signals.backend = "redis"
        <3>1. late \notin signals.log \ {e}
            BY <1>3, <2>1 DEF IngestInv, StreamOrder
        <3>2. Cardinality(log) = Cardinality(signals.log \ {e}) + 1
            BY <1>2, <3>1, FS_Subset, FS_AddElement DEF IsQueueOf
        <3>3. Cardinality(signals.log \ {e}) = Cardinality(signals.log) - 1
            BY <1>2, FS_RemoveElement DEF IsQueueOf
        <3>4. Cardinality(signals.log) \in Nat
            BY <1>2, FS_CardinalityType DEF IsQueueOf
        <3> QED BY <3>2, <3>3, <3>4
    <2> QED BY <2>1
<1> HIDE DEF log
<1>8. signals' = [backend |-> signals.backend, next |-> signals.next, log |-> log,
                  read |-> signals.read, held |-> signals.held, idle |-> signals.idle]
    BY <1>2, <1>4 DEF IsQueueOf, QueueOf
<1>9. /\ signals'.backend = signals.backend /\ signals'.next = signals.next /\ signals'.log = log
      /\ signals'.read = signals.read /\ signals'.held = signals.held /\ signals'.idle = signals.idle
    BY <1>8
<1>10. IsQueueOf(signals', Bodies)
    <2>1. \A f \in log : f.id < signals.next
        BY <1>2, <1>5 DEF IsQueueOf
    <2> QED BY <1>2, <1>5, <1>6, <1>8, <1>9, <2>1 DEF IsQueueOf, QueueOf
<1>11. ASSUME signals.backend = "redis"
       PROVE  /\ StreamOrder(signals') /\ signals.read <= signals'.read
              /\ \A s \in Signals : IsLive(s) \/ IsTrimmed(s) => IsLive(s)' \/ IsTrimmed(s)'
    <2>1. StreamOrder(signals)
        BY <1>11 DEF IngestInv
    <2>2. \A f, g \in log : f.id = g.id => f = g
        BY <1>3, <1>5, <2>1 DEF StreamOrder, log
    <2>3. StreamOrder(signals')
        BY <1>5, <1>9, <2>1, <2>2 DEF StreamOrder
    <2>4. signals.read \in Nat
        BY <1>2 DEF IsQueueOf, QueueOf
    <2>5. \A s : IsTrimmed(s) => IsTrimmed(s)'
        <3>1. Cardinality(log) \in Nat /\ Cardinality(signals.log) \in Nat /\ SignalDepth \in Nat
            BY <1>2, <1>6, FS_CardinalityType, SignalBounds DEF IsQueueOf
        <3> QED BY <1>5, <1>7, <1>9, <1>11, <3>1 DEF IsTrimmed
    <2>6. \A s : IsLive(s) => IsLive(s)'
        BY <1>5, <1>9, <1>11 DEF IsLive, InQueue, Unread
    <2> QED BY <1>9, <2>3, <2>4, <2>5, <2>6
<1>12. /\ drain' = drain /\ sent' = sent /\ processed' = processed /\ failed' = failed /\ cut' = cut
      /\ drain \in [Processes -> DrainType]
      /\ sent \in [Signals -> [stage : {"new", "passed", "refused", "accepted"}, by : Nat]]
    BY DEF DelayPasses, IngestInv, IngestTypes
<1> QED BY <1>5, <1>9, <1>10, <1>11, <1>12, DrainsRest

\* An overdue entry stays held, whether a living drain works on it or nobody.
LEMMA OverdueKeeps ==
    ASSUME IngestInv, SignalOverdue \/ SlowDrain
    PROVE  IngestInv'
<1>1. PICK i \in signals.held : signals' = Overdue(signals, i)
    BY DEF SignalOverdue, SlowDrain
<1>2. IsQueueOf(signals, Bodies) /\ i \in Nat
    BY <1>1 DEF IngestInv, IngestTypes, IsQueueOf, QueueOf
<1>3. IsQueueOf(signals', Bodies)
    BY <1>1, <1>2, OverdueIsQueue
<1>4. /\ signals'.backend = signals.backend /\ signals'.log = signals.log
      /\ signals'.next = signals.next /\ signals'.read = signals.read /\ signals'.held = signals.held
      /\ signals'.idle = signals.idle \cup {i}
    BY <1>1, <1>2 DEF Overdue, IsQueueOf, QueueOf
<1>5. InQueue(signals') = InQueue(signals)
    BY <1>4 DEF InQueue, Unread
<1>6. \A s : (IsLive(s) => IsLive(s)') /\ (IsTrimmed(s) => IsTrimmed(s)')
    BY <1>4, <1>5, LogStays
<1>7. StreamOrder(signals) => StreamOrder(signals')
    BY <1>1, <1>4 DEF StreamOrder
<1>8. /\ drain' = drain /\ sent' = sent /\ processed' = processed /\ failed' = failed /\ cut' = cut
      /\ drain \in [Processes -> DrainType] /\ signals.read \in Nat
      /\ sent \in [Signals -> [stage : {"new", "passed", "refused", "accepted"}, by : Nat]]
    BY <1>2 DEF SignalOverdue, SlowDrain, IngestInv, IngestTypes, IsQueueOf, QueueOf
<1>9. signals.backend = "redis" =>
        /\ StreamOrder(signals') /\ signals.read <= signals'.read
        /\ \A s : IsLive(s) \/ IsTrimmed(s) => IsLive(s)' \/ IsTrimmed(s)'
    BY <1>4, <1>6, <1>7, <1>8 DEF IngestInv
<1> QED BY <1>3, <1>4, <1>8, <1>9, DrainsRest

LEMMA SignalNextKeeps == IngestInv /\ [SignalNext]_signalVars => IngestInv'
<1> SUFFICES ASSUME IngestInv, [SignalNext]_signalVars PROVE IngestInv'
    OBVIOUS
<1>1. CASE UNCHANGED signalVars
    <2>1. /\ signals' = signals /\ drain' = drain /\ sent' = sent /\ processed' = processed
          /\ failed' = failed /\ cut' = cut
        BY <1>1 DEF signalVars
    <2>2. QueueMoves /\ \A s : (IsLive(s) => IsLive(s)') /\ (IsTrimmed(s) => IsTrimmed(s)')
        BY <2>1, Unmoved
    <2>3. /\ drain \in [Processes -> DrainType]
          /\ sent \in [Signals -> [stage : {"new", "passed", "refused", "accepted"}, by : Nat]]
        BY DEF IngestInv, IngestTypes
    <2> QED BY <2>1, <2>2, <2>3, DrainsRest DEF QueueMoves
<1>2. ASSUME NEW p \in Processes, DrainStep(p)
      PROVE  IngestInv'
    BY <1>2, DequeueSignalsKeeps, GiveBackKeeps, PutBackKeeps, ProcessSignalKeeps, AckSignalKeeps,
       RetryAckKeeps, RequeueKeeps, DropSignalKeeps, EndDrainKeeps DEF DrainStep
<1> QED
    BY <1>1, <1>2, PassGateKeeps, EnqueueSignalKeeps, ProcessDiesKeeps, DelayPassesKeeps,
       OverdueKeeps DEF SignalNext

\* Whatever fails or dies and however drains overlap, an accepted signal stays
\* accounted for.
THEOREM AcceptedSignalsAreKept == SignalSpec => []AcceptedIsAccountedFor
<1>1. IngestInv => AcceptedIsAccountedFor
    <2> SUFFICES ASSUME IngestInv, signals.backend = "redis", NEW s \in Signals,
                        sent[s].stage = "accepted"
                 PROVE  IsAccountedFor(s) \/ s \in cut
        BY DEF AcceptedIsAccountedFor
    <2>1. Accounted(s)
        BY DEF IngestInv
    <2>2. IsLive(s) => Waits(s)
        BY DEF IsLive, Waits
    <2>3. IsTrimmed(s) => PushedOutOfStream(s)
        <3>1. ASSUME \A e \in signals.log : e.body.signal # s
              PROVE  {e \in signals.log : e.body.signal # s} = signals.log
            BY <3>1
        <3> QED BY <3>1 DEF IsTrimmed, PushedOutOfStream
    <2> QED BY <2>1, <2>2, <2>3 DEF Accounted, Settled, IsAccountedFor
<1> QED BY <1>1, IngestInit, SignalNextKeeps, PTL DEF SignalSpec
=============================================================================

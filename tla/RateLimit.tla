------------------------------- MODULE RateLimit -------------------------------
(***************************************************************************)
(* rateLimit for one key: a counter in Redis that every process counts up, *)
(* command by command, or a bucket in the memory of a process, which is    *)
(* also what a process falls back to when Redis fails, unless the limit    *)
(* has to be distributed.  A limit of 0 and the switch that turns the      *)
(* limiter off return before any of this.                                  *)
(***************************************************************************)
EXTENDS Integers, FiniteSets

CONSTANTS
    LimitedCalls, \* calls of rateLimit with one bucket and key
    Hosts,        \* processes they run in
    Limit,        \* opts.limit
    Window,       \* opts.windowMs, in ticks
    RateModes     \* what the run looks at: "memory", "redis", "distributed"

ASSUME RateBounds ==
    /\ Limit \in Nat \ {0} /\ Window \in Nat \ {0}
    /\ RateModes \subseteq {"memory", "redis", "distributed"}
    /\ IsFiniteSet(LimitedCalls)

VARIABLES
    mode,       \* backend and requireDistributed
    counter,    \* the Redis key: its count (0: no key), ttl and a serial number
    bucket,     \* the bucket of each process, numbered likewise
    call,       \* locals of each call
    degraded    \* rateLimitHealth.degraded of each process

rateVars == <<mode, counter, bucket, call, degraded>>

\* PTTL of a key that has no expiry.
NoExpiry == -1

RateInit ==
    /\ mode \in RateModes
    /\ counter = [count |-> 0, ttl |-> NoExpiry, window |-> 0]
    /\ bucket = [h \in Hosts |-> [remaining |-> 0, ttl |-> 0, window |-> 0]]
    /\ call \in [LimitedCalls -> {[step |-> "start", host |-> h, store |-> "none",
                                   count |-> 0, window |-> 0] : h \in Hosts}]
    /\ degraded = [h \in Hosts |-> FALSE]

Incremented ==
    IF counter.count = 0
    THEN [count |-> 1, ttl |-> NoExpiry, window |-> counter.window + 1]
    ELSE [counter EXCEPT !.count = @ + 1]

Expiring == IF counter.count = 0 THEN counter ELSE [counter EXCEPT !.ttl = Window]

\* A call ends with an answer from a store.
Answered(c, kind, window, ok) ==
    [call EXCEPT ![c].step = IF ok THEN "accepted" ELSE "exceeded",
                 ![c].store = kind, ![c].window = window]

Health(c, bad) == degraded' = [degraded EXCEPT ![call[c].host] = bad]

---------------------------------------------------------------------------
\* The bucket a call finds: a new one when there is none or its time is over.
CurrentBucket(h) ==
    IF bucket[h].ttl = 0
    THEN [remaining |-> Limit, ttl |-> Window, window |-> bucket[h].window + 1]
    ELSE bucket[h]

\* memoryRateLimit, which nothing interrupts; one bucket too many and the map
\* of the process is emptied, this bucket included.
InMemory(c) ==
    LET h == call[c].host
        b == CurrentBucket(h)
        taken == [b EXCEPT !.remaining = @ - 1]
    IN /\ \/ /\ b.remaining <= 0
             /\ bucket' = [bucket EXCEPT ![h] = b]
             /\ call' = Answered(c, "memory", b.window, FALSE)
          \/ /\ b.remaining > 0
             /\ bucket' \in {[bucket EXCEPT ![h] = taken],
                             [bucket EXCEPT ![h] = [taken EXCEPT !.ttl = 0]]}
             /\ call' = Answered(c, "memory", b.window, TRUE)

LimitInMemory(c) ==
    /\ mode = "memory" /\ call[c].step = "start"
    /\ InMemory(c) /\ Health(c, FALSE)
    /\ UNCHANGED <<mode, counter>>

\* Mutant: the limit degrades to memory whatever was required.
RedisFailsOpen(c) == InMemory(c) /\ Health(c, TRUE)

\* No client, or a command that throws: fail closed when the limit has to be
\* distributed, else go on in memory.
RedisFails(c) ==
    /\ IF mode = "distributed"
       THEN call' = [call EXCEPT ![c].step = "unavailable"] /\ UNCHANGED bucket
       ELSE InMemory(c)
    /\ Health(c, TRUE)

\* A command that would leave the counter as given takes no effect and throws,
\* or takes effect without an answer.
CounterFails(c, after) ==
    /\ mode # "memory"
    /\ counter' \in {counter, after}
    /\ RedisFails(c)
    /\ UNCHANGED mode

\* INCR.
Increment(c) ==
    /\ mode # "memory" /\ call[c].step = "start"
    /\ \/ /\ counter' = Incremented
          /\ call' = [call EXCEPT ![c].step = IF Incremented.count <= 1 THEN "expire" ELSE "ttl",
                                  ![c].count = Incremented.count,
                                  ![c].window = Incremented.window]
          /\ UNCHANGED <<mode, bucket, degraded>>
       \/ CounterFails(c, Incremented)

\* PEXPIRE of the first call of a window.
Expire(c) ==
    /\ call[c].step = "expire"
    /\ \/ /\ counter' = Expiring
          /\ call' = [call EXCEPT ![c].step = "ttl"]
          /\ UNCHANGED <<mode, bucket, degraded>>
       \/ CounterFails(c, Expiring)

\* The answer of redisRateLimit.
Decide(c) ==
    /\ call' = Answered(c, "redis", call[c].window, call[c].count <= Limit)
    /\ Health(c, FALSE)
    /\ UNCHANGED bucket

\* Mutant: a key that is there is left as it is.
LacksExpiryNever == counter.count = 0

\* PTTL is negative when the key has no expiry, and when it is gone.
LacksExpiry == counter.ttl < 0

\* PTTL.
ReadTtl(c) ==
    /\ call[c].step = "ttl"
    /\ \/ /\ IF LacksExpiry
             THEN call' = [call EXCEPT ![c].step = "repair"] /\ UNCHANGED <<bucket, degraded>>
             ELSE Decide(c)
          /\ UNCHANGED <<mode, counter>>
       \/ CounterFails(c, counter)

\* PEXPIRE of whoever finds the key without an expiry.
Repair(c) ==
    /\ call[c].step = "repair"
    /\ \/ counter' = Expiring /\ Decide(c) /\ UNCHANGED mode
       \/ CounterFails(c, Expiring)

---------------------------------------------------------------------------
Unanswered(c) == call[c].step \in {"expire", "ttl", "repair"}

CallDies(c) ==
    /\ Unanswered(c)
    /\ call' = [call EXCEPT ![c].step = "dead"]
    /\ UNCHANGED <<mode, counter, bucket, degraded>>

\* A key with an expiry is gone when it is over, and so is a bucket.
TimePasses ==
    /\ \/ counter.ttl > 0
       \/ \E h \in Hosts : bucket[h].ttl > 0
    /\ counter' = IF counter.ttl > 1 THEN [counter EXCEPT !.ttl = @ - 1]
                  ELSE IF counter.ttl = 1
                       THEN [counter EXCEPT !.ttl = NoExpiry, !.count = 0]
                       ELSE counter
    /\ bucket' = [h \in Hosts |-> [bucket[h] EXCEPT !.ttl = IF @ > 0 THEN @ - 1 ELSE 0]]
    /\ UNCHANGED <<mode, call, degraded>>

RateNext ==
    \/ \E c \in LimitedCalls :
        LimitInMemory(c) \/ Increment(c) \/ Expire(c) \/ ReadTtl(c) \/ Repair(c) \/ CallDies(c)
    \/ TimePasses

RateSpec == RateInit /\ [][RateNext]_rateVars

---------------------------------------------------------------------------
\* Nobody is limited by a window without an end: once a call was answered from
\* the counter of a window, that window has an expiry, although INCR and PEXPIRE
\* are two commands and whoever was to send the second may have died.
WindowEnds ==
    counter.count > 0 /\ counter.ttl = NoExpiry =>
        \A c \in LimitedCalls :
            call[c].step \in {"accepted", "exceeded"} /\ call[c].store = "redis" =>
                call[c].window # counter.window

\* The calls that got through in one window of a store.
Through(kind, host, window) ==
    {c \in LimitedCalls : /\ call[c].step = "accepted" /\ call[c].window = window
                          /\ call[c].store = kind
                          /\ kind = "memory" => call[c].host = host}

\* However the calls of all processes interleave and whatever fails, a window
\* lets no more than the limit through, and a distributed limit is never
\* answered from a memory.
LimitPerWindow ==
    /\ \A c \in LimitedCalls, kind \in {"redis", "memory"} :
        Cardinality(Through(kind, call[c].host, call[c].window)) <= Limit
    /\ mode = "distributed" => \A c \in LimitedCalls : call[c].store # "memory"
=============================================================================
